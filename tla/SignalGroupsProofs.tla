------------------------- MODULE SignalGroupsProofs -------------------------
(***************************************************************************)
(* Proofs about FieldCodec.tla and SignalGroups.tla.  The encoding of      *)
(* numbers, their byte orders, the packing of bytes into registers and the *)
(* layout of a group are each undone by the way back, for every size of a  *)
(* byte, every type and all numbers.  What a group is known to hold is     *)
(* therefore what its cells spell, whatever the callers, the threads and   *)
(* the device do in between: reads give back what was written, another     *)
(* master reads it in the configured order, and a write stays in its group *)
(* and leaves in every field of it what was asked for.  The simulator of   *)
(* the demos, from the frame to the packed coils, is such a device.        *)
(***************************************************************************)
EXTENDS MCSignalGroups, SequenceTheorems, WellFoundedInduction, TLAPS

Width == {1, 2, 4, 8}

\* Byte strings that agree everywhere are the same.
LEMMA SameBytes ==
    ASSUME NEW n, NEW f \in [1..n -> Byte], NEW g \in [1..n -> Byte],
           \A i \in 1..n : f[i] = g[i]
    PROVE  f = g
<1>1. f = [i \in 1..n |-> f[i]] /\ g = [i \in 1..n |-> g[i]]
  OBVIOUS
<1> QED
  BY <1>1

\* A byte order is its own inverse for every width a type has, which is what
\* from_bytes relies on when it calls the same convert_byte_order as to_bytes.
THEOREM ReorderTwice ==
    ASSUME NEW n \in Width, NEW bytes \in [1..n -> Byte], NEW o \in ByteOrder
    PROVE  Reorder(Reorder(bytes, o), o) = bytes
<1>1. Len(bytes) = n /\ DOMAIN bytes = 1..n
  BY DEF Width
<1>2. CASE o = "BigEndian"
  BY <1>2 DEF Reorder
<1>3. CASE o = "LittleEndian"
  <2>1. /\ Reversed(bytes) \in [1..n -> Byte]
        /\ Len(Reversed(bytes)) = n
        /\ \A i \in 1..n : Reversed(bytes)[i] = bytes[n + 1 - i]
    BY <1>1 DEF Reversed, Width
  <2>2. Reversed(Reversed(bytes)) \in [1..n -> Byte]
    BY <2>1 DEF Reversed, Width
  <2>3. \A i \in 1..n : Reversed(Reversed(bytes))[i] = bytes[i]
    BY <2>1 DEF Reversed, Width
  <2>4. Reversed(Reversed(bytes)) = bytes
    <3> DEFINE again == Reversed(Reversed(bytes))
    <3>1. again \in [1..n -> Byte] /\ (\A i \in 1..n : again[i] = bytes[i])
      BY <2>2, <2>3
    <3> HIDE DEF again
    <3>2. again = bytes
      BY <3>1, SameBytes, Zenon
    <3> QED
      BY <3>2 DEF again
  <2> QED
    BY <1>3, <2>4 DEF Reorder
<1>4. CASE o = "LittleEndianByteSwap"
  <2>1. CASE n \in {4, 8}
    <3> DEFINE place(i) == IF i % 2 = 1 THEN n - i ELSE n - i + 2
    <3>0. \A i \in 1..n : place(i) \in 1..n /\ place(place(i)) = i
      BY <2>1
    <3> HIDE DEF place
    <3>1. /\ WordsReversed(bytes) \in [1..n -> Byte]
          /\ Len(WordsReversed(bytes)) = n
          /\ \A i \in 1..n : WordsReversed(bytes)[i] = bytes[place(i)]
      BY <1>1, <2>1, <3>0 DEF WordsReversed, place
    <3>2. WordsReversed(WordsReversed(bytes)) \in [1..n -> Byte]
      BY <2>1, <3>0, <3>1 DEF WordsReversed, place
    <3>3. \A i \in 1..n : WordsReversed(WordsReversed(bytes))[i] = bytes[i]
      BY <2>1, <3>0, <3>1 DEF WordsReversed, place
    <3>4. WordsReversed(WordsReversed(bytes)) = bytes
      <4> DEFINE again == WordsReversed(WordsReversed(bytes))
      <4>1. again \in [1..n -> Byte] /\ (\A i \in 1..n : again[i] = bytes[i])
        BY <3>2, <3>3
      <4> HIDE DEF again
      <4>2. again = bytes
        BY <4>1, SameBytes, Zenon
      <4> QED
        BY <4>2 DEF again
    <3> QED
      BY <1>1, <1>4, <2>1, <3>1, <3>4 DEF Reorder
  <2>2. CASE n \notin {4, 8}
    BY <1>1, <1>4, <2>2 DEF Reorder
  <2> QED
    BY <2>1, <2>2
<1>5. CASE o = "MidBig"
  <2> DEFINE place(i) == IF i % 2 = 0 THEN i - 1 ELSE IF i < n THEN i + 1 ELSE i
  <2>0. \A i \in 1..n : place(i) \in 1..n /\ place(place(i)) = i
    BY DEF Width
  <2> HIDE DEF place
  <2>1. /\ BytesSwapped(bytes) \in [1..n -> Byte]
        /\ Len(BytesSwapped(bytes)) = n
        /\ \A i \in 1..n : BytesSwapped(bytes)[i] = bytes[place(i)]
    BY <1>1, <2>0 DEF BytesSwapped, Width, place
  <2>2. BytesSwapped(BytesSwapped(bytes)) \in [1..n -> Byte]
    BY <2>0, <2>1 DEF BytesSwapped, Width, place
  <2>3. \A i \in 1..n : BytesSwapped(BytesSwapped(bytes))[i] = bytes[i]
    BY <2>0, <2>1 DEF BytesSwapped, Width, place
  <2>4. BytesSwapped(BytesSwapped(bytes)) = bytes
    <3> DEFINE again == BytesSwapped(BytesSwapped(bytes))
    <3>1. again \in [1..n -> Byte] /\ (\A i \in 1..n : again[i] = bytes[i])
      BY <2>2, <2>3
    <3> HIDE DEF again
    <3>2. again = bytes
      BY <3>1, SameBytes, Zenon
    <3> QED
      BY <3>2 DEF again
  <2> QED
    BY <1>5, <2>4 DEF Reorder
<1> QED
  BY <1>2, <1>3, <1>4, <1>5 DEF ByteOrder

-----------------------------------------------------------------------------
\* A register gives back the two bytes it was made of.
LEMMA HalvesOfWord ==
    ASSUME NEW high \in Byte, NEW low \in Byte
    PROVE  /\ (high * ByteBase + low) \div ByteBase = high
           /\ (high * ByteBase + low) % ByteBase = low
  BY CodecAssumption DEF Byte

\* What a register is made of comes out of it again: the bytes of a value of
\* any width and byte order, packed by bytes_to_registers and put at an offset
\* among other registers, are those extract_bytes_from_registers finds there.
THEOREM BytesComeBack ==
    ASSUME NEW n \in Width, NEW bytes \in [1..n -> Byte], NEW offset \in Nat,
           NEW words,
           \A j \in DOMAIN WordsOf(bytes) : words[offset + j] = WordsOf(bytes)[j]
    PROVE  BytesAt(words, offset, n) = bytes
<1>1. Len(bytes) = n
  BY DEF Width
<1>2. \A i \in 1..n : BytesAt(words, offset, n)[i] = bytes[i]
  <2> SUFFICES ASSUME NEW i \in 1..n
               PROVE  BytesAt(words, offset, n)[i] = bytes[i]
    OBVIOUS
  <2> DEFINE j == (i + 1) \div 2
  <2>1. j \in 1..((n + 1) \div 2)
    BY DEF Width
  <2>2. words[offset + j] = WordsOf(bytes)[j]
    BY <1>1, <2>1 DEF WordsOf
  <2>3. BytesAt(words, offset, n)[i] =
            IF n > 1 /\ i % 2 = 1 THEN WordsOf(bytes)[j] \div ByteBase
                                  ELSE WordsOf(bytes)[j] % ByteBase
    BY <2>2 DEF BytesAt
  <2>4. CASE n = 1
    <3>1. i = 1 /\ j = 1
      BY <2>4
    <3>2. WordsOf(bytes)[j] = bytes[i]
      BY <1>1, <2>4, <3>1 DEF WordsOf
    <3>3. bytes[i] \in Byte
      OBVIOUS
    <3>4. bytes[i] % ByteBase = bytes[i]
      BY <3>3, CodecAssumption DEF Byte
    <3> QED
      BY <2>3, <2>4, <3>2, <3>4
  <2>5. CASE n # 1
    <3>1. n \in {2, 4, 8}
      BY <2>5 DEF Width
    <3>2. 2 * j <= n /\ 2 * j - 1 \in 1..n /\ 2 * j \in 1..n
      BY <3>1
    <3>3. i = IF i % 2 = 1 THEN 2 * j - 1 ELSE 2 * j
      OBVIOUS
    <3>4. WordsOf(bytes)[j] = bytes[2 * j - 1] * ByteBase + bytes[2 * j]
      BY <1>1, <2>1, <3>2 DEF WordsOf
    <3>5. bytes[2 * j - 1] \in Byte /\ bytes[2 * j] \in Byte
      BY <3>2
    <3> HIDE DEF j
    <3>6. /\ WordsOf(bytes)[j] \div ByteBase = bytes[2 * j - 1]
          /\ WordsOf(bytes)[j] % ByteBase = bytes[2 * j]
      BY <3>4, <3>5, HalvesOfWord
    <3> QED
      BY <2>3, <3>1, <3>3, <3>6
  <2> QED
    BY <2>4, <2>5
<1>3. BytesAt(words, offset, n) = [i \in 1..n |-> bytes[i]]
  BY <1>2 DEF BytesAt
<1> QED
  BY <1>3

-----------------------------------------------------------------------------
(* Numbers and their bytes.                                                *)

\* A byte takes at least two values.
LEMMA BaseOK == ByteBase \in Nat /\ ByteBase > 1
BY CodecAssumption

\* The values of one byte more.
LEMMA SpanStep ==
    \A n \in 0..7 : Span(n) \in Nat /\ Span(n) > 0 /\ Span(n + 1) = Span(n) * ByteBase
<1> DEFINE b == ByteBase
<1>1. /\ Span(0) = 1 /\ Span(1) = b /\ Span(2) = b * b /\ Span(3) = b * b * b
      /\ Span(4) = b * b * b * b /\ Span(5) = b * b * b * b * b
      /\ Span(6) = b * b * b * b * b * b /\ Span(7) = b * b * b * b * b * b * b
      /\ Span(8) = b * b * b * b * b * b * b * b
  BY DEF Span
<1>2. \A x \in Nat : x > 0 => x * b \in Nat /\ x * b > 0
  BY BaseOK
<1>3. /\ Span(0) = 1 /\ Span(1) = Span(0) * b /\ Span(2) = Span(1) * b
      /\ Span(3) = Span(2) * b /\ Span(4) = Span(3) * b /\ Span(5) = Span(4) * b
      /\ Span(6) = Span(5) * b /\ Span(7) = Span(6) * b /\ Span(8) = Span(7) * b
  BY <1>1, BaseOK
<1>4. /\ Span(0) \in Nat /\ Span(0) > 0
  BY <1>3
<1>5. \A n \in 0..7 : Span(n + 1) = Span(n) * b
  BY <1>3
<1> HIDE DEF b
<1>6. Span(1) \in Nat /\ Span(1) > 0
  BY <1>2, <1>3, <1>4
<1>7. Span(2) \in Nat /\ Span(2) > 0
  BY <1>2, <1>3, <1>6
<1>8. Span(3) \in Nat /\ Span(3) > 0
  BY <1>2, <1>3, <1>7
<1>9. Span(4) \in Nat /\ Span(4) > 0
  BY <1>2, <1>3, <1>8
<1>10. Span(5) \in Nat /\ Span(5) > 0
  BY <1>2, <1>3, <1>9
<1>11. Span(6) \in Nat /\ Span(6) > 0
  BY <1>2, <1>3, <1>10
<1>12. Span(7) \in Nat /\ Span(7) > 0
  BY <1>2, <1>3, <1>11
<1> QED
  BY <1>4, <1>5, <1>6, <1>7, <1>8, <1>9, <1>10, <1>11, <1>12 DEF b

\* A number is its quotient and its rest.
LEMMA Quotient ==
    ASSUME NEW x \in Nat, NEW d \in Nat, d > 0
    PROVE  /\ x \div d \in Nat /\ x % d \in 0..(d - 1)
           /\ x = (x \div d) * d + (x % d)
OBVIOUS

\* A number has one quotient and one rest.
LEMMA QuotientUnique ==
    ASSUME NEW d \in Nat, d > 0, NEW q \in Nat, NEW r \in 0..(d - 1)
    PROVE  (q * d + r) \div d = q
OBVIOUS

\* Division by a product, one factor after the other.
LEMMA DivideTwice ==
    ASSUME NEW x \in Nat, NEW a \in Nat, a > 0, NEW b \in Nat, b > 0
    PROVE  x \div (a * b) = (x \div a) \div b
<1> DEFINE q == x \div a  r == x % a  p == q \div b  s == q % b
<1>1. q \in Nat /\ r \in 0..(a - 1) /\ x = q * a + r
  BY Quotient
<1>2. p \in Nat /\ s \in 0..(b - 1) /\ q = p * b + s
  BY <1>1, Quotient
<1> HIDE DEF q, r, p, s
<1>3. x = p * (a * b) + (s * a + r)
  BY ONLY <1>1, <1>2, a \in Nat, b \in Nat
<1>4. a * b \in Nat /\ a * b > 0
  OBVIOUS
<1>5. s * a + r \in 0..(a * b - 1)
  <2>1. s * a >= 0 /\ s * a <= (b - 1) * a
    BY <1>2
  <2>2. (b - 1) * a = a * b - a
    OBVIOUS
  <2> QED
    BY <1>1, <1>2, <1>4, <2>1, <2>2
<1>6. x \div (a * b) = p
  <2> DEFINE d == a * b  t == s * a + r
  <2>1. d \in Nat /\ d > 0 /\ t \in 0..(d - 1) /\ x = p * d + t
    BY <1>3, <1>4, <1>5
  <2> HIDE DEF d, t
  <2>2. x \div d = p
    BY <1>2, <2>1, QuotientUnique
  <2> QED
    BY <2>2 DEF d
<1> QED
  BY <1>6 DEF p, q

\* The rest of a number when its last k bytes are taken away.
Upper(x, k) == x \div Span(k)

\* One byte more is taken away.
LEMMA UpperStep ==
    ASSUME NEW x \in Nat, NEW k \in 0..7
    PROVE  /\ Upper(x, k) \in Nat
           /\ Upper(x, k) % ByteBase \in Byte
           /\ Upper(x, k) = Upper(x, k + 1) * ByteBase + (Upper(x, k) % ByteBase)
<1> DEFINE u == Upper(x, k)  b == ByteBase
<1>1. Span(k) \in Nat /\ Span(k) > 0 /\ Span(k + 1) = Span(k) * b
  BY SpanStep
<1>2. b \in Nat /\ b > 0
  BY BaseOK
<1>3. u \in Nat
  BY <1>1, Quotient DEF Upper
<1>4. Upper(x, k + 1) = u \div b
  BY <1>1, <1>2, DivideTwice DEF Upper
<1> HIDE DEF u, b
<1>5. u % b \in 0..(b - 1) /\ u = (u \div b) * b + (u % b)
  BY <1>2, <1>3, Quotient
<1> QED
  BY <1>3, <1>4, <1>5 DEF Byte, u, b

\* All bytes but none taken away, and all taken away.
LEMMA UpperEnds ==
    ASSUME NEW n \in 1..8, NEW x \in 0..(Span(n) - 1)
    PROVE  Upper(x, 0) = x /\ Upper(x, n) = 0
<1>1. x \in Nat /\ Span(n) \in Nat /\ Span(n) > 0 /\ x < Span(n) 
  <2>1. n - 1 \in 0..7 /\ n = (n - 1) + 1
    OBVIOUS
  <2>2. Span(n - 1) \in Nat /\ Span(n - 1) > 0 /\ Span(n) = Span(n - 1) * ByteBase
    BY <2>1, SpanStep
  <2>3. ASSUME NEW p \in Nat, p > 0 PROVE p * ByteBase \in Nat /\ p * ByteBase > 0
    BY <2>3, BaseOK
  <2> QED
    BY <2>2, <2>3
<1>2. Upper(x, 0) = x
  <2>1. Span(0) = 1
    BY DEF Span
  <2>2. x \div 1 = x
    BY <1>1
  <2> QED
    BY <2>1, <2>2 DEF Upper
<1>3. Upper(x, n) = 0
  <2> DEFINE d == Span(n)
  <2>1. d \in Nat /\ d > 0 /\ x \in 0..(d - 1)
    BY <1>1
  <2> HIDE DEF d
  <2>2. (0 * d + x) \div d = 0
    BY <2>1, QuotientUnique
  <2>3. x \div d = 0
    BY <1>1, <2>1, <2>2
  <2> QED
    BY <2>3 DEF d, Upper
<1> QED
  BY <1>2, <1>3

\* Four bytes below what stands above them.
LEMMA FourBelow ==
    ASSUME NEW b \in Nat, NEW q \in Nat, NEW d1 \in Nat, NEW d2 \in Nat,
           NEW d3 \in Nat, NEW d4 \in Nat
    PROVE  (((q * b + d1) * b + d2) * b + d3) * b + d4
               = q * (b * b * b * b) + ((d1 * b + d2) * (b * b) + (d3 * b + d4))
OBVIOUS

\* The bytes of a number are bytes, as many as asked for.
LEMMA DigitsAre ==
    ASSUME NEW n \in 1..8, NEW x \in Nat
    PROVE  /\ Digits(x, n) \in [1..n -> Byte]
           /\ Len(Digits(x, n)) = n
           /\ \A i \in 1..n : Digits(x, n)[i] = Upper(x, n - i) % ByteBase
<1>1. \A i \in 1..n : n - i \in 0..7
  OBVIOUS
<1>2. \A i \in 1..n : Upper(x, n - i) % ByteBase \in Byte
  BY <1>1, UpperStep
<1>3. Digits(x, n) = [i \in 1..n |-> Upper(x, n - i) % ByteBase]
  BY DEF Digits, Upper
<1> QED
  BY <1>2, <1>3

\* What bytes spell, width by width.
LEMMA UnsignedCases ==
    ASSUME NEW bytes
    PROVE  /\ Len(bytes) = 1 => Unsigned(bytes) = bytes[1]
           /\ Len(bytes) = 2 => Unsigned(bytes) = Two(bytes, 1)
           /\ Len(bytes) = 4 => Unsigned(bytes) = Four(bytes, 1)
           /\ Len(bytes) = 8 => Unsigned(bytes) = Four(bytes, 1) * Span(4) + Four(bytes, 5)
<1> DEFINE l == Len(bytes)  p == bytes[1]  q == Two(bytes, 1)  r == Four(bytes, 1)
           s == Four(bytes, 1) * Span(4) + Four(bytes, 5)
<1>1. Unsigned(bytes) = CASE l = 1 -> p [] l = 2 -> q [] l = 4 -> r [] l = 8 -> s
  BY DEF Unsigned
<1> HIDE DEF l, p, q, r, s
<1>2. /\ l = 1 => Unsigned(bytes) = p
      /\ l = 2 => Unsigned(bytes) = q
      /\ l = 4 => Unsigned(bytes) = r
      /\ l = 8 => Unsigned(bytes) = s
  BY <1>1
<1> QED
  BY <1>2 DEF l, p, q, r, s

\* The bytes of a number spell it.
THEOREM DigitsSpell ==
    ASSUME NEW n \in Width, NEW x \in 0..(Span(n) - 1)
    PROVE  Unsigned(Digits(x, n)) = x
<1> DEFINE u(k) == Upper(x, k)  d == Digits(x, n)  b == ByteBase
<1>0. n \in 1..8 /\ x \in Nat
  BY SpanStep DEF Width
<1>1. u(0) = x /\ u(n) = 0
  BY <1>0, UpperEnds
<1>2. \A k \in 0..7 : u(k) \in Nat /\ u(k) % b \in Byte /\ u(k) = u(k + 1) * b + (u(k) % b)
  BY <1>0, UpperStep
<1>3. Len(d) = n /\ \A i \in 1..n : d[i] = u(n - i) % b
  BY <1>0, DigitsAre
<1>4. b \in Nat /\ Byte \subseteq Nat
  BY BaseOK DEF Byte
<1>5. Span(2) = b * b /\ Span(4) = b * b * b * b
  BY DEF Span
<1>10. \A i \in 1..n : d[i] \in Nat
  <2>1. ASSUME NEW i \in 1..n PROVE d[i] \in Nat
    <3>1. n - i \in 0..7
      BY <1>0
    <3> HIDE DEF u, d, b
    <3>2. u(n - i) % b \in Nat
      BY <1>2, <1>4, <3>1
    <3> QED
      BY <1>3, <3>2
  <2> QED
    BY <2>1
<1> HIDE DEF u, d, b
<1>6. CASE n = 1
  <2>1. d[1] = u(0) % b
    BY <1>3, <1>6
  <2>2. u(0) = 0 * b + (u(0) % b)
    BY <1>1, <1>2, <1>6
  <2>3. d[1] = x
    <3>1. d[1] \in Nat /\ u(0) = 0 * b + d[1]
      BY <1>6, <1>10, <2>1, <2>2
    <3> QED
      BY <1>1, <1>4, <3>1
  <2> QED
    BY <1>3, <1>6, <2>3, UnsignedCases DEF d
<1>7. CASE n = 2
  <2>1. d[1] = u(1) % b /\ d[2] = u(0) % b
    BY <1>3, <1>7
  <2>2. u(1) = 0 * b + (u(1) % b) /\ u(0) = u(1) * b + (u(0) % b)
    BY <1>1, <1>2, <1>7
  <2>3. x = d[1] * b + d[2]
    <3>1. d[1] \in Nat /\ d[2] \in Nat /\ u(1) = 0 * b + d[1] /\ u(0) = u(1) * b + d[2]
      BY <1>7, <1>10, <2>1, <2>2
    <3>2. u(1) = d[1]
      BY <1>4, <3>1
    <3> QED
      BY <1>1, <3>1, <3>2
  <2> QED
    BY <1>3, <1>7, <2>3, UnsignedCases DEF Two, d, b
<1>8. CASE n = 4
  <2>1. d[1] = u(3) % b /\ d[2] = u(2) % b /\ d[3] = u(1) % b /\ d[4] = u(0) % b
    BY <1>3, <1>8
  <2>2. /\ u(3) = 0 * b + d[1] /\ u(2) = u(3) * b + d[2]
        /\ u(1) = u(2) * b + d[3] /\ u(0) = u(1) * b + d[4]
    BY <1>1, <1>2, <1>8, <2>1
  <2>3. d[1] \in Nat /\ d[2] \in Nat /\ d[3] \in Nat /\ d[4] \in Nat
    BY <1>8, <1>10
  <2>4. u(0) = (((0 * b + d[1]) * b + d[2]) * b + d[3]) * b + d[4]
    BY <2>2
  <2>5. u(0) = 0 * (b * b * b * b) + ((d[1] * b + d[2]) * (b * b) + (d[3] * b + d[4]))
    BY <1>4, <2>3, <2>4, FourBelow
  <2>6. x = (d[1] * b + d[2]) * (b * b) + (d[3] * b + d[4])
    BY <1>1, <1>4, <2>3, <2>5
  <2> QED
    BY <1>3, <1>5, <1>8, <2>6, UnsignedCases DEF Four, Two, d, b
<1>9. CASE n = 8
  <2>1. /\ d[1] = u(7) % b /\ d[2] = u(6) % b /\ d[3] = u(5) % b /\ d[4] = u(4) % b
        /\ d[5] = u(3) % b /\ d[6] = u(2) % b /\ d[7] = u(1) % b /\ d[8] = u(0) % b
    BY <1>3, <1>9
  <2>2. /\ u(7) = 0 * b + d[1] /\ u(6) = u(7) * b + d[2]
        /\ u(5) = u(6) * b + d[3] /\ u(4) = u(5) * b + d[4]
        /\ u(3) = u(4) * b + d[5] /\ u(2) = u(3) * b + d[6]
        /\ u(1) = u(2) * b + d[7] /\ u(0) = u(1) * b + d[8]
    BY <1>1, <1>2, <1>9, <2>1
  <2>3. /\ d[1] \in Nat /\ d[2] \in Nat /\ d[3] \in Nat /\ d[4] \in Nat
        /\ d[5] \in Nat /\ d[6] \in Nat /\ d[7] \in Nat /\ d[8] \in Nat
    BY <1>9, <1>10
  <2>4. u(4) = 0 * (b * b * b * b) + ((d[1] * b + d[2]) * (b * b) + (d[3] * b + d[4]))
    <3>1. u(4) = (((0 * b + d[1]) * b + d[2]) * b + d[3]) * b + d[4]
      BY <2>2
    <3> QED
      BY <1>4, <2>3, <3>1, FourBelow
  <2>5. u(0) = u(4) * (b * b * b * b) + ((d[5] * b + d[6]) * (b * b) + (d[7] * b + d[8]))
    <3>1. u(0) = (((u(4) * b + d[5]) * b + d[6]) * b + d[7]) * b + d[8]
      BY <2>2
    <3> QED
      BY <1>2, <1>4, <2>3, <3>1, FourBelow
  <2>6. u(4) = (d[1] * b + d[2]) * (b * b) + (d[3] * b + d[4])
    BY <1>4, <2>3, <2>4
  <2>7. x = ((d[1] * b + d[2]) * (b * b) + (d[3] * b + d[4])) * (b * b * b * b)
              + ((d[5] * b + d[6]) * (b * b) + (d[7] * b + d[8]))
    BY <1>1, <2>5, <2>6
  <2> QED
    BY <1>3, <1>5, <1>9, <2>7, UnsignedCases DEF Four, Two, d, b
<1> QED
  BY <1>6, <1>7, <1>8, <1>9 DEF Width

\* A byte order only rearranges the bytes.
LEMMA ReorderBytes ==
    ASSUME NEW n \in Width, NEW bytes \in [1..n -> Byte], NEW o \in ByteOrder
    PROVE  Reorder(bytes, o) \in [1..n -> Byte]
<1>1. Len(bytes) = n /\ DOMAIN bytes = 1..n
  BY DEF Width
<1>2. Reversed(bytes) \in [1..n -> Byte]
  BY <1>1 DEF Reversed, Width
<1>3. n \in {4, 8} => WordsReversed(bytes) \in [1..n -> Byte]
  <2>1. n \in {4, 8} =>
          \A i \in 1..n : (IF i % 2 = 1 THEN n - i ELSE n - i + 2) \in 1..n
    OBVIOUS
  <2> QED
    BY <1>1, <2>1 DEF WordsReversed
<1>4. BytesSwapped(bytes) \in [1..n -> Byte]
  <2>1. \A i \in 1..n :
          (IF i % 2 = 0 THEN i - 1 ELSE IF i < n THEN i + 1 ELSE i) \in 1..n
    BY DEF Width
  <2> QED
    BY <1>1, <2>1 DEF BytesSwapped
<1>5. Len(bytes) \in {4, 8} => WordsReversed(bytes) \in [1..n -> Byte]
  BY <1>1, <1>3
<1> HIDE DEF Byte, Width
<1> QED
  BY <1>2, <1>4, <1>5, Zenon DEF Reorder, ByteOrder

\* A single byte has one order.
LEMMA ReorderOne ==
    ASSUME NEW bytes \in [1..1 -> Byte], NEW o \in ByteOrder
    PROVE  Reorder(bytes, o) = bytes
<1>1. Len(bytes) = 1 /\ DOMAIN bytes = 1..1
  OBVIOUS
<1>2. Reversed(bytes) \in [1..1 -> Byte] /\ Reversed(bytes)[1] = bytes[1]
  BY <1>1 DEF Reversed
<1>3. BytesSwapped(bytes) \in [1..1 -> Byte] /\ BytesSwapped(bytes)[1] = bytes[1]
  BY <1>1 DEF BytesSwapped
<1>4. \A f, g \in [1..1 -> Byte] : f[1] = g[1] => f = g
  <2> SUFFICES ASSUME NEW f \in [1..1 -> Byte], NEW g \in [1..1 -> Byte], f[1] = g[1]
               PROVE  f = g
    OBVIOUS
  <2>1. \A i \in 1..1 : f[i] = g[i]
    OBVIOUS
  <2> QED
    BY <2>1, SameBytes
<1>5. Reversed(bytes) = bytes /\ BytesSwapped(bytes) = bytes
  BY <1>2, <1>3, <1>4
<1>6. Len(bytes) \notin {4, 8}
  BY <1>1
<1> QED
  BY <1>5, <1>6, Zenon DEF Reorder, ByteOrder

\* The number of values of a type that is no truth value is even.
LEMMA SpanEven ==
    ASSUME NEW n \in {2, 4, 8}
    PROVE  /\ Span(n) \in Nat /\ Span(n) > 0
           /\ Span(n) \div 2 \in Nat /\ Span(n) = 2 * (Span(n) \div 2)
<1>1. n - 1 \in 0..7 /\ n = (n - 1) + 1
  OBVIOUS
<1>2. Span(n - 1) \in Nat /\ Span(n - 1) > 0 /\ Span(n) = Span(n - 1) * ByteBase
  BY <1>1, SpanStep
<1>3. PICK h \in Nat : ByteBase = 2 * h /\ h > 0
  <2>1. ByteBase \div 2 \in Nat /\ ByteBase = 2 * (ByteBase \div 2) /\ ByteBase \div 2 > 0
    BY CodecAssumption
  <2> QED
    BY <2>1
<1>4. ASSUME NEW p \in Nat, p > 0
      PROVE  p * h \in Nat /\ p * h > 0 /\ p * (2 * h) = 2 * (p * h)
  BY <1>3, <1>4
<1>5. PICK m \in Nat : m > 0 /\ Span(n) = 2 * m
  BY <1>2, <1>3, <1>4
<1> QED
  BY <1>5

\* Limiting a number to a type with two's complement loses nothing more: the
\* number can be told from the pattern it leaves in n bytes.
LEMMA PatternTellsNumber ==
    ASSUME NEW s \in Nat, s > 0, NEW h \in Nat, s = 2 * h,
           NEW v \in Int, -h <= v, v <= h - 1
    PROVE  /\ v % s \in 0..(s - 1)
           /\ v >= 0 => v % s = v /\ ~(v % s > h - 1)
           /\ v < 0 => v % s = v + s /\ v % s > h - 1
OBVIOUS

\* How wide the types are.
LEMMA Widths ==
    /\ \A type \in DataType : ByteCount(type) \in Width
    /\ \A type \in DataType : type # "Bool" => ByteCount(type) \in {2, 4, 8}
    /\ ByteCount("Bool") = 1
    /\ \A type \in DataType : (ByteCount(type) + 1) \div 2 = RequiredRegisters(type)
    /\ \A type \in DataType : RequiredRegisters(type) \in 1..4
BY DEF DataType, ByteCount, Width, RequiredRegisters

\* A number limited to a type is one of the numbers between its bounds.
LEMMA LimitedToType ==
    ASSUME NEW type \in DataType, type # "Bool", NEW v \in Int
    PROVE  LET s == Span(ByteCount(type))  h == s \div 2  w == Saturated(v, type)
           IN  /\ w \in Int
               /\ Signed(type) => -h <= w /\ w <= h - 1 /\ Largest(type) = h - 1
               /\ ~Signed(type) => 0 <= w /\ w <= s - 1
<1> DEFINE s == Span(ByteCount(type))  h == s \div 2  w == Saturated(v, type)
           low == Smallest(type)  high == Largest(type)
<1>1. s \in Nat /\ s > 0 /\ h \in Nat /\ s = 2 * h
  BY Widths, SpanEven
<1>2. Signed(type) => low = -h /\ high = h - 1
  BY DEF Smallest, Largest
<1>3. ~Signed(type) => low = 0 /\ high = s - 1
  BY DEF Smallest, Largest
<1>4. w = IF v < low THEN low ELSE IF v > high THEN high ELSE v
  BY DEF Saturated
<1> HIDE DEF s, h, w, low, high
<1>5. low \in Int /\ high \in Int /\ low <= high
  BY <1>1, <1>2, <1>3
<1>6. w \in Int /\ low <= w /\ w <= high
  BY <1>4, <1>5
<1>7. /\ w \in Int
      /\ Signed(type) => -h <= w /\ w <= h - 1 /\ high = h - 1
      /\ ~Signed(type) => 0 <= w /\ w <= s - 1
  BY <1>2, <1>3, <1>6
<1> QED
  BY <1>7 DEF s, h, w, high

\* The pattern of a number in the bytes of its type.
Pattern(v, type) == Saturated(v, type) % Span(ByteCount(type))

\* The pattern of a number fits the bytes of its type.
LEMMA PatternFits ==
    ASSUME NEW type \in DataType, type # "Bool", NEW v \in Int
    PROVE  Pattern(v, type) \in 0..(Span(ByteCount(type)) - 1)
<1> DEFINE s == Span(ByteCount(type))  w == Saturated(v, type)
<1>1. s \in Nat /\ s > 0
  BY Widths, SpanEven
<1>2. w \in Int
  BY LimitedToType
<1> HIDE DEF s, w
<1>3. w % s \in 0..(s - 1)
  BY <1>1, <1>2
<1> QED
  BY <1>3 DEF Pattern, s, w

\* The bytes of a value before they are rearranged.
Canonical(v, type) ==
    IF type = "Bool" THEN <<IF v # 0 THEN 1 ELSE 0>>
                     ELSE Digits(Pattern(v, type), ByteCount(type))

\* to_bytes makes as many bytes as the type has.
LEMMA ToBytesAre ==
    ASSUME NEW type \in DataType, NEW o \in ByteOrder, NEW v \in Int
    PROVE  /\ Canonical(v, type) \in [1..ByteCount(type) -> Byte]
           /\ ToBytes(v, type, o) = Reorder(Canonical(v, type), o)
           /\ ToBytes(v, type, o) \in [1..ByteCount(type) -> Byte]
<1>1. ToBytes(v, type, o) = Reorder(Canonical(v, type), o)
  BY DEF ToBytes, Canonical, Pattern
<1>2. Canonical(v, type) \in [1..ByteCount(type) -> Byte]
  <2>1. CASE type = "Bool"
    <3>1. (IF v # 0 THEN 1 ELSE 0) \in Byte
      BY BaseOK DEF Byte
    <3>2. \A x \in Byte : <<x>> \in [1..1 -> Byte]
      OBVIOUS
    <3> QED
      BY <2>1, <3>1, <3>2, Widths DEF Canonical
  <2>2. CASE type # "Bool"
    <3>1. ByteCount(type) \in 1..8
      BY Widths DEF Width
    <3>2. Pattern(v, type) \in Nat
      BY <2>2, PatternFits
    <3> QED
      BY <2>2, <3>1, <3>2, DigitsAre DEF Canonical
  <2> QED
    BY <2>1, <2>2
<1>3. Reorder(Canonical(v, type), o) \in [1..ByteCount(type) -> Byte]
  BY <1>2, Widths, ReorderBytes
<1> QED
  BY <1>1, <1>2, <1>3

\* A value of any type and byte order that is stored and loaded again comes
\* back as it was, limited to the range of its type: from_bytes undoes to_bytes.
THEOREM ValueComesBack ==
    ASSUME NEW type \in DataType, NEW o \in ByteOrder, NEW v \in Int
    PROVE  FromBytes(ToBytes(v, type, o), type, o) = Held(v, type)
<1> DEFINE bytes == ToBytes(v, type, o)  canonical == Canonical(v, type)
           n == ByteCount(type)
<1>1. canonical \in [1..n -> Byte] /\ bytes = Reorder(canonical, o)
  BY ToBytesAre
<1>2. n \in Width
  BY Widths
<1>3. Reorder(bytes, o) = canonical
  <2> HIDE DEF canonical, n, bytes
  <2> QED
    BY <1>1, <1>2, ReorderTwice
<1>4. CASE type = "Bool"
  <2>1. canonical[1] = IF v # 0 THEN 1 ELSE 0
    BY <1>4 DEF Canonical
  <2>2. ~Signed(type)
    BY <1>4 DEF Signed
  <2> HIDE DEF bytes, canonical
  <2>3. FromBytes(bytes, type, o) = IF canonical[1] # 0 THEN 1 ELSE 0
    BY <1>3, <1>4, <2>2 DEF FromBytes
  <2> QED
    BY <1>4, <2>1, <2>3 DEF Held, bytes
<1>5. CASE type # "Bool"
  <2> DEFINE s == Span(n)  h == s \div 2  w == Saturated(v, type)  p == Pattern(v, type)
             high == Largest(type)
  <2>1. p \in 0..(s - 1) /\ p = w % s
    BY <1>5, PatternFits DEF Pattern
  <2>2. Unsigned(canonical) = p
    <3>1. canonical = Digits(p, n)
      BY <1>5 DEF Canonical
    <3>3. p \in 0..(Span(n) - 1)
      BY <2>1
    <3> HIDE DEF canonical, n, p
    <3>2. Unsigned(Digits(p, n)) = p
      BY <1>2, <3>3, DigitsSpell
    <3> QED
      BY <3>1, <3>2
  <2>3. s \in Nat /\ s > 0 /\ h \in Nat /\ s = 2 * h
    BY <1>5, Widths, SpanEven
  <2>4. /\ w \in Int
        /\ Signed(type) => -h <= w /\ w <= h - 1 /\ high = h - 1
        /\ ~Signed(type) => 0 <= w /\ w <= s - 1
    BY <1>5, LimitedToType
  <2>5. FromBytes(bytes, type, o) = IF Signed(type) /\ p > high THEN p - s ELSE p
    <3> DEFINE from == FromBytes(bytes, type, o)  pattern == Unsigned(Reorder(bytes, o))
    <3>1. from = CASE type = "Bool" -> IF Reorder(bytes, o)[1] # 0 THEN 1 ELSE 0
                   [] Signed(type) /\ pattern > high -> pattern - s
                   [] OTHER -> pattern
      BY DEF FromBytes
    <3>2. pattern = p
      BY <1>3, <2>2
    <3> HIDE DEF from, pattern, s, high, p, bytes
    <3> QED
      BY <1>5, <3>1, <3>2 DEF from
  <2>6. Held(v, type) = w
    BY <1>5 DEF Held
  <2> HIDE DEF s, h, w, p, high, n, bytes
  <2>7. (IF Signed(type) /\ p > high THEN p - s ELSE p) = w
    <3>1. CASE Signed(type) /\ w >= 0
      <4>1. p = w /\ ~(p > h - 1)
        BY <2>1, <2>3, <2>4, <3>1, PatternTellsNumber
      <4> QED
        BY <2>4, <3>1, <4>1
    <3>2. CASE Signed(type) /\ w < 0
      <4>1. p = w + s /\ p > h - 1
        BY <2>1, <2>3, <2>4, <3>2, PatternTellsNumber
      <4>2. p - s = w
        BY <2>3, <2>4, <4>1
      <4> QED
        BY <2>4, <3>2, <4>1, <4>2
    <3>3. CASE ~Signed(type)
      <4>1. w % s = w
        BY <2>3, <2>4, <3>3
      <4> QED
        BY <2>1, <3>3, <4>1
    <3> QED
      BY <2>4, <3>1, <3>2, <3>3
  <2> QED
    BY <2>5, <2>6, <2>7 DEF bytes
<1> QED
  BY <1>4, <1>5

-----------------------------------------------------------------------------
(* The layout of a group.                                                  *)

\* The greatest of the positions in a sequence.
LEMMA GreatestPosition ==
    ASSUME NEW n \in Nat, NEW S \in SUBSET (1..n), S # {}
    PROVE  Max(S) \in S
<1> DEFINE less == OpToRel(<, Nat)  T == {m \in Nat : \E x \in S : m = n - x}
<1>1. \E m \in T : \A k \in T : ~(<<k, m>> \in less)
  <2>1. T \subseteq Nat
    OBVIOUS
  <2>2. T # {}
    <3>1. PICK x \in S : TRUE
      OBVIOUS
    <3>2. n - x \in Nat
      BY <3>1
    <3>3. n - x \in T
      BY <3>1, <3>2
    <3> QED
      BY <3>3
  <2>3. IsWellFoundedOn(less, Nat)
    BY NatLessThanWellFounded
  <2> HIDE DEF less, T
  <2> QED
    BY <2>1, <2>2, <2>3, WFMin
<1>2. PICK m \in T : \A k \in T : ~(k < m)
  <2>1. \A k, m \in Nat : k < m => <<k, m>> \in less
    BY DEF OpToRel
  <2>2. T \subseteq Nat
    OBVIOUS
  <2> HIDE DEF less, T
  <2> QED
    BY <1>1, <2>1, <2>2
<1>3. PICK x \in S : m = n - x
  BY <1>2
<1>4. \A y \in S : x >= y
  <2> SUFFICES ASSUME NEW y \in S PROVE x >= y
    OBVIOUS
  <2>1. x \in 1..n /\ y \in 1..n
    OBVIOUS
  <2>2. n - y \in T
    BY <2>1
  <2>3. ~(n - y < n - x)
    BY <1>2, <1>3, <2>2
  <2> QED
    BY <2>1, <2>3
<1>5. \E z \in S : \A y \in S : z >= y
  BY <1>4
<1> QED
  BY <1>5, Zenon DEF Max

\* Registers are words.
LEMMA WordsAre ==
    ASSUME NEW n \in Width, NEW bytes \in [1..n -> Byte]
    PROVE  WordsOf(bytes) \in [1..((n + 1) \div 2) -> Word]
<1>1. Len(bytes) = n
  BY DEF Width
<1>2. \A high, low \in Byte : high * ByteBase + low \in Word /\ low \in Word
  <2> SUFFICES ASSUME NEW high \in Byte, NEW low \in Byte
               PROVE  high * ByteBase + low \in Word /\ low \in Word
    OBVIOUS
  <2> DEFINE b == ByteBase
  <2>1. b \in Nat /\ b > 1 /\ high \in 0..(b - 1) /\ low \in 0..(b - 1)
    BY BaseOK DEF Byte
  <2> HIDE DEF b
  <2>2. high * b >= 0 /\ high * b <= (b - 1) * b
    BY <2>1
  <2>3. (b - 1) * b = b * b - b /\ b * b >= b
    BY <2>1
  <2>4. b * b \in Int /\ high * b \in Int
    BY <2>1
  <2>5. high * b + low \in 0..(b * b - 1) /\ low \in 0..(b * b - 1)
    BY <2>1, <2>2, <2>3, <2>4
  <2> QED
    BY <2>5 DEF b, Word
<1>3. ASSUME NEW j \in 1..((n + 1) \div 2)
      PROVE  (IF 2 * j <= n THEN bytes[2 * j - 1] * ByteBase + bytes[2 * j]
                            ELSE bytes[2 * j - 1]) \in Word
  <2>1. n \in Nat /\ 2 * j - 1 \in 1..n /\ (2 * j <= n => 2 * j \in 1..n)
    BY DEF Width
  <2> QED
    BY <1>2, <2>1
<1> QED
  BY <1>1, <1>3 DEF WordsOf

-----------------------------------------------------------------------------
\* The fields that decide what is written to register j, and what that is.
Given(data, fields, j) ==
    {k \in DOMAIN fields : fields[k].name \in DOMAIN data /\ Covers(fields[k], j)}

WordOf(data, field, o, j) ==
    WordsOf(ToBytes(data[field.name], field.type, o))[j - field.offset]

\* encode_fields_to_registers, register by register.
LEMMA EncodeIs ==
    ASSUME NEW data, NEW fields, NEW count, NEW o
    PROVE  Encode(data, fields, count, o) =
                [j \in 1..count |->
                    IF Given(data, fields, j) = {} THEN 0
                    ELSE WordOf(data, fields[Max(Given(data, fields, j))], o, j)]
BY DEF Encode, Given, WordOf

\* A request for a group that can be written to it as a whole.
Whole(group, data) ==
    /\ Writable(group, data)
    /\ Complete(data, group.fields)
    /\ \A name \in DOMAIN data : data[name] \in Int

\* The fields of a valid group are typed and lie within it.
LEMMA FieldsOfGroup ==
    ASSUME NEW group, ValidGroup(group)
    PROVE  /\ group.count \in Nat /\ group.address \in Nat /\ group.kind \in Kind
           /\ \E n \in Nat : DOMAIN group.fields = 1..n
           /\ \A k \in DOMAIN group.fields :
                 /\ group.fields[k].type \in DataType
                 /\ group.fields[k].offset \in Nat
                 /\ EndOffset(group.fields[k]) \in Nat
                 /\ EndOffset(group.fields[k]) =
                        group.fields[k].offset + RequiredRegisters(group.fields[k].type)
                 /\ RequiredRegisters(group.fields[k].type) \in 1..4
                 /\ EndOffset(group.fields[k]) <= group.count
<1> DEFINE Fields == [name : STRING, type : DataType, offset : Nat]
<1>1. group.fields \in Seq(Fields)
  BY DEF ValidGroup
<1> DEFINE fs == group.fields
<1> HIDE DEF Fields, fs
<1>2. fs \in Seq(Fields)
  BY <1>1 DEF fs
<1>3. \E n \in Nat : DOMAIN fs = 1..n
  BY <1>2
<1>4. \A k \in DOMAIN fs : fs[k] \in Fields
  BY <1>2
<1>5. ASSUME NEW k \in DOMAIN fs
      PROVE  /\ fs[k].type \in DataType
             /\ fs[k].offset \in Nat
             /\ EndOffset(fs[k]) = fs[k].offset + RequiredRegisters(fs[k].type)
             /\ RequiredRegisters(fs[k].type) \in 1..4
             /\ EndOffset(fs[k]) \in Nat
  <2>1. fs[k].type \in DataType /\ fs[k].offset \in Nat
    BY <1>4 DEF Fields
  <2>2. RequiredRegisters(fs[k].type) \in 1..4
    BY <2>1, Widths
  <2>3. EndOffset(fs[k]) = fs[k].offset + RequiredRegisters(fs[k].type)
    BY DEF EndOffset
  <2> QED
    BY <2>1, <2>2, <2>3
<1> QED
  BY <1>3, <1>5 DEF ValidGroup, fs

\* The word a field leaves in one of its registers.
LEMMA WordOfField ==
    ASSUME NEW group, ValidGroup(group), NEW data, Whole(group, data), NEW o \in ByteOrder,
           NEW k \in DOMAIN group.fields, NEW j \in Nat, Covers(group.fields[k], j)
    PROVE  /\ data[group.fields[k].name] \in Int
           /\ WordOf(data, group.fields[k], o, j) \in Word
<1> DEFINE field == group.fields[k]  v == data[field.name]  n == ByteCount(field.type)
           bytes == ToBytes(v, field.type, o)  r == RequiredRegisters(field.type)
<1>1. v \in Int
  BY DEF Whole, Complete, Names
<1>2. field.type \in DataType /\ field.offset \in Nat /\ r \in 1..4
  BY FieldsOfGroup
<1>3. bytes \in [1..n -> Byte] /\ n \in Width /\ (n + 1) \div 2 = r
  BY <1>1, <1>2, ToBytesAre, Widths
<1>4. j - field.offset \in 1..r
  BY <1>2 DEF Covers, EndOffset
<1> HIDE DEF field, v, n, bytes, r
<1>5. WordsOf(bytes) \in [1..r -> Word]
  BY <1>3, WordsAre
<1>6. WordsOf(bytes)[j - field.offset] \in Word
  BY <1>4, <1>5
<1> QED
  BY <1>1, <1>6 DEF WordOf, bytes, field, v

\* Whatever the request, every register of a group is written with a word.
LEMMA EncodeWords ==
    ASSUME NEW group, ValidGroup(group), NEW data, Whole(group, data), NEW o \in ByteOrder
    PROVE  Encode(data, group.fields, group.count, o) \in [1..group.count -> Word]
<1>1. ASSUME NEW j \in 1..group.count
      PROVE  (IF Given(data, group.fields, j) = {} THEN 0
              ELSE WordOf(data, group.fields[Max(Given(data, group.fields, j))], o, j)) \in Word
  <2> DEFINE given == Given(data, group.fields, j)
  <2>1. CASE given = {}
    <3>1. ByteBase * ByteBase - 1 >= 0 /\ ByteBase * ByteBase \in Nat
      BY BaseOK
    <3>2. 0 \in Word
      BY <3>1 DEF Word
    <3> QED
      BY <2>1, <3>2
  <2>2. CASE given # {}
    <3>1. PICK n \in Nat : DOMAIN group.fields = 1..n
      BY FieldsOfGroup
    <3>2. given \in SUBSET (1..n)
      BY <3>1 DEF Given
    <3>3. Max(given) \in given
      BY <2>2, <3>2, GreatestPosition
    <3>4. /\ Max(given) \in DOMAIN group.fields
          /\ Covers(group.fields[Max(given)], j)
      BY <3>3 DEF Given
    <3>5. j \in Nat
      BY FieldsOfGroup
    <3> QED
      BY <2>2, <3>4, <3>5, WordOfField
  <2> QED
    BY <2>1, <2>2
<1> QED
  BY <1>1, EncodeIs

\* Where fields do not overlap, every register of a field holds its own word.
LEMMA EncodedField ==
    ASSUME NEW group, ValidGroup(group), NEW data, Whole(group, data), NEW o \in ByteOrder,
           Disjoint(group.fields), NEW k \in DOMAIN group.fields,
           NEW j \in Nat, Covers(group.fields[k], j)
    PROVE  /\ j \in 1..group.count
           /\ Encode(data, group.fields, group.count, o)[j] = WordOf(data, group.fields[k], o, j)
<1> DEFINE fs == group.fields  given == Given(data, fs, j)
<1>1. \A l \in DOMAIN fs : /\ fs[l].offset \in Nat /\ EndOffset(fs[l]) \in Nat
                           /\ EndOffset(fs[l]) <= group.count
  BY FieldsOfGroup
<1>2. group.count \in Nat
  BY FieldsOfGroup
<1>3. j \in 1..group.count
  BY <1>1, <1>2 DEF Covers
<1>4. fs[k].name \in DOMAIN data
  BY DEF Whole, Complete, Names
<1>5. k \in given
  BY <1>4 DEF Given
<1>6. \A l \in given : l = k
  <2> SUFFICES ASSUME NEW l \in given, l # k PROVE FALSE
    OBVIOUS
  <2>1. l \in DOMAIN fs /\ fs[l].offset < j /\ j <= EndOffset(fs[l])
    BY DEF Given, Covers
  <2>2. k \in DOMAIN fs /\ fs[k].offset < j /\ j <= EndOffset(fs[k])
    BY DEF Covers
  <2>3. EndOffset(fs[l]) <= fs[k].offset \/ EndOffset(fs[k]) <= fs[l].offset
    BY <2>1 DEF Disjoint
  <2> HIDE DEF fs
  <2> QED
    BY <1>1, <2>1, <2>2, <2>3
<1>7. given = {k}
  BY <1>5, <1>6
<1>8. Max(given) = k
  <2>1. k \in Int
    <3>1. PICK n \in Nat : DOMAIN fs = 1..n
      BY FieldsOfGroup
    <3> QED
      BY <3>1
  <2>2. Max({k}) = k
    BY <2>1 DEF Max
  <2> QED
    BY <1>7, <2>2
<1> QED
  BY <1>3, <1>5, <1>8, EncodeIs

\* A truth value leaves one word, one or zero.
LEMMA WordOfBool ==
    ASSUME NEW v \in Int, NEW o \in ByteOrder
    PROVE  WordsOf(ToBytes(v, "Bool", o))[1] \in Bit
<1> DEFINE bytes == ToBytes(v, "Bool", o)
<1>1. "Bool" \in DataType
  BY DEF DataType
<1>2. /\ Canonical(v, "Bool") \in [1..1 -> Byte]
      /\ bytes = Reorder(Canonical(v, "Bool"), o)
  BY <1>1, ToBytesAre, Widths
<1>3. bytes = Canonical(v, "Bool")
  BY <1>2, ReorderOne
<1>4. bytes = <<IF v # 0 THEN 1 ELSE 0>>
  BY <1>3 DEF Canonical
<1>5. \A x \in Bit : WordsOf(<<x>>)[1] = x
  BY DEF WordsOf, Bit
<1>6. (IF v # 0 THEN 1 ELSE 0) \in Bit
  BY DEF Bit
<1> HIDE DEF bytes
<1>7. WordsOf(bytes)[1] \in Bit
  BY <1>4, <1>5, <1>6
<1> QED
  BY <1>7 DEF bytes

\* The cells of a write are as many as the group has, each one its kind can hold.
LEMMA CellsAre ==
    ASSUME NEW group, ValidGroup(group), NEW data, Whole(group, data), NEW o \in ByteOrder
    PROVE  Cells(group, data, o) \in [1..group.count -> Cell(group.kind)]
<1> DEFINE words == Encode(data, group.fields, group.count, o)  n == group.count
<1>1. words \in [1..n -> Word]
  BY EncodeWords
<1> HIDE DEF words, n
<1>2. DOMAIN words = 1..n
  BY <1>1
<1>3. CASE group.kind = "Coil"
  <2>1. Cells(group, data, o) = [j \in 1..n |-> IF words[j] # 0 THEN 1 ELSE 0]
    BY <1>2, <1>3 DEF Cells, words
  <2>2. \A j \in 1..n : (IF words[j] # 0 THEN 1 ELSE 0) \in Bit
    BY DEF Bit
  <2>3. Cell(group.kind) = Bit
    BY <1>3 DEF Cell
  <2>4. Cells(group, data, o) \in [1..n -> Bit]
    BY <2>1, <2>2
  <2> QED
    BY <2>3, <2>4 DEF n
<1>4. CASE group.kind # "Coil"
  <2>1. group.kind = "Holding"
    BY <1>4 DEF Whole, Writable, WritableKind
  <2>2. Cells(group, data, o) = words /\ Cell(group.kind) = Word
    BY <1>4, <2>1 DEF Cells, Cell, words
  <2> QED
    BY <1>1, <2>2 DEF n
<1> QED
  BY <1>3, <1>4

\* In a faithful group every field has the cells its value was turned into.
LEMMA CellOfField ==
    ASSUME NEW group, ValidGroup(group), Faithful(group), NEW data, Whole(group, data),
           NEW o \in ByteOrder, NEW k \in DOMAIN group.fields,
           NEW i \in 1..RequiredRegisters(group.fields[k].type)
    PROVE  LET field == group.fields[k]
           IN  /\ field.offset + i \in 1..group.count
               /\ Cells(group, data, o)[field.offset + i]
                      = WordsOf(ToBytes(data[field.name], field.type, o))[i]
<1> DEFINE field == group.fields[k]  r == RequiredRegisters(field.type)
           words == Encode(data, group.fields, group.count, o)  j == field.offset + i
           w == WordsOf(ToBytes(data[field.name], field.type, o))
<1>1. /\ field.offset \in Nat /\ r \in 1..4 /\ EndOffset(field) = field.offset + r
      /\ field.type \in DataType
  BY FieldsOfGroup
<1>2. j \in Nat /\ Covers(field, j) /\ j - field.offset = i
  BY <1>1 DEF Covers
<1>3. Disjoint(group.fields)
  BY DEF Faithful
<1>4. j \in 1..group.count /\ words[j] = WordOf(data, field, o, j)
  <2>1. k \in DOMAIN group.fields /\ Covers(group.fields[k], j) /\ j \in Nat
    BY <1>2
  <2> HIDE DEF j
  <2> QED
    BY <1>3, <2>1, EncodedField
<1>5. words[j] = w[i]
  <2> HIDE DEF j, words
  <2> QED
    BY <1>2, <1>4 DEF WordOf
<1>6. DOMAIN words = 1..group.count
  BY EncodeIs
<1>7. Cells(group, data, o)[j] = w[i]
  <2>1. CASE group.kind = "Coil"
    <3>1. field.type = "Bool"
      BY <2>1 DEF Faithful
    <3>2. i = 1
      BY <3>1 DEF RequiredRegisters
    <3>3. data[field.name] \in Int
      BY DEF Whole, Complete, Names
    <3>4. w[i] \in Bit
      <4> HIDE DEF field
      <4> QED
        BY <3>1, <3>2, <3>3, WordOfBool
    <3> HIDE DEF j, words, w
    <3>5. Cells(group, data, o)[j] = IF words[j] # 0 THEN 1 ELSE 0
      BY <1>4, <1>6, <2>1 DEF Cells, words
    <3> QED
      BY <1>5, <3>4, <3>5 DEF Bit
  <2>2. CASE group.kind # "Coil"
    <3>1. Cells(group, data, o) = words
      BY <2>2 DEF Cells
    <3> QED
      BY <1>5, <3>1
  <2> QED
    BY <2>1, <2>2
<1> QED
  BY <1>4, <1>7

\* A request names the fields of its group, no fewer and no others.
LEMMA WholeNames ==
    ASSUME NEW group, NEW data, Whole(group, data)
    PROVE  /\ DOMAIN data = Names(group.fields)
           /\ \A k \in DOMAIN group.fields : data[group.fields[k].name] \in Int
BY DEF Whole, Writable, Encodable, Complete, Names

\* A faithful group gives back the values that were written to it, each limited
\* to the range of its type: parse_signal_group_fields undoes
\* encode_fields_to_registers for every layout of fields that do not overlap,
\* every byte order and all numbers.
THEOREM GroupComesBack ==
    ASSUME NEW group, ValidGroup(group), Faithful(group), NEW data, Whole(group, data),
           NEW o \in ByteOrder
    PROVE  LET found == Parse(Cells(group, data, o), group.fields, o)
           IN  /\ DOMAIN found = DOMAIN data
               /\ \A k \in DOMAIN group.fields :
                     found[group.fields[k].name]
                         = Held(data[group.fields[k].name], group.fields[k].type)
<1> DEFINE fs == group.fields  words == Cells(group, data, o)  found == Parse(words, fs, o)
           fitting == {k \in DOMAIN fs : EndOffset(fs[k]) <= Len(words)}
<1>1. Len(words) = group.count
  <2>1. words \in [1..group.count -> Cell(group.kind)] /\ group.count \in Nat
    BY CellsAre, FieldsOfGroup
  <2> HIDE DEF words
  <2> QED
    BY <2>1
<1>2. fitting = DOMAIN fs
  BY <1>1, FieldsOfGroup
<1>3. /\ DOMAIN found = Names(fs)
      /\ \A name \in Names(fs) :
            found[name] = LET k == CHOOSE k \in fitting : fs[k].name = name
                          IN  FromBytes(BytesAt(words, fs[k].offset, ByteCount(fs[k].type)),
                                        fs[k].type, o)
  BY <1>2 DEF Parse, Names
<1>4. ASSUME NEW k \in DOMAIN fs
      PROVE  found[fs[k].name] = Held(data[fs[k].name], fs[k].type)
  <2> DEFINE field == fs[k]  n == ByteCount(field.type)  v == data[field.name]
             bytes == ToBytes(v, field.type, o)
  <2>1. (CHOOSE l \in fitting : fs[l].name = fs[k].name) = k
    <3>1. \A l \in fitting : fs[l].name = fs[k].name <=> l = k
      BY <1>2 DEF ValidGroup
    <3>2. k \in fitting
      BY <1>2
    <3> HIDE DEF fitting, fs
    <3> QED
      BY <3>1, <3>2
  <2>2. fs[k].name \in Names(fs)
    BY DEF Names
  <2>3. found[fs[k].name] = FromBytes(BytesAt(words, field.offset, n), field.type, o)
    <3> DEFINE l == CHOOSE m \in fitting : fs[m].name = fs[k].name
    <3> HIDE DEF found, fitting, fs, words
    <3>1. found[fs[k].name] = FromBytes(BytesAt(words, fs[l].offset, ByteCount(fs[l].type)),
                                        fs[l].type, o)
      BY <1>3, <2>2
    <3> HIDE DEF l
    <3>2. l = k
      BY <2>1 DEF l
    <3> QED
      BY <3>1, <3>2
  <2>4. /\ field.type \in DataType /\ field.offset \in Nat /\ v \in Int
        /\ RequiredRegisters(field.type) \in 1..4
    BY FieldsOfGroup, WholeNames
  <2>5. bytes \in [1..n -> Byte] /\ n \in Width /\ (n + 1) \div 2 = RequiredRegisters(field.type)
    BY <2>4, ToBytesAre, Widths
  <2>6. DOMAIN WordsOf(bytes) = 1..RequiredRegisters(field.type)
    <3> HIDE DEF bytes, n, field
    <3> QED
      BY <2>5, WordsAre
  <2>7. \A i \in 1..RequiredRegisters(field.type) :
            words[field.offset + i] = WordsOf(bytes)[i]
    BY CellOfField
  <2>8. BytesAt(words, field.offset, n) = bytes
    <3> DEFINE at == field.offset
    <3>1. at \in Nat
      BY <2>4
    <3> HIDE DEF bytes, n, field, words, at
    <3>2. \A j \in DOMAIN WordsOf(bytes) : words[at + j] = WordsOf(bytes)[j]
      BY <2>6, <2>7 DEF at
    <3>3. BytesAt(words, at, n) = bytes
      BY <2>5, <3>1, <3>2, BytesComeBack
    <3> QED
      BY <3>3 DEF at
  <2>9. FromBytes(bytes, field.type, o) = Held(v, field.type)
    BY <2>4, ValueComesBack
  <2> QED
    BY <2>3, <2>8, <2>9
<1> QED
  BY <1>3, <1>4, WholeNames

-----------------------------------------------------------------------------
(* What is known of a group and what its cells hold.                       *)

\* Every cell holds what its kind can hold.
MemoryOK ==
    /\ DOMAIN memory = Kind
    /\ \A kind \in Kind : memory[kind] \in [Address -> Cell(kind)]

\* A write in progress carries the cells of a whole request.
MadeOfRequest(op) ==
    \/ op = Idle
    \/ op.op = "Invalid"
    \/ op.op = "Read" /\ op.group \in DOMAIN Groups
    \/ /\ op.op = "Write"
       /\ op.group \in DOMAIN Groups
       /\ Whole(Groups[op.group], op.given)
       /\ op.cells = Cells(Groups[op.group], op.given, order)

\* What a group is known to hold is in its cells.
StoredThere(name) ==
    LET group == Groups[name]
    IN  stored[name] # Nothing =>
            /\ OnDevice(group)
            /\ Whole(group, stored[name])
            /\ \A a \in Extent(group) :
                  memory[group.kind][a] =
                      Cells(group, stored[name], order)[a - group.address + 1]

\* A read of a group that is known to hold something was made from its cells.
AnswerOfCells ==
    answer.status = "read" /\ answer.known # Nothing =>
        LET group == Groups[answer.group]
        IN  /\ answer.group \in DOMAIN Groups
            /\ Whole(group, answer.known)
            /\ answer.fields = Parse(Cells(group, answer.known, order), group.fields, order)

StoredInv ==
    /\ DOMAIN running = Callers
    /\ DOMAIN stored = DOMAIN Groups
    /\ order \in ByteOrder
    /\ MemoryOK
    /\ \A c \in Callers : MadeOfRequest(running[c])
    /\ \A name \in DOMAIN Groups : StoredThere(name)
    /\ AnswerOfCells

\* The configuration has passed validation.
LEMMA GroupsValid == \A name \in DOMAIN Groups : ValidGroup(Groups[name])
BY SignalsAssumption

\* What is known of a group survives a change of other cells, and is forgotten
\* if its own may have changed.
LEMMA KnowledgeKept ==
    ASSUME StoredInv, NEW name \in DOMAIN Groups, NEW kind, NEW addresses,
           order' = order,
           \A k \in Kind, a \in Address :
               k # kind \/ a \notin addresses => memory'[k][a] = memory[k][a],
           stored'[name] = Forgotten(kind, addresses)[name]
    PROVE  StoredThere(name)'
<1> DEFINE group == Groups[name]
<1> SUFFICES ASSUME stored'[name] # Nothing
             PROVE  /\ OnDevice(group)
                    /\ Whole(group, stored'[name])
                    /\ \A a \in Extent(group) :
                          memory'[group.kind][a] =
                              Cells(group, stored'[name], order')[a - group.address + 1]
  BY DEF StoredThere
<1>1. Forgotten(kind, addresses)[name] =
          IF group.kind = kind /\ Extent(group) \cap addresses # {} THEN Nothing
          ELSE stored[name]
  BY DEF Forgotten
<1>2. /\ stored'[name] = stored[name]
      /\ group.kind # kind \/ Extent(group) \cap addresses = {}
  BY <1>1
<1>3. /\ OnDevice(group)
      /\ Whole(group, stored[name])
      /\ \A a \in Extent(group) :
            memory[group.kind][a] = Cells(group, stored[name], order)[a - group.address + 1]
  BY <1>2 DEF StoredInv, StoredThere
<1>4. group.kind \in Kind /\ Extent(group) \subseteq Address
  BY <1>3, GroupsValid DEF ValidGroup, OnDevice
<1>5. \A a \in Extent(group) : memory'[group.kind][a] = memory[group.kind][a]
  BY <1>2, <1>4
<1> QED
  BY <1>2, <1>3, <1>5

\* A write of as many cells as its group has goes to the whole of the group.
LEMMA ReachedIsExtent ==
    ASSUME NEW group, group.address \in Nat, group.count \in Nat,
           NEW cells, DOMAIN cells = 1..group.count
    PROVE  /\ Reached(group, cells) = Extent(group)
           /\ Takes(group, cells) <=> OnDevice(group)
<1>1. PICK first \in Nat : first = group.address
  OBVIOUS
<1>2. PICK n \in Nat : n = group.count
  OBVIOUS
<1>3. {first + j - 1 : j \in 1..n} = first..(first + n - 1)
  <2>1. \A a \in first..(first + n - 1) : a - first + 1 \in 1..n /\ first + (a - first + 1) - 1 = a
    OBVIOUS
  <2>2. \A j \in 1..n : first + j - 1 \in first..(first + n - 1)
    OBVIOUS
  <2> QED
    BY ONLY <2>1, <2>2, Zenon
<1>4. Reached(group, cells) = Extent(group)
  BY <1>1, <1>2, <1>3 DEF Reached, Extent
<1>5. DOMAIN cells # {} <=> group.count > 0
  BY <1>2
<1> QED
  BY <1>4, <1>5 DEF Takes, OnDevice

\* The memory after a write in progress has been executed.
LEMMA WrittenCells ==
    ASSUME StoredInv, NEW c \in Callers, running[c] # Idle, running[c].op = "Write",
           NEW group, group = Groups[running[c].group],
           memory' = Written(group, running[c].cells), Takes(group, running[c].cells)
    PROVE  /\ MemoryOK'
           /\ OnDevice(group)
           /\ Reached(group, running[c].cells) = Extent(group)
           /\ running[c].group \in DOMAIN Groups
           /\ Whole(group, running[c].given)
           /\ \A a \in Extent(group) :
                 memory'[group.kind][a] =
                     Cells(group, running[c].given, order)[a - group.address + 1]
           /\ \A k \in Kind, a \in Address :
                 k # group.kind \/ a \notin Extent(group) => memory'[k][a] = memory[k][a]
<1> DEFINE cells == running[c].cells
<1>1. /\ running[c].group \in DOMAIN Groups
      /\ Whole(group, running[c].given)
      /\ cells = Cells(group, running[c].given, order)
  BY DEF StoredInv, MadeOfRequest
<1>2. ValidGroup(group) /\ group.kind \in Kind /\ group.address \in Nat /\ group.count \in Nat
  BY <1>1, GroupsValid, FieldsOfGroup
<1>3. cells \in [1..group.count -> Cell(group.kind)]
  BY <1>1, <1>2, CellsAre DEF StoredInv
<1>12. Reached(group, cells) = Extent(group) /\ OnDevice(group)
  <2> HIDE DEF cells
  <2>1. DOMAIN cells = 1..group.count
    BY <1>3
  <2>2. Takes(group, cells)
    BY DEF cells
  <2> QED
    BY <1>2, <2>1, <2>2, ReachedIsExtent
<1>4. \A a \in Extent(group) : a - group.address + 1 \in 1..group.count /\ a \in Address
  BY <1>2, <1>12 DEF Extent, OnDevice
<1>5. /\ DOMAIN memory = Kind
      /\ \A k \in Kind : memory[k] \in [Address -> Cell(k)]
  BY DEF StoredInv, MemoryOK
<1>6. memory' = [memory EXCEPT ![group.kind] =
                    [a \in Address |-> IF a \in Extent(group)
                                       THEN cells[a - group.address + 1]
                                       ELSE memory[group.kind][a]]]
  BY <1>2, <1>5, <1>12 DEF Written
<1> HIDE DEF cells
<1>7. /\ DOMAIN memory' = Kind
      /\ \A k \in Kind : k # group.kind => memory'[k] = memory[k]
      /\ memory'[group.kind] =
            [a \in Address |-> IF a \in Extent(group) THEN cells[a - group.address + 1]
                                                      ELSE memory[group.kind][a]]
  BY <1>2, <1>5, <1>6
<1>8. memory'[group.kind] \in [Address -> Cell(group.kind)]
  <2>1. \A a \in Address :
            (IF a \in Extent(group) THEN cells[a - group.address + 1]
                                    ELSE memory[group.kind][a]) \in Cell(group.kind)
    BY <1>2, <1>3, <1>4, <1>5
  <2> QED
    BY <1>7, <2>1
<1>9. MemoryOK'
  BY <1>5, <1>7, <1>8 DEF MemoryOK
<1>10. \A a \in Extent(group) :
          memory'[group.kind][a] = Cells(group, running[c].given, order)[a - group.address + 1]
  BY <1>1, <1>4, <1>7
<1>11. \A k \in Kind, a \in Address :
          k # group.kind \/ a \notin Extent(group) => memory'[k][a] = memory[k][a]
  <2>1. ASSUME NEW k \in Kind, NEW a \in Address, k # group.kind
        PROVE  memory'[k][a] = memory[k][a]
    BY <1>7, <2>1
  <2>2. ASSUME NEW a \in Address, a \notin Extent(group)
        PROVE  memory'[group.kind][a] = memory[group.kind][a]
    BY <1>7, <2>2
  <2> QED
    BY <2>1, <2>2
<1> QED
  BY <1>1, <1>9, <1>10, <1>11, <1>12 DEF cells

\* An operation that ends or begins leaves the others as they are.
LEMMA OthersKeepOperations ==
    ASSUME StoredInv, NEW c \in Callers, NEW op, running' = [running EXCEPT ![c] = op],
           order' = order, MadeOfRequest(op)
    PROVE  DOMAIN running' = Callers /\ (\A b \in Callers : MadeOfRequest(running[b])')
<1>1. DOMAIN running' = Callers /\ \A b \in Callers : running'[b] = IF b = c THEN op ELSE running[b]
  BY DEF StoredInv
<1>2. \A o : MadeOfRequest(o) =>
          \/ o = Idle
          \/ o.op = "Invalid"
          \/ o.op = "Read" /\ o.group \in DOMAIN Groups
          \/ /\ o.op = "Write"
             /\ o.group \in DOMAIN Groups
             /\ Whole(Groups[o.group], o.given)
             /\ o.cells = Cells(Groups[o.group], o.given, order')
  BY DEF MadeOfRequest
<1>3. ASSUME NEW b \in Callers PROVE MadeOfRequest(running[b])'
  <2>1. MadeOfRequest(IF b = c THEN op ELSE running[b])
    BY DEF StoredInv
  <2> DEFINE o == IF b = c THEN op ELSE running[b]
  <2>2. running'[b] = o
    BY <1>1
  <2> HIDE DEF o
  <2>3. MadeOfRequest(o)
    BY <2>1 DEF o
  <2> QED
    BY <1>2, <2>2, <2>3 DEF MadeOfRequest
<1> QED
  BY <1>1, <1>3

\* A write that can be made of a request carries the cells of the whole of it.
LEMMA AdmittedIsWhole ==
    ASSUME StoredInv, NEW c \in Callers, NEW request \in WriteRequests,
           AdmitWrite(c, request.group, request.data)
    PROVE  \E op : MadeOfRequest(op) /\ running' = [running EXCEPT ![c] = op]
<1> DEFINE name == request.group  data == request.data
<1>1. CASE name \in DOMAIN Groups /\ Writable(Groups[name], data)
  <2> DEFINE op == [op |-> "Write", group |-> name, given |-> data,
                    cells |-> Cells(Groups[name], data, order)]
  <2>1. running' = [running EXCEPT ![c] = op]
    BY <1>1 DEF AdmitWrite
  <2>2. Complete(data, Groups[name].fields)
    BY <1>1 DEF AdmitWrite
  <2>3. \A field \in DOMAIN data : data[field] \in Int
    BY <1>1, SignalsAssumption DEF Writable, Encodable
  <2>4. Whole(Groups[name], data)
    BY <1>1, <2>2, <2>3 DEF Whole
  <2>5. MadeOfRequest(op)
    BY <1>1, <2>4 DEF MadeOfRequest
  <2> QED
    BY <2>1, <2>5
<1>2. CASE ~(name \in DOMAIN Groups /\ Writable(Groups[name], data))
  <2>1. running' = [running EXCEPT ![c] = [op |-> "Invalid"]]
    BY <1>2 DEF AdmitWrite
  <2>2. MadeOfRequest([op |-> "Invalid"])
    BY DEF MadeOfRequest
  <2> QED
    BY <2>1, <2>2
<1> QED
  BY <1>1, <1>2

\* Steps that leave the memory and what is known of it alone.
LEMMA MemoryKept ==
    ASSUME StoredInv, UNCHANGED <<memory, order, stored>>
    PROVE  /\ DOMAIN stored' = DOMAIN Groups /\ order' \in ByteOrder
           /\ MemoryOK' /\ \A name \in DOMAIN Groups : StoredThere(name)'
<1>1. ASSUME NEW name \in DOMAIN Groups PROVE StoredThere(name)'
  <2>1. StoredThere(name)
    BY DEF StoredInv
  <2> QED
    BY <2>1 DEF StoredThere
<1> QED
  BY <1>1 DEF StoredInv, MemoryOK

\* The last answer stays true until there is another.
LEMMA AnswerKept ==
    ASSUME StoredInv, UNCHANGED <<order, answer>>
    PROVE  AnswerOfCells'
BY DEF StoredInv, AnswerOfCells

\* Answers that are no reads say nothing of cells.
LEMMA OtherAnswer ==
    ASSUME answer'.status # "read"
    PROVE  AnswerOfCells'
BY DEF AnswerOfCells

\* A caller without a request has nothing to account for.
LEMMA IdleIsMade == MadeOfRequest(Idle)
BY DEF MadeOfRequest

\* A read answers with the cells the group is known to have.
LEMMA ReadAnswersCells ==
    ASSUME StoredInv, NEW c \in Callers, ExecuteRead(c)
    PROVE  AnswerOfCells'
<1> DEFINE name == running[c].group  group == Groups[name]
<1>1. name \in DOMAIN Groups
  BY DEF ExecuteRead, StoredInv, MadeOfRequest
<1>2. /\ answer' = [status |-> "read", group |-> name, fields |-> FieldsRead(group),
                    known |-> stored[name]]
      /\ order' = order
  BY DEF ExecuteRead, Finish
<1>3. /\ answer'.status = "read" /\ answer'.group = name
      /\ answer'.fields = FieldsRead(group) /\ answer'.known = stored[name]
  BY <1>2
<1>4. ASSUME stored[name] # Nothing
      PROVE  /\ Whole(group, stored[name])
             /\ FieldsRead(group) = Parse(Cells(group, stored[name], order), group.fields, order)
  <2> DEFINE cells == Cells(group, stored[name], order)
  <2>1. /\ Whole(group, stored[name])
        /\ \A a \in Extent(group) : memory[group.kind][a] = cells[a - group.address + 1]
    BY <1>1, <1>4 DEF StoredInv, StoredThere
  <2>2. ValidGroup(group) /\ group.address \in Nat /\ group.count \in Nat
    BY <1>1, GroupsValid, FieldsOfGroup
  <2>3. cells \in [1..group.count -> Cell(group.kind)]
    BY <2>1, <2>2, CellsAre DEF StoredInv
  <2> HIDE DEF cells, group
  <2>4. \A j \in 1..group.count : /\ group.address + j - 1 \in Extent(group)
                                  /\ (group.address + j - 1) - group.address + 1 = j
    BY <2>2 DEF Extent
  <2>5. \A j \in 1..group.count : memory[group.kind][group.address + j - 1] = cells[j]
    BY <2>1, <2>4
  <2>6. WordsRead(group) = cells
    BY <2>3, <2>5 DEF WordsRead
  <2> QED
    BY <2>1, <2>6 DEF FieldsRead, cells
<1> HIDE DEF group, name
<1>5. answer'.known # Nothing =>
        /\ answer'.group \in DOMAIN Groups
        /\ Whole(group, answer'.known)
        /\ answer'.fields = Parse(Cells(group, answer'.known, order'), group.fields, order')
  BY <1>1, <1>2, <1>3, <1>4
<1>6. Groups[answer'.group] = group
  BY <1>3 DEF group
<1> QED
  BY <1>5, <1>6 DEF AnswerOfCells

\* A write leaves its own values and takes away what was known of the groups it
\* shares cells with.
LEMMA WriteStores ==
    ASSUME StoredInv, NEW c \in Callers, ExecuteWrite(c)
    PROVE  /\ DOMAIN stored' = DOMAIN Groups /\ order' = order
           /\ MemoryOK' /\ \A name \in DOMAIN Groups : StoredThere(name)'
<1> DEFINE own == running[c].group  group == Groups[own]  given == running[c].given
           cells == running[c].cells  left == Forgotten(group.kind, Reached(group, cells))
<1>1. /\ running[c] # Idle /\ running[c].op = "Write" /\ Takes(group, cells)
      /\ memory' = Written(group, cells)
      /\ stored' = [left EXCEPT ![own] = given]
      /\ order' = order
  BY DEF ExecuteWrite
<1>2. /\ MemoryOK'
      /\ OnDevice(group)
      /\ Reached(group, cells) = Extent(group)
      /\ own \in DOMAIN Groups
      /\ Whole(group, given)
      /\ \A a \in Extent(group) :
            memory'[group.kind][a] = Cells(group, given, order)[a - group.address + 1]
      /\ \A k \in Kind, a \in Address :
            k # group.kind \/ a \notin Extent(group) => memory'[k][a] = memory[k][a]
  BY <1>1, WrittenCells
<1>3. DOMAIN left = DOMAIN Groups
  BY DEF Forgotten
<1>4. /\ DOMAIN stored' = DOMAIN Groups
      /\ stored'[own] = given
      /\ \A name \in DOMAIN Groups : name # own => stored'[name] = left[name]
  <2> HIDE DEF left, own, given
  <2> QED
    BY <1>1, <1>2, <1>3
<1>5. ASSUME NEW name \in DOMAIN Groups, name = own PROVE StoredThere(name)'
  <2> HIDE DEF given, left
  <2>1. stored'[name] = given /\ order' = order
    BY <1>1, <1>4, <1>5
  <2>2. /\ OnDevice(Groups[name])
        /\ Whole(Groups[name], given)
        /\ \A a \in Extent(Groups[name]) :
              memory'[Groups[name].kind][a]
                  = Cells(Groups[name], given, order)[a - Groups[name].address + 1]
    BY <1>1, <1>2, <1>5
  <2> QED
    BY <2>1, <2>2 DEF StoredThere
<1>6. ASSUME NEW name \in DOMAIN Groups, name # own PROVE StoredThere(name)'
  <2>1. stored'[name] = Forgotten(group.kind, Extent(group))[name]
    BY <1>2, <1>4, <1>6
  <2> QED
    BY <1>1, <1>2, <2>1, KnowledgeKept
<1> QED
  BY <1>1, <1>2, <1>4, <1>5, <1>6

\* A failed operation happened or not, and is not remembered.
LEMMA FailureForgets ==
    ASSUME StoredInv, NEW c \in Callers, ExecuteFails(c)
    PROVE  /\ DOMAIN stored' = DOMAIN Groups /\ order' = order
           /\ MemoryOK' /\ \A name \in DOMAIN Groups : StoredThere(name)'
<1> DEFINE group == Groups[running[c].group]  cells == running[c].cells
<1>1. order' = order
  BY DEF ExecuteFails
<1>2. CASE UNCHANGED <<memory, stored>>
  BY <1>1, <1>2, MemoryKept
<1>3. CASE /\ running[c].op = "Write" /\ Takes(group, cells)
           /\ memory' = Written(group, cells)
           /\ stored' = Forgotten(group.kind, Reached(group, cells))
  <2>1. running[c] # Idle
    BY DEF ExecuteFails
  <2>2. /\ MemoryOK'
        /\ Reached(group, cells) = Extent(group)
        /\ \A k \in Kind, a \in Address :
              k # group.kind \/ a \notin Extent(group) => memory'[k][a] = memory[k][a]
    BY <1>3, <2>1, WrittenCells
  <2>3. DOMAIN stored' = DOMAIN Groups
    BY <1>3 DEF Forgotten
  <2>4. ASSUME NEW name \in DOMAIN Groups PROVE StoredThere(name)'
    BY <1>1, <1>3, <2>2, KnowledgeKept
  <2> QED
    BY <1>1, <2>2, <2>3, <2>4
<1> QED
  BY <1>2, <1>3 DEF ExecuteFails

\* The device changes one cell; the groups that cover it are forgotten.
LEMMA ChangeForgets ==
    ASSUME StoredInv, NEW change \in DeviceChanges, DeviceStores(change)
    PROVE  /\ DOMAIN stored' = DOMAIN Groups /\ order' = order
           /\ MemoryOK' /\ \A name \in DOMAIN Groups : StoredThere(name)'
<1>1. /\ memory' = [memory EXCEPT ![change.kind][change.address] = change.value]
      /\ stored' = Forgotten(change.kind, {change.address})
      /\ order' = order
  BY DEF DeviceStores
<1>2. change.kind \in Kind /\ change.address \in Address /\ change.value \in Cell(change.kind)
  BY SignalsAssumption
<1>3. DOMAIN memory = Kind /\ \A k \in Kind : memory[k] \in [Address -> Cell(k)]
  BY DEF StoredInv, MemoryOK
<1>4. /\ DOMAIN memory' = Kind
      /\ \A k \in Kind : k # change.kind => memory'[k] = memory[k]
      /\ memory'[change.kind] = [memory[change.kind] EXCEPT ![change.address] = change.value]
  BY <1>1, <1>2, <1>3
<1>5. MemoryOK'
  <2>1. memory'[change.kind] \in [Address -> Cell(change.kind)]
    BY <1>2, <1>3, <1>4
  <2> QED
    BY <1>3, <1>4, <2>1 DEF MemoryOK
<1>6. \A k \in Kind, a \in Address :
          k # change.kind \/ a \notin {change.address} => memory'[k][a] = memory[k][a]
  BY <1>2, <1>3, <1>4
<1>7. DOMAIN stored' = DOMAIN Groups
  BY <1>1 DEF Forgotten
<1>8. ASSUME NEW name \in DOMAIN Groups PROVE StoredThere(name)'
  BY <1>1, <1>6, KnowledgeKept
<1> QED
  BY <1>1, <1>5, <1>7, <1>8

\* Whatever the callers, the threads and the device do, in whatever order, what
\* a group is known to hold is what its cells spell.
THEOREM KnowledgeIsTrue == SignalsSpec => []StoredInv
<1>1. SignalsInit => StoredInv
  <2> SUFFICES ASSUME SignalsInit PROVE StoredInv
    OBVIOUS
  <2>1. \A kind \in Kind : 0 \in Cell(kind)
    <3>1. ByteBase * ByteBase \in Nat /\ ByteBase * ByteBase > 0
      BY BaseOK
    <3>2. 0 \in Word
      BY <3>1 DEF Word
    <3> QED
      BY <3>2 DEF Cell, Bit
  <2>2. MemoryOK
    BY <2>1 DEF SignalsInit, MemoryOK
  <2>3. order \in ByteOrder
    BY SignalsAssumption DEF SignalsInit
  <2>4. DOMAIN running = Callers /\ \A c \in Callers : running[c] = Idle
    BY DEF SignalsInit
  <2>5. DOMAIN stored = DOMAIN Groups /\ \A name \in DOMAIN Groups : stored[name] = Nothing
    BY DEF SignalsInit
  <2>6. answer.status = "none"
    BY DEF SignalsInit
  <2> QED
    BY <2>2, <2>3, <2>4, <2>5, <2>6 DEF StoredInv, MadeOfRequest, StoredThere, AnswerOfCells
<1>2. StoredInv /\ [SignalsNext]_vars => StoredInv'
  <2> SUFFICES ASSUME StoredInv, [SignalsNext]_vars PROVE StoredInv'
    OBVIOUS
  <2> DEFINE Made == DOMAIN running' = Callers /\ \A c \in Callers : MadeOfRequest(running[c])'
             Known == /\ DOMAIN stored' = DOMAIN Groups /\ order' \in ByteOrder
                      /\ MemoryOK' /\ \A name \in DOMAIN Groups : StoredThere(name)'
  <2>0. order \in ByteOrder
    BY DEF StoredInv
  <2>1. ASSUME NEW c \in Callers, NEW request \in WriteRequests,
               RefuseIncomplete(c, request.group, request.data)
        PROVE  StoredInv'
    <3>1. UNCHANGED <<memory, order, running, stored>> /\ answer'.status = "refused"
      BY <2>1 DEF RefuseIncomplete, Refused
    <3>2. Made
      BY <3>1 DEF StoredInv, MadeOfRequest
    <3>3. Known
      BY <3>1, MemoryKept
    <3>4. AnswerOfCells'
      BY <3>1, OtherAnswer
    <3> QED
      BY <3>2, <3>3, <3>4 DEF StoredInv
  <2>2. ASSUME NEW c \in Callers, NEW request \in WriteRequests,
               AdmitWrite(c, request.group, request.data)
        PROVE  StoredInv'
    <3>1. UNCHANGED <<memory, order, answer, stored>>
      BY <2>2 DEF AdmitWrite
    <3>2. Made
      BY <2>2, <3>1, AdmittedIsWhole, OthersKeepOperations
    <3> QED
      BY <3>1, <3>2, MemoryKept, AnswerKept DEF StoredInv
  <2>3. ASSUME NEW c \in Callers, NEW name \in DOMAIN Groups, AdmitRead(c, name)
        PROVE  StoredInv'
    <3>1. /\ UNCHANGED <<memory, order, answer, stored>>
          /\ running' = [running EXCEPT ![c] = [op |-> "Read", group |-> name]]
      BY <2>3 DEF AdmitRead
    <3>2. MadeOfRequest([op |-> "Read", group |-> name])
      BY DEF MadeOfRequest
    <3>3. Made
      BY <3>1, <3>2, OthersKeepOperations
    <3> QED
      BY <3>1, <3>3, MemoryKept, AnswerKept DEF StoredInv
  <2>4. ASSUME NEW c \in Callers, RefuseInvalid(c) PROVE StoredInv'
    <3>1. /\ UNCHANGED <<memory, order, stored>> /\ answer'.status = "refused"
          /\ running' = [running EXCEPT ![c] = Idle]
      BY <2>4 DEF RefuseInvalid, Finish, Refused
    <3>2. Made
      BY <3>1, IdleIsMade, OthersKeepOperations
    <3> QED
      BY <3>1, <3>2, MemoryKept, OtherAnswer DEF StoredInv
  <2>5. ASSUME NEW c \in Callers, ExecuteWrite(c) PROVE StoredInv'
    <3>1. answer'.status = "written" /\ running' = [running EXCEPT ![c] = Idle]
      BY <2>5 DEF ExecuteWrite, Finish
    <3>2. Known /\ order' = order
      BY <2>0, <2>5, WriteStores
    <3>3. Made
      BY <3>1, <3>2, IdleIsMade, OthersKeepOperations
    <3> QED
      BY <3>1, <3>2, <3>3, OtherAnswer DEF StoredInv
  <2>6. ASSUME NEW c \in Callers, ExecuteFails(c) PROVE StoredInv'
    <3>1. answer'.status = "failed" /\ running' = [running EXCEPT ![c] = Idle]
      BY <2>6 DEF ExecuteFails, Finish
    <3>2. Known /\ order' = order
      BY <2>0, <2>6, FailureForgets
    <3>3. Made
      BY <3>1, <3>2, IdleIsMade, OthersKeepOperations
    <3> QED
      BY <3>1, <3>2, <3>3, OtherAnswer DEF StoredInv
  <2>7. ASSUME NEW c \in Callers, ExecuteRead(c) PROVE StoredInv'
    <3>1. UNCHANGED <<memory, order, stored>> /\ running' = [running EXCEPT ![c] = Idle]
      BY <2>7 DEF ExecuteRead, Finish
    <3>2. Made
      BY <3>1, IdleIsMade, OthersKeepOperations
    <3> QED
      BY <2>7, <3>1, <3>2, MemoryKept, ReadAnswersCells DEF StoredInv
  <2>8. ASSUME NEW change \in DeviceChanges, DeviceStores(change) PROVE StoredInv'
    <3>1. UNCHANGED <<order, running, answer>>
      BY <2>8 DEF DeviceStores
    <3>2. Known
      BY <2>0, <2>8, ChangeForgets
    <3>3. Made
      BY <3>1 DEF StoredInv, MadeOfRequest
    <3> QED
      BY <3>1, <3>2, <3>3, AnswerKept DEF StoredInv
  <2>9. CASE UNCHANGED vars
    <3>1. UNCHANGED <<memory, order, running, answer, stored>>
      BY <2>9 DEF vars
    <3>2. Made
      BY <3>1 DEF StoredInv, MadeOfRequest
    <3> QED
      BY <3>1, <3>2, MemoryKept, AnswerKept DEF StoredInv
  <2> QED
    BY <2>1, <2>2, <2>3, <2>4, <2>5, <2>6, <2>7, <2>8, <2>9 DEF SignalsNext
<1> QED
  BY <1>1, <1>2, PTL DEF SignalsSpec

-----------------------------------------------------------------------------
(* What follows from it.                                                   *)

\* A read gives back what the last write left, for every configuration of
\* groups whose fields do not overlap, every byte order, all values and any
\* number of callers: what the run checks with two callers and bytes of four
\* values (parse_signal_group_fields after encode_fields_to_registers).
THEOREM ReadsGiveBack == SignalsSpec => []ReadBack
<1>1. StoredInv => ReadBack
  <2> SUFFICES ASSUME StoredInv, answer.status = "read", answer.known # Nothing,
                      Faithful(Groups[answer.group])
               PROVE  /\ DOMAIN answer.fields = DOMAIN answer.known
                      /\ \A k \in DOMAIN Groups[answer.group].fields :
                            answer.fields[Groups[answer.group].fields[k].name]
                                = Held(answer.known[Groups[answer.group].fields[k].name],
                                       Groups[answer.group].fields[k].type)
    BY DEF ReadBack
  <2> DEFINE group == Groups[answer.group]  data == answer.known
  <2>1. /\ answer.group \in DOMAIN Groups
        /\ Whole(group, data)
        /\ answer.fields = Parse(Cells(group, data, order), group.fields, order)
    BY DEF StoredInv, AnswerOfCells
  <2>2. ValidGroup(group) /\ order \in ByteOrder
    BY <2>1, GroupsValid DEF StoredInv
  <2> HIDE DEF group, data
  <2>3. Faithful(group)
    BY DEF group
  <2>4. /\ DOMAIN answer.fields = DOMAIN data
        /\ \A k \in DOMAIN group.fields :
              answer.fields[group.fields[k].name]
                  = Held(data[group.fields[k].name], group.fields[k].type)
    BY <2>1, <2>2, <2>3, GroupComesBack
  <2> QED
    BY <2>4 DEF group, data
<1> QED
  BY <1>1, KnowledgeIsTrue, PTL

\* Every cell holds what its kind can hold and the operations in progress write
\* as many cells as their group has.
THEOREM SignalsTypeCorrect == SignalsSpec => []SignalsTypeOK
<1>1. StoredInv => SignalsTypeOK
  <2> SUFFICES ASSUME StoredInv, NEW c \in Callers, running[c] # Idle,
                      running[c].op # "Invalid", running[c].op # "Read"
               PROVE  /\ running[c].op = "Write"
                      /\ running[c].group \in DOMAIN Groups
                      /\ Groups[running[c].group].kind \in WritableKind
                      /\ running[c].cells \in
                            [1..Groups[running[c].group].count ->
                                Cell(Groups[running[c].group].kind)]
    BY DEF SignalsTypeOK, StoredInv, MemoryOK, MadeOfRequest
  <2> DEFINE group == Groups[running[c].group]
  <2>1. /\ running[c].op = "Write"
        /\ running[c].group \in DOMAIN Groups
        /\ Whole(group, running[c].given)
        /\ running[c].cells = Cells(group, running[c].given, order)
    BY DEF StoredInv, MadeOfRequest
  <2>2. ValidGroup(group) /\ order \in ByteOrder
    BY <2>1, GroupsValid DEF StoredInv
  <2> HIDE DEF group
  <2>3. running[c].cells \in [1..group.count -> Cell(group.kind)]
    BY <2>1, <2>2, CellsAre
  <2>4. group.kind \in WritableKind
    BY <2>1 DEF Whole, Writable
  <2> QED
    BY <2>1, <2>3, <2>4 DEF group
<1> QED
  BY <1>1, KnowledgeIsTrue, PTL

\* The bytes of a value of several bytes, high and low in turn, in its registers.
LEMMA HalfIsByte ==
    ASSUME NEW n \in {2, 4, 8}, NEW bytes \in [1..n -> Byte], NEW i \in 1..n
    PROVE  LET word == WordsOf(bytes)[(i + 1) \div 2]
           IN  (IF i % 2 = 1 THEN word \div ByteBase ELSE word % ByteBase) = bytes[i]
<1> DEFINE words == WordsOf(bytes)
<1>1. n \in Width
  BY DEF Width
<1>2. \A j \in DOMAIN words : words[0 + j] = words[j]
  <2>1. DOMAIN words = 1..((n + 1) \div 2)
    BY <1>1, WordsAre
  <2> QED
    BY <2>1
<1>3. BytesAt(words, 0, n) = bytes
  BY <1>1, <1>2, BytesComeBack
<1>4. n > 1 /\ 0 + ((i + 1) \div 2) = (i + 1) \div 2
  OBVIOUS
<1> HIDE DEF words
<1>5. BytesAt(words, 0, n)[i] =
          LET word == words[(i + 1) \div 2]
          IN  IF i % 2 = 1 THEN word \div ByteBase ELSE word % ByteBase
  BY <1>4 DEF BytesAt
<1> QED
  BY <1>3, <1>5 DEF words

\* The bytes of a field on the wire are those its value was turned into.
LEMMA WireBytes ==
    ASSUME StoredInv, NEW name \in DOMAIN Groups, Groups[name].kind = "Holding",
           Faithful(Groups[name]), stored[name] # Nothing,
           NEW k \in DOMAIN Groups[name].fields, Groups[name].fields[k].type # "Bool",
           NEW i \in 1..ByteCount(Groups[name].fields[k].type)
    PROVE  LET field == Groups[name].fields[k]
           IN  Wire(Groups[name], 2 * field.offset + i)
                   = ToBytes(stored[name][field.name], field.type, order)[i]
<1> DEFINE group == Groups[name]  field == group.fields[k]  n == ByteCount(field.type)
           v == stored[name][field.name]  bytes == ToBytes(v, field.type, order)
           cells == Cells(group, stored[name], order)  at == field.offset
           half == (i + 1) \div 2  r == RequiredRegisters(field.type)
<1>1. ValidGroup(group) /\ order \in ByteOrder
  BY GroupsValid DEF StoredInv
<1>2. /\ Whole(group, stored[name])
      /\ \A a \in Extent(group) : memory[group.kind][a] = cells[a - group.address + 1]
  BY DEF StoredInv, StoredThere
<1>3. /\ group.address \in Nat /\ group.count \in Nat
      /\ field.type \in DataType /\ at \in Nat /\ r \in 1..4
  BY <1>1, FieldsOfGroup
<1>4. v \in Int
  BY <1>2, WholeNames
<1>5. bytes \in [1..n -> Byte] /\ n \in {2, 4, 8} /\ (n + 1) \div 2 = r
  BY <1>1, <1>3, <1>4, ToBytesAre, Widths
<1>6. half \in 1..r /\ i \in Nat
  BY <1>5
<1>7. /\ at + half \in 1..group.count
      /\ cells[at + half] = WordsOf(bytes)[half]
  <2> HIDE DEF half
  <2> QED
    BY <1>1, <1>2, <1>6, CellOfField
<1>8. memory[group.kind][group.address + (at + half) - 1] = WordsOf(bytes)[half]
  <2> DEFINE a == group.address + (at + half) - 1
  <2>1. a \in Extent(group) /\ a - group.address + 1 = at + half
    BY <1>3, <1>7 DEF Extent
  <2> HIDE DEF a, group, cells, bytes, half, at
  <2>2. memory[group.kind][a] = cells[at + half]
    BY <1>2, <2>1
  <2> QED
    BY <1>7, <2>2 DEF a
<1>9. /\ (2 * at + i + 1) \div 2 = at + half
      /\ (2 * at + i) % 2 = i % 2
  BY <1>3, <1>6
<1>10. (IF i % 2 = 1 THEN WordsOf(bytes)[half] \div ByteBase
                     ELSE WordsOf(bytes)[half] % ByteBase) = bytes[i]
  <2>1. i \in 1..n
    OBVIOUS
  <2> HIDE DEF bytes, n
  <2> QED
    BY <1>5, <2>1, HalfIsByte
<1> HIDE DEF bytes, half, group, n
<1>11. Wire(group, 2 * at + i) = bytes[i]
  BY <1>8, <1>9, <1>10 DEF Wire
<1> QED
  BY <1>11 DEF bytes, group

\* Which byte of a number comes where, in each of the orders.
LEMMA OrderSpells ==
    ASSUME NEW o \in ByteOrder, NEW n \in {2, 4, 8}, NEW p, NEW i \in 1..n
    PROVE  Reorder(Digits(p, n), o)[i] = (p \div Span(BytesBelow(o, n, i))) % ByteBase
<1> DEFINE digits == Digits(p, n)  digit(j) == (p \div Span(j)) % ByteBase
<1>1. Len(digits) = n
  BY DEF Digits
<1>2. \A j \in 1..n : digits[j] = digit(n - j)
  BY DEF Digits
<1> HIDE DEF digits, digit
<1>3. CASE o = "BigEndian"
  BY <1>2, <1>3 DEF Reorder, BytesBelow, digits, digit
<1>4. CASE o = "LittleEndian"
  <2>1. Reversed(digits)[i] = digits[n + 1 - i]
    BY <1>1 DEF Reversed
  <2>2. n + 1 - i \in 1..n /\ n - (n + 1 - i) = i - 1
    OBVIOUS
  <2>3. Reversed(digits)[i] = digit(i - 1)
    BY <1>2, <2>1, <2>2
  <2> QED
    BY <1>4, <2>3 DEF Reorder, BytesBelow, digits, digit
<1>5. CASE o = "LittleEndianByteSwap"
  <2> DEFINE below == IF i % 2 = 1 THEN i ELSE i - 2
             place == IF i % 2 = 1 THEN n - i ELSE n - i + 2
  <2>1. place \in 1..n /\ n - place = below
    OBVIOUS
  <2>2. CASE n \in {4, 8}
    <3>1. WordsReversed(digits)[i] = digits[place]
      BY <1>1 DEF WordsReversed
    <3>2. Reorder(digits, o) = WordsReversed(digits)
      BY <1>1, <1>5, <2>2 DEF Reorder
    <3> HIDE DEF place, below
    <3>3. Reorder(digits, o)[i] = digit(below)
      BY <1>2, <2>1, <3>1, <3>2
    <3> QED
      BY <1>5, <3>3 DEF BytesBelow, digits, digit, below
  <2>3. CASE n = 2
    <3>1. Reorder(digits, o) = digits
      BY <1>1, <1>5, <2>3 DEF Reorder
    <3>2. n - i = below
      BY <2>3
    <3> HIDE DEF place, below
    <3>3. Reorder(digits, o)[i] = digit(below)
      BY <1>2, <3>1, <3>2
    <3> QED
      BY <1>5, <3>3 DEF BytesBelow, digits, digit, below
  <2> QED
    BY <2>2, <2>3
<1>6. CASE o = "MidBig"
  <2> DEFINE below == IF i % 2 = 1 THEN n - i - 1 ELSE n - i + 1
             place == IF i % 2 = 0 THEN i - 1 ELSE IF i < n THEN i + 1 ELSE i
  <2>1. place \in 1..n /\ n - place = below
    OBVIOUS
  <2>2. BytesSwapped(digits)[i] = digits[place]
    BY <1>1 DEF BytesSwapped
  <2> HIDE DEF place, below
  <2>3. BytesSwapped(digits)[i] = digit(below)
    BY <1>2, <2>1, <2>2
  <2> QED
    BY <1>6, <2>3 DEF Reorder, BytesBelow, digits, digit, below
<1> QED
  BY <1>3, <1>4, <1>5, <1>6 DEF ByteOrder

\* The number in a field of several bytes is spelled on the wire in the byte
\* order configured, in each of the four, whatever has been written to whatever
\* groups: what a master of another make reads from the device.
THEOREM OthersReadIt == SignalsSpec => []SpelledInOrder
<1>1. StoredInv => SpelledInOrder
  <2> SUFFICES ASSUME StoredInv, NEW name \in DOMAIN Groups, Groups[name].kind = "Holding",
                      Faithful(Groups[name]), stored[name] # Nothing,
                      NEW k \in DOMAIN Groups[name].fields,
                      Groups[name].fields[k].type # "Bool",
                      NEW i \in 1..ByteCount(Groups[name].fields[k].type)
               PROVE  LET field == Groups[name].fields[k]
                          n == ByteCount(field.type)
                          p == Held(stored[name][field.name], field.type) % Span(n)
                      IN  Wire(Groups[name], 2 * field.offset + i)
                              = (p \div Span(BytesBelow(order, n, i))) % ByteBase
    BY DEF SpelledInOrder
  <2> DEFINE field == Groups[name].fields[k]  n == ByteCount(field.type)
             v == stored[name][field.name]  p == Held(v, field.type) % Span(n)
             byte == Wire(Groups[name], 2 * field.offset + i)
  <2>1. ValidGroup(Groups[name]) /\ order \in ByteOrder
    BY GroupsValid DEF StoredInv
  <2>2. field.type \in DataType
    BY <2>1, FieldsOfGroup
  <2>3. v \in Int
    BY WholeNames DEF StoredInv, StoredThere
  <2>4. byte = ToBytes(v, field.type, order)[i]
    BY WireBytes
  <2>5. p = Pattern(v, field.type)
    BY DEF Pattern, Held
  <2>6. ToBytes(v, field.type, order) = Reorder(Digits(p, n), order)
    BY <2>1, <2>2, <2>3, <2>5, ToBytesAre DEF Canonical
  <2>7. n \in {2, 4, 8}
    BY <2>2, Widths
  <2> HIDE DEF n, p, byte, v, field
  <2>9. i \in 1..n
    BY DEF n, field
  <2>10. byte = (p \div Span(BytesBelow(order, n, i))) % ByteBase
    BY <2>1, <2>4, <2>6, <2>7, <2>9, OrderSpells
  <2> QED
    BY <2>10 DEF n, p, byte, v, field
<1> QED
  BY <1>1, KnowledgeIsTrue, PTL

-----------------------------------------------------------------------------
(* Requests.                                                               *)

\* A write in progress was made of a complete request for a known group that
\* can be written, and has a cell for every address of it.
WriteIsComplete ==
    \A c \in Callers :
        running[c] # Idle /\ running[c].op = "Write"
        => /\ running[c].group \in DOMAIN Groups
           /\ Groups[running[c].group].kind \in WritableKind
           /\ Complete(running[c].given, Groups[running[c].group].fields)

SignalsInv ==
    /\ DOMAIN running = Callers
    /\ DOMAIN memory = Kind
    /\ WriteIsComplete

\* Every write in progress was made of a complete request for a writable group,
\* whatever was asked for (validate_field_completeness, validate_writable).
THEOREM WritesAreComplete == SignalsSpec => []SignalsInv
<1>1. StoredInv => SignalsInv
  BY DEF StoredInv, MadeOfRequest, MemoryOK, Whole, Writable, SignalsInv, WriteIsComplete
<1> QED
  BY <1>1, KnowledgeIsTrue, PTL

\* The step of a caller whose operation ends is one of these.
LEMMA EndingStep ==
    ASSUME StoredInv, [SignalsNext]_vars, NEW c \in Callers,
           running[c] # Idle, running'[c] = Idle
    PROVE  \/ memory' = memory /\ answer'.status # "written"
           \/ /\ running[c].op = "Write" /\ order' = order
              /\ Takes(Groups[running[c].group], running[c].cells)
              /\ memory' = Written(Groups[running[c].group], running[c].cells)
<1>0. DOMAIN running = Callers
  BY DEF StoredInv
<1>1. ASSUME NEW b \in Callers, NEW request \in WriteRequests,
             RefuseIncomplete(b, request.group, request.data)
      PROVE  FALSE
  BY <1>1 DEF RefuseIncomplete
<1>2. ASSUME NEW b \in Callers, NEW op, running' = [running EXCEPT ![b] = op], running[b] = Idle
      PROVE  FALSE
  <2>1. b # c
    BY <1>2
  <2> QED
    BY <1>0, <1>2, <2>1
<1>3. ASSUME NEW b \in Callers, NEW request \in WriteRequests,
             AdmitWrite(b, request.group, request.data)
      PROVE  FALSE
  BY <1>2, <1>3 DEF AdmitWrite
<1>4. ASSUME NEW b \in Callers, NEW name \in DOMAIN Groups, AdmitRead(b, name)
      PROVE  FALSE
  BY <1>2, <1>4 DEF AdmitRead
<1>5. ASSUME NEW b \in Callers, RefuseInvalid(b) \/ ExecuteRead(b)
      PROVE  memory' = memory /\ answer'.status # "written"
  BY <1>5 DEF RefuseInvalid, ExecuteRead, Finish, Refused
<1>6. ASSUME NEW b \in Callers, ExecuteWrite(b) \/ ExecuteFails(b)
      PROVE  \/ memory' = memory /\ answer'.status # "written"
             \/ /\ running[c].op = "Write" /\ order' = order
                /\ Takes(Groups[running[c].group], running[c].cells)
                /\ memory' = Written(Groups[running[c].group], running[c].cells)
  <2>1. running' = [running EXCEPT ![b] = Idle]
    BY <1>6 DEF ExecuteWrite, ExecuteFails, Finish
  <2>2. b = c
    BY <1>0, <2>1
  <2>3. CASE ExecuteWrite(c)
    BY <2>3 DEF ExecuteWrite
  <2>4. CASE ExecuteFails(c)
    BY <2>4 DEF ExecuteFails, Finish
  <2> QED
    BY <1>6, <2>2, <2>3, <2>4
<1>7. ASSUME NEW change \in DeviceChanges, DeviceStores(change) PROVE FALSE
  BY <1>7 DEF DeviceStores
<1>8. CASE UNCHANGED vars
  BY <1>8 DEF vars
<1> QED
  BY <1>1, <1>3, <1>4, <1>5, <1>6, <1>7, <1>8 DEF SignalsNext

\* No request changes a cell outside its own group, for every configuration of
\* groups, every request and every order in which the threads execute: what is
\* encoded for a group is never longer than the group.
THEOREM RequestsStayInGroup == SignalsSpec => WriteStaysInGroup
<1>1. ASSUME StoredInv, [SignalsNext]_vars, NEW c \in Callers,
             running[c] # Idle, running'[c] = Idle,
             NEW kind \in Kind, NEW a \in Address, memory'[kind][a] # memory[kind][a]
      PROVE  /\ kind \in WritableKind
             /\ running[c].op = "Write"
             /\ kind = Groups[running[c].group].kind
             /\ a \in Extent(Groups[running[c].group])
  <2> DEFINE group == Groups[running[c].group]
  <2>1. /\ running[c].op = "Write"
        /\ Takes(group, running[c].cells)
        /\ memory' = Written(group, running[c].cells)
    BY <1>1, EndingStep
  <2>2. group.kind \in WritableKind
    BY <1>1, <2>1 DEF StoredInv, MadeOfRequest, Whole, Writable
  <2>3. \A k \in Kind, b \in Address :
            k # group.kind \/ b \notin Extent(group) => memory'[k][b] = memory[k][b]
    BY <1>1, <2>1, WrittenCells
  <2> QED
    BY <1>1, <2>1, <2>2, <2>3
<1>2. StoredInv /\ [SignalsNext]_vars =>
        [\A c \in Callers :
            running[c] # Idle /\ running'[c] = Idle
            => \A kind \in Kind, a \in Address :
                  memory'[kind][a] # memory[kind][a]
                  => /\ kind \in WritableKind
                     /\ running[c].op = "Write"
                     /\ kind = Groups[running[c].group].kind
                     /\ a \in Extent(Groups[running[c].group])]_vars
  BY <1>1
<1> QED
  BY <1>2, KnowledgeIsTrue, PTL DEF SignalsSpec, WriteStaysInGroup

\* What a write that has reached the device leaves in the fields of its group.
LEMMA WriteSpells ==
    ASSUME StoredInv, [SignalsNext]_vars, NEW c \in Callers, NEW name \in DOMAIN Groups,
           running[c] # Idle, running[c].op = "Write", running'[c] = Idle,
           running[c].group = name,
           answer'.status = "written" \/ memory' # memory
    PROVE  LET group == Groups[name]
               given == running[c].given
               words == [j \in 1..group.count |-> memory'[group.kind][group.address + j - 1]]
           IN  /\ Names(group.fields) \subseteq DOMAIN given
               /\ Faithful(group) =>
                     \A k \in DOMAIN group.fields :
                        LET field == group.fields[k]
                        IN  Parse(words, group.fields, order)[field.name]
                                = Held(given[field.name], field.type)
<1> DEFINE group == Groups[name]  given == running[c].given
           words == [j \in 1..group.count |-> memory'[group.kind][group.address + j - 1]]
           cells == Cells(group, given, order)
<1>1. Takes(group, running[c].cells) /\ memory' = Written(group, running[c].cells)
  BY EndingStep
<1>2. /\ Whole(group, given)
      /\ \A a \in Extent(group) : memory'[group.kind][a] = cells[a - group.address + 1]
  BY <1>1, WrittenCells
<1>3. ValidGroup(group) /\ group.address \in Nat /\ group.count \in Nat /\ order \in ByteOrder
  BY GroupsValid, FieldsOfGroup DEF StoredInv
<1>4. cells \in [1..group.count -> Cell(group.kind)]
  BY <1>2, <1>3, CellsAre
<1>5. words = cells
  <2> HIDE DEF cells, group
  <2>1. \A j \in 1..group.count : /\ group.address + j - 1 \in Extent(group)
                                  /\ (group.address + j - 1) - group.address + 1 = j
    BY <1>3 DEF Extent
  <2>2. \A j \in 1..group.count : memory'[group.kind][group.address + j - 1] = cells[j]
    BY <1>2, <2>1
  <2> QED
    BY <1>4, <2>2
<1> HIDE DEF words, group, given
<1>6. Names(group.fields) \subseteq DOMAIN given
  BY <1>2, WholeNames
<1>7. ASSUME Faithful(group)
      PROVE  \A k \in DOMAIN group.fields :
                Parse(words, group.fields, order)[group.fields[k].name]
                    = Held(given[group.fields[k].name], group.fields[k].type)
  BY <1>2, <1>3, <1>5, <1>7, GroupComesBack
<1> QED
  BY <1>6, <1>7 DEF words, group, given

\* A write that has reached the device leaves in every field of its group what
\* its caller asked for there, limited to the type of the field, and no field is
\* left out: for every configuration and request, also if the answer is lost.
\* Other groups that share registers with it are not spoken of.
THEOREM FieldsGetWhatWasAsked == SignalsSpec => FieldsAsAsked
<1>1. StoredInv /\ [SignalsNext]_vars =>
        [\A c \in Callers, name \in DOMAIN Groups :
            /\ running[c] # Idle /\ running[c].op = "Write" /\ running'[c] = Idle
            /\ running[c].group = name
            /\ answer'.status = "written" \/ memory' # memory
            => LET group == Groups[name]
                   given == running[c].given
                   words == [j \in 1..group.count |-> memory'[group.kind][group.address + j - 1]]
               IN  /\ Names(group.fields) \subseteq DOMAIN given
                   /\ Faithful(group) =>
                         \A k \in DOMAIN group.fields :
                            LET field == group.fields[k]
                            IN  Parse(words, group.fields, order)[field.name]
                                    = Held(given[field.name], field.type)]_vars
  BY WriteSpells, Zenon
<1> QED
  BY <1>1, KnowledgeIsTrue, PTL DEF SignalsSpec, FieldsAsAsked

-----------------------------------------------------------------------------
(* The simulator of the demos (MockModbus.tla) against the device.         *)

\* The eight coils of a byte come out of it again, each at its place.
LEMMA BitsOfByte ==
    ASSUME NEW b \in [0..7 -> Bit], NEW byte,
           byte = b[0] + 2 * b[1] + 4 * b[2] + 8 * b[3]
                      + 16 * b[4] + 32 * b[5] + 64 * b[6] + 128 * b[7]
    PROVE  \A bit \in 0..7 : (byte \div Weight[bit + 1]) % 2 = b[bit]
<1>1. /\ b[0] \in 0..1 /\ b[1] \in 0..1 /\ b[2] \in 0..1 /\ b[3] \in 0..1
      /\ b[4] \in 0..1 /\ b[5] \in 0..1 /\ b[6] \in 0..1 /\ b[7] \in 0..1
  BY DEF Bit
<1>p0. PICK b0 \in 0..1 : b0 = b[0]
  BY ONLY <1>1, Zenon
<1>p1. PICK b1 \in 0..1 : b1 = b[1]
  BY ONLY <1>1, Zenon
<1>p2. PICK b2 \in 0..1 : b2 = b[2]
  BY ONLY <1>1, Zenon
<1>p3. PICK b3 \in 0..1 : b3 = b[3]
  BY ONLY <1>1, Zenon
<1>p4. PICK b4 \in 0..1 : b4 = b[4]
  BY ONLY <1>1, Zenon
<1>p5. PICK b5 \in 0..1 : b5 = b[5]
  BY ONLY <1>1, Zenon
<1>p6. PICK b6 \in 0..1 : b6 = b[6]
  BY ONLY <1>1, Zenon
<1>p7. PICK b7 \in 0..1 : b7 = b[7]
  BY ONLY <1>1, Zenon
<1>2. byte = b0 + 2 * b1 + 4 * b2 + 8 * b3 + 16 * b4 + 32 * b5 + 64 * b6 + 128 * b7
  BY ONLY <1>p0, <1>p1, <1>p2, <1>p3, <1>p4, <1>p5, <1>p6, <1>p7,
     byte = b[0] + 2 * b[1] + 4 * b[2] + 8 * b[3]
                + 16 * b[4] + 32 * b[5] + 64 * b[6] + 128 * b[7], Zenon
<1>3. /\ byte \div 1 = byte
      /\ byte \div 2 = b1 + 2 * b2 + 4 * b3 + 8 * b4 + 16 * b5 + 32 * b6 + 64 * b7
      /\ byte \div 4 = b2 + 2 * b3 + 4 * b4 + 8 * b5 + 16 * b6 + 32 * b7
      /\ byte \div 8 = b3 + 2 * b4 + 4 * b5 + 8 * b6 + 16 * b7
      /\ byte \div 16 = b4 + 2 * b5 + 4 * b6 + 8 * b7
      /\ byte \div 32 = b5 + 2 * b6 + 4 * b7
      /\ byte \div 64 = b6 + 2 * b7
      /\ byte \div 128 = b7
  BY ONLY <1>2
<1>4. /\ (byte \div 1) % 2 = b0
      /\ (byte \div 2) % 2 = b1
      /\ (byte \div 4) % 2 = b2
      /\ (byte \div 8) % 2 = b3
      /\ (byte \div 16) % 2 = b4
      /\ (byte \div 32) % 2 = b5
      /\ (byte \div 64) % 2 = b6
      /\ (byte \div 128) % 2 = b7
  BY ONLY <1>2, <1>3
<1>5. /\ Weight[1] = 1 /\ Weight[2] = 2 /\ Weight[3] = 4 /\ Weight[4] = 8
      /\ Weight[5] = 16 /\ Weight[6] = 32 /\ Weight[7] = 64 /\ Weight[8] = 128
  BY DEF Weight
<1>6. ASSUME NEW bit \in 0..7
      PROVE  (byte \div Weight[bit + 1]) % 2 = b[bit]
  <2>1. CASE bit = 0
    BY ONLY <1>p0, <1>4, <1>5, <2>1
  <2>2. CASE bit = 1
    BY ONLY <1>p1, <1>4, <1>5, <2>2
  <2>3. CASE bit = 2
    BY ONLY <1>p2, <1>4, <1>5, <2>3
  <2>4. CASE bit = 3
    BY ONLY <1>p3, <1>4, <1>5, <2>4
  <2>5. CASE bit = 4
    BY ONLY <1>p4, <1>4, <1>5, <2>5
  <2>6. CASE bit = 5
    BY ONLY <1>p5, <1>4, <1>5, <2>6
  <2>7. CASE bit = 6
    BY ONLY <1>p6, <1>4, <1>5, <2>7
  <2>8. CASE bit = 7
    BY ONLY <1>p7, <1>4, <1>5, <2>8
  <2> QED
    BY ONLY <2>1, <2>2, <2>3, <2>4, <2>5, <2>6, <2>7, <2>8, bit \in 0..7
<1> QED
  BY <1>6

LEMMA PackedBits ==
    ASSUME NEW table, NEW start, NEW count, NEW byte \in Nat
    PROVE  \A bit \in 0..7 :
              (Mock!Packed(table, start, count, byte) \div Weight[bit + 1]) % 2
                  = Mock!CoilAt(table, start, count, 8 * byte + bit)
<1> DEFINE b == [i \in 0..7 |-> Mock!CoilAt(table, start, count, 8 * byte + i)]
<1>1. b \in [0..7 -> Bit]
  BY DEF Mock!CoilAt, Bit
<1>2. Mock!Packed(table, start, count, byte)
          = b[0] + 2 * b[1] + 4 * b[2] + 8 * b[3]
                + 16 * b[4] + 32 * b[5] + 64 * b[6] + 128 * b[7]
  BY DEF Mock!Packed
<1>3. \A bit \in 0..7 : b[bit] = Mock!CoilAt(table, start, count, 8 * byte + bit)
  OBVIOUS
<1> HIDE DEF b
<1>4. \A bit \in 0..7 :
          (Mock!Packed(table, start, count, byte) \div Weight[bit + 1]) % 2 = b[bit]
  BY ONLY <1>1, <1>2, BitsOfByte, Zenon
<1> QED
  BY ONLY <1>3, <1>4, Zenon

LEMMA UnpackedCoils ==
    ASSUME NEW table, NEW start, NEW count \in Nat
    PROVE  Unpacked([k \in 1..((count + 7) \div 8) |->
                        Mock!Packed(table, start, count, k - 1)], count)
               = [j \in 1..count |-> Mock!CoilAt(table, start, count, j - 1)]
<1> DEFINE bytes == [k \in 1..((count + 7) \div 8) |->
                        Mock!Packed(table, start, count, k - 1)]
<1>1. ASSUME NEW j \in 1..count
      PROVE  (bytes[((j - 1) \div 8) + 1] \div Weight[((j - 1) % 8) + 1]) % 2
                 = Mock!CoilAt(table, start, count, j - 1)
  <2> DEFINE byte == (j - 1) \div 8   bit == (j - 1) % 8
  <2>1. /\ byte \in Nat /\ bit \in 0..7
        /\ byte + 1 \in 1..((count + 7) \div 8)
        /\ 8 * byte + bit = j - 1
        /\ byte + 1 - 1 = byte
    OBVIOUS
  <2>2. bytes[byte + 1] = Mock!Packed(table, start, count, byte)
    <3>1. PICK k \in 1..((count + 7) \div 8) : k = byte + 1
      BY <2>1
    <3>2. bytes[k] = Mock!Packed(table, start, count, k - 1)
      BY Zenon
    <3>3. k - 1 = byte
      BY <2>1, <3>1
    <3> QED
      BY <3>1, <3>2, <3>3, Zenon
  <2>3. (Mock!Packed(table, start, count, byte) \div Weight[bit + 1]) % 2
            = Mock!CoilAt(table, start, count, 8 * byte + bit)
    BY <2>1, PackedBits
  <2> QED
    BY <2>1, <2>2, <2>3, Zenon
<1> QED
  BY <1>1, Zenon DEF Unpacked

-----------------------------------------------------------------------------
\* Which handler a request comes to, and with which table.
LEMMA HandlerOf ==
    ASSUME NEW request, NEW tables
    PROVE  LET table == tables[Mock!TableOf(request.code)]
               written(changed) ==
                   [response |-> Mock!Echo(request),
                    tables |-> [tables EXCEPT ![Mock!TableOf(request.code)] = changed]]
           IN  /\ request.code \in {3, 4} =>
                     Mock!Process(request, tables)
                         = [response |-> Mock!ReadRegisters(table, request), tables |-> tables]
               /\ request.code \in {1, 2} =>
                     Mock!Process(request, tables)
                         = [response |-> Mock!ReadBits(table, request), tables |-> tables]
               /\ request.code \in {5, 6} /\ ~ (request.size < 4) =>
                     Mock!Process(request, tables) = written(Mock!WriteSingle(table, request))
               /\ request.code = 15 =>
                     Mock!Process(request, tables)
                         = [response |-> Mock!Exception(15, Mock!IllegalFunction), tables |-> tables]
  BY DEF Mock!Process, Mock!ReadCoils, Mock!ReadDiscreteInputs,
     Mock!ReadHoldingRegisters, Mock!ReadInputRegisters, Mock!WriteSingleCoil,
     Mock!WriteSingleRegister, Mock!WriteMultipleRegisters

LEMMA SeveralHandled ==
    ASSUME NEW request, NEW tables, NEW table,
           request.code = Mock!WriteMultipleRegisters, Mock!WellFormed(request),
           tables["holding_registers"] = table
    PROVE  Mock!Process(request, tables)
               = [response |-> Mock!Echo(request),
                  tables |-> [tables EXCEPT !["holding_registers"] =
                                 Mock!WriteMultiple(table, request)]]
<1>1. Mock!TableOf(request.code) = "holding_registers"
  BY DEF Mock!TableOf, Mock!ReadCoils, Mock!ReadDiscreteInputs,
     Mock!ReadInputRegisters, Mock!WriteSingleCoil, Mock!WriteMultipleRegisters
<1> QED
  BY <1>1 DEF Mock!Process, Mock!ReadCoils, Mock!ReadDiscreteInputs,
     Mock!ReadHoldingRegisters, Mock!ReadInputRegisters, Mock!WriteSingleCoil,
     Mock!WriteSingleRegister, Mock!WriteMultipleRegisters

LEMMA TableOfCode ==
    /\ Mock!TableOf(1) = "coils"
    /\ Mock!TableOf(2) = "discrete_inputs"
    /\ Mock!TableOf(3) = "holding_registers"
    /\ Mock!TableOf(4) = "input_registers"
    /\ Mock!TableOf(5) = "coils"
    /\ Mock!TableOf(6) = "holding_registers"
    /\ Mock!TableOf(16) = "holding_registers"
  BY DEF Mock!TableOf, Mock!ReadCoils, Mock!ReadDiscreteInputs,
     Mock!ReadHoldingRegisters, Mock!ReadInputRegisters, Mock!WriteSingleCoil

-----------------------------------------------------------------------------
\* The cells of kind from start on as the device of the model holds them,
\* zeros beyond its last one.
CellsFrom(kind, start, count) ==
    [j \in 1..count |-> IF start + j - 1 \in Address THEN memory[kind][start + j - 1] ELSE 0]

LEMMA ReadAnswered ==
    ASSUME SignalsTypeOK, NEW kind \in Kind, NEW start \in Nat, NEW count \in Nat,
           start + count <= Mock!Addresses, Readable(kind, count)
    PROVE  AnswersWith(Asking(ReadRequest(kind, start, count), Simulated(memory)).response,
                       kind, CellsFrom(kind, start, count))
<1> DEFINE request == ReadRequest(kind, start, count)
           tables == Simulated(memory)
           cells == CellsFrom(kind, start, count)
           response == Asking(request, tables).response
<1>1. Len(cells) = count
  BY DEF CellsFrom
<1>2. \A j \in 1..count : Mock!Nth(start, j - 1) = start + j - 1
  BY DEF Mock!Nth, Mock!Addresses
<1>3. Asking(request, tables) = Mock!Process(request, tables)
  BY DEF Asking, Mock!Serve, Mock!MaxData, ReadRequest
<1>4. CASE kind \in BitKind
  <2> DEFINE table == [a \in Address |-> memory[kind][a] = 1]
             bytes == [k \in 1..((count + 7) \div 8) |->
                          Mock!Packed(table, start, count, k - 1)]
  <2>1. response = Mock!ReadBits(table, request)
    <3>1. tables[Mock!TableOf(request.code)] = table /\ request.code \in {1, 2}
      <4>1. CASE kind = "Coil"
        BY <4>1, TableOfCode DEF ReadRequest, ReadCode, Simulated, Mock!ReadCoils
      <4>2. CASE kind = "Discrete"
        BY <4>2, TableOfCode DEF ReadRequest, ReadCode, Simulated, Mock!ReadDiscreteInputs
      <4> QED
        BY <1>4, <4>1, <4>2 DEF BitKind
    <3> HIDE DEF table, request, tables
    <3>2. Mock!Process(request, tables)
              = [response |-> Mock!ReadBits(table, request), tables |-> tables]
      BY <3>1, HandlerOf, Zenon
    <3> QED
      BY <1>3, <3>2
  <2>2. /\ response.byte_count = ((count + 7) \div 8) % 256
        /\ response.bytes = bytes
    <3> HIDE DEF response
    <3> QED
    BY <2>1 DEF Mock!ReadBits, ReadRequest
  <2>3. /\ (count + 7) \div 8 \in Nat
        /\ (count + 7) \div 8 < 256
        /\ ((count + 7) \div 8) % 256 = (count + 7) \div 8
    BY <1>4 DEF Readable
  <2>4. response.byte_count = Len(response.bytes)
    BY <2>2, <2>3
  <2>5. Unpacked(response.bytes, count)
            = [j \in 1..count |-> Mock!CoilAt(table, start, count, j - 1)]
    <3>1. Unpacked(bytes, count)
              = [j \in 1..count |-> Mock!CoilAt(table, start, count, j - 1)]
      BY UnpackedCoils, Zenon
    <3> HIDE DEF response, table, bytes
    <3> QED
      BY <2>2, <3>1, Zenon
  <2>6. ASSUME NEW j \in 1..count
        PROVE  Mock!CoilAt(table, start, count, j - 1) = cells[j]
    <3> DEFINE a == start + j - 1
    <3>1. Mock!CoilAt(table, start, count, j - 1)
              = IF Mock!Lookup(table, a, FALSE) THEN 1 ELSE 0
      <4> HIDE DEF table
      <4>1. j - 1 < count /\ Mock!Nth(start, j - 1) = a
        BY <1>2
      <4> QED
        BY <4>1, Zenon DEF Mock!CoilAt
    <3>2. cells[j] = IF a \in Address THEN memory[kind][a] ELSE 0
      BY DEF CellsFrom
    <3>3. CASE a \in Address
      <4>1. memory[kind][a] \in Bit
        BY <1>4, <3>3 DEF SignalsTypeOK, Cell, BitKind
      <4>2. Mock!Lookup(table, a, FALSE) = (memory[kind][a] = 1)
        BY <3>3 DEF Mock!Lookup
      <4> QED
        BY <3>1, <3>2, <3>3, <4>1, <4>2 DEF Bit
    <3>4. CASE a \notin Address
      <4>1. Mock!Lookup(table, a, FALSE) = FALSE
        BY <3>4 DEF Mock!Lookup
      <4> QED
        BY <3>1, <3>2, <3>4, <4>1
    <3> QED
      BY <3>3, <3>4
  <2>7. Unpacked(response.bytes, count) = cells
    BY <2>5, <2>6 DEF CellsFrom
  <2> QED
    BY <1>1, <1>4, <2>4, <2>7 DEF AnswersWith
<1>5. CASE kind \notin BitKind
  <2> DEFINE table == memory[kind]
  <2>1. response = Mock!ReadRegisters(table, request)
    <3>1. tables[Mock!TableOf(request.code)] = table /\ request.code \in {3, 4}
      <4>1. CASE kind = "Input"
        BY <4>1, TableOfCode DEF ReadRequest, ReadCode, Simulated, Mock!ReadInputRegisters
      <4>2. CASE kind = "Holding"
        BY <4>2, TableOfCode DEF ReadRequest, ReadCode, Simulated, Mock!ReadHoldingRegisters
      <4> QED
        BY <1>5, <4>1, <4>2 DEF BitKind, Kind
    <3> HIDE DEF table, request, tables
    <3>2. Mock!Process(request, tables)
              = [response |-> Mock!ReadRegisters(table, request), tables |-> tables]
      BY <3>1, HandlerOf, Zenon
    <3> QED
      BY <1>3, <3>2
  <2>2. count <= Mock!MaxRegisters
    BY <1>5 DEF Readable
  <2>3. /\ response.byte_count = 2 * count
        /\ response.words = [j \in 1..count |-> Mock!Lookup(table, Mock!Nth(start, j - 1), 0)]
    BY <2>1, <2>2 DEF Mock!ReadRegisters, ReadRequest, Mock!MaxRegisters
  <2>4. ASSUME NEW j \in 1..count
        PROVE  Mock!Lookup(table, Mock!Nth(start, j - 1), 0) = cells[j]
    <3>1. DOMAIN table = Address
      BY DEF SignalsTypeOK
    <3> QED
      BY <1>2, <3>1 DEF Mock!Lookup, CellsFrom
  <2>5. response.words = cells
    BY <2>3, <2>4 DEF CellsFrom
  <2> QED
    BY <1>1, <1>5, <2>3, <2>5 DEF AnswersWith
<1> QED
  BY <1>4, <1>5

-----------------------------------------------------------------------------
\* A table after a write: the new cells in the extent of the group, the old
\* ones elsewhere.
LEMMA AddressesOfModbus == MaxAddress \in Nat /\ MaxAddress < Mock!Addresses
<1>1. MaxAddress \in Nat
  BY SignalsAssumption
<1> QED
  BY <1>1, SimulatorAssumption, Zenon

LEMMA TableAfterWrite ==
    ASSUME MemoryOK, NEW group, NEW cells, group.kind \in Kind,
           group.address \in Nat, group.count \in Nat, DOMAIN cells = 1..group.count
    PROVE  /\ Written(group, cells)[group.kind] = [a \in Address |->
                 IF a \in Extent(group) THEN cells[a - group.address + 1]
                                        ELSE memory[group.kind][a]]
           /\ \A kind \in Kind : kind # group.kind =>
                 Written(group, cells)[kind] = memory[kind]
<1>1. DOMAIN memory = Kind
  BY DEF MemoryOK
<1>2. Reached(group, cells) = Extent(group)
  BY ReachedIsExtent
<1> QED
  BY <1>1, <1>2 DEF Written

\* A change of one table leaves the other three.
LEMMA CoilsReplaced ==
    ASSUME NEW coils, NEW discrete, NEW input, NEW holding, NEW new, NEW tables,
           tables = [coils |-> coils, discrete_inputs |-> discrete,
                     input_registers |-> input, holding_registers |-> holding]
    PROVE  [tables EXCEPT !["coils"] = new]
               = [coils |-> new, discrete_inputs |-> discrete,
                  input_registers |-> input, holding_registers |-> holding]
<1> DEFINE names == {"coils", "discrete_inputs", "input_registers", "holding_registers"}
           changed == [x \in names |-> IF x = "coils" THEN new ELSE tables[x]]
<1>1. DOMAIN tables = names /\ tables = [x \in names |-> tables[x]]
  OBVIOUS
<1>2. [tables EXCEPT !["coils"] = new] = changed
  BY ONLY <1>1
<1>3. [coils |-> new, discrete_inputs |-> discrete,
       input_registers |-> input, holding_registers |-> holding] = changed
  OBVIOUS
<1> QED
  BY <1>2, <1>3

LEMMA HoldingReplaced ==
    ASSUME NEW coils, NEW discrete, NEW input, NEW holding, NEW new, NEW tables,
           tables = [coils |-> coils, discrete_inputs |-> discrete,
                     input_registers |-> input, holding_registers |-> holding]
    PROVE  [tables EXCEPT !["holding_registers"] = new]
               = [coils |-> coils, discrete_inputs |-> discrete,
                  input_registers |-> input, holding_registers |-> new]
<1> DEFINE names == {"coils", "discrete_inputs", "input_registers", "holding_registers"}
           changed == [x \in names |-> IF x = "holding_registers" THEN new ELSE tables[x]]
<1>1. DOMAIN tables = names /\ tables = [x \in names |-> tables[x]]
  OBVIOUS
<1>2. [tables EXCEPT !["holding_registers"] = new] = changed
  BY ONLY <1>1
<1>3. [coils |-> coils, discrete_inputs |-> discrete,
       input_registers |-> input, holding_registers |-> new] = changed
  OBVIOUS
<1> QED
  BY <1>2, <1>3

LEMMA SimulatedAfterWrite ==
    ASSUME MemoryOK, NEW group, NEW cells, group.kind \in WritableKind
    PROVE  LET after == Written(group, cells) IN
           /\ group.kind = "Coil" => Simulated(after) =
                 [Simulated(memory) EXCEPT !["coils"] =
                     [a \in Address |-> after["Coil"][a] = 1]]
           /\ group.kind = "Holding" => Simulated(after) =
                 [Simulated(memory) EXCEPT !["holding_registers"] = after["Holding"]]
<1> DEFINE after == Written(group, cells)
<1>1. group.kind \in Kind
  BY DEF WritableKind, Kind
<1>2. \A kind \in Kind : kind # group.kind => after[kind] = memory[kind]
  <2> SUFFICES ASSUME NEW kind \in Kind, kind # group.kind
               PROVE  after[kind] = memory[kind]
    OBVIOUS
  <2> QED
    BY ONLY MemoryOK, kind \in Kind, kind # group.kind, group.kind \in Kind DEF Written, MemoryOK
<1> HIDE DEF after
<1>3. CASE group.kind = "Coil"
  <2>1. /\ after["Discrete"] = memory["Discrete"]
        /\ after["Input"] = memory["Input"]
        /\ after["Holding"] = memory["Holding"]
    BY <1>2, <1>3 DEF Kind
  <2>2. Simulated(after) = [Simulated(memory) EXCEPT !["coils"] =
                                [a \in Address |-> after["Coil"][a] = 1]]
    <3> DEFINE coils == [a \in Address |-> memory["Coil"][a] = 1]
               discrete == [a \in Address |-> memory["Discrete"][a] = 1]
               input == memory["Input"]
               holding == memory["Holding"]
               new == [a \in Address |-> after["Coil"][a] = 1]
    <3>1. Simulated(memory) = [coils |-> coils, discrete_inputs |-> discrete,
                               input_registers |-> input, holding_registers |-> holding]
      BY DEF Simulated
    <3>2. Simulated(after) = [coils |-> new, discrete_inputs |-> discrete,
                              input_registers |-> input, holding_registers |-> holding]
      BY <2>1 DEF Simulated
    <3> HIDE DEF coils, discrete, input, holding, new
    <3>3. Simulated(after) = [Simulated(memory) EXCEPT !["coils"] = new]
      BY ONLY <3>1, <3>2, CoilsReplaced
    <3> QED
      BY <3>3 DEF new
  <2> QED
    BY <1>3, <2>2, Zenon DEF after
<1>4. CASE group.kind = "Holding"
  <2>1. /\ after["Discrete"] = memory["Discrete"]
        /\ after["Input"] = memory["Input"]
        /\ after["Coil"] = memory["Coil"]
    BY <1>2, <1>4 DEF Kind
  <2>2. Simulated(after) = [Simulated(memory) EXCEPT !["holding_registers"] = after["Holding"]]
    <3> DEFINE coils == [a \in Address |-> memory["Coil"][a] = 1]
               discrete == [a \in Address |-> memory["Discrete"][a] = 1]
               input == memory["Input"]
               holding == memory["Holding"]
               new == after["Holding"]
    <3>1. Simulated(memory) = [coils |-> coils, discrete_inputs |-> discrete,
                               input_registers |-> input, holding_registers |-> holding]
      BY DEF Simulated
    <3>2. Simulated(after) = [coils |-> coils, discrete_inputs |-> discrete,
                              input_registers |-> input, holding_registers |-> new]
      BY <2>1 DEF Simulated
    <3> HIDE DEF coils, discrete, input, holding, new
    <3>3. Simulated(after) = [Simulated(memory) EXCEPT !["holding_registers"] = new]
      BY ONLY <3>1, <3>2, HoldingReplaced
    <3> QED
      BY <3>3 DEF new
  <2> QED
    BY <1>4, <2>2, Zenon DEF after
<1> QED
  BY <1>3, <1>4, Zenon DEF WritableKind, after

\* The addresses a group on the device occupies.
LEMMA ExtentOnDevice ==
    ASSUME NEW group, group.address \in Nat, group.count \in Nat, OnDevice(group)
    PROVE  /\ group.count > 0
           /\ group.address + group.count <= Mock!Addresses
           /\ Extent(group) = group.address..(group.address + group.count - 1)
           /\ \A a \in Extent(group) : a \in Address
           /\ \A j \in 1..group.count : group.address + j - 1 \in Address
<1>0. MaxAddress \in Nat /\ MaxAddress < Mock!Addresses
  BY AddressesOfModbus
<1>1. PICK first \in Nat : first = group.address
  OBVIOUS
<1>2. PICK n \in Nat : n = group.count
  OBVIOUS
<1>3. n > 0 /\ first..(first + n - 1) \subseteq 0..MaxAddress
  BY <1>1, <1>2 DEF OnDevice, Extent, Address
<1>4. first + n - 1 \in 0..MaxAddress
  BY <1>3
<1>5. first + n <= Mock!Addresses /\ \A j \in 1..n : first + j - 1 \in 0..MaxAddress
  BY <1>0, <1>4 DEF Mock!Addresses
<1> QED
  BY <1>1, <1>2, <1>3, <1>5 DEF Extent, Address

\* Registers in a row are what they are called in the frame: nothing wraps.
LEMMA AddressesInOrder ==
    ASSUME NEW first \in Nat, NEW n \in Nat \ {0}, first + n <= Mock!Addresses
    PROVE  /\ {Mock!Nth(first, i) : i \in 0..(n - 1)} = first..(first + n - 1)
           /\ \A a \in first..(first + n - 1) : (a - first) % Mock!Addresses = a - first
<1>1. \A i \in 0..(n - 1) : Mock!Nth(first, i) = first + i
  BY DEF Mock!Nth, Mock!Addresses
<1>2. \A a \in first..(first + n - 1) :
          a - first \in 0..(n - 1) /\ Mock!Nth(first, a - first) = a
  BY <1>1
<1>3. \A i \in 0..(n - 1) : Mock!Nth(first, i) \in first..(first + n - 1)
  BY <1>1
<1>4. {Mock!Nth(first, i) : i \in 0..(n - 1)} = first..(first + n - 1)
  BY ONLY <1>2, <1>3, Zenon
<1>5. \A a \in first..(first + n - 1) : (a - first) % Mock!Addresses = a - first
  BY DEF Mock!Addresses
<1> QED
  BY <1>4, <1>5

\* A frame of a request that is not too long comes to its handler.
LEMMA FrameServed ==
    ASSUME NEW request, NEW tables, request.size \in Nat, InOneFrame(request)
    PROVE  Asking(request, tables) = Mock!Process(request, tables)
<1> DEFINE frame == [protocol |-> 0, length |-> request.size + 2, request |-> request]
<1>1. /\ frame.protocol = 0 /\ frame.request = request
      /\ frame.length - 1 \in 1..Mock!MaxData
  BY DEF InOneFrame, Mock!MaxData
<1> HIDE DEF frame
<1> QED
  BY <1>1 DEF Asking, Mock!Serve, frame

\* What becomes of a write of the first n cells of a group.
Served(group, cells, n) ==
    LET request == WriteRequest(group, cells, n)
        result == Asking(request, Simulated(memory))
    IN  IF request.code = WriteMultipleCoils
        THEN /\ result.tables = Simulated(memory)
             /\ result.response = Mock!Exception(request.code, Mock!IllegalFunction)
        ELSE /\ result.tables = Simulated(Written(group, cells))
             /\ result.response = Mock!Echo(request)

LEMMA WriteDone ==
    ASSUME MemoryOK, NEW group, NEW n \in Nat \ {0}, NEW cells, DOMAIN cells = 1..n,
           group.kind \in WritableKind, group.address \in Nat, group.count = n,
           OnDevice(group), InOneFrame(WriteRequest(group, cells, n))
    PROVE  Served(group, cells, n)
<1> USE DEF Served
<1> DEFINE request == WriteRequest(group, cells, n)
           tables == Simulated(memory)
           result == Asking(request, tables)
<1>0. PICK first \in Nat : first = group.address
  OBVIOUS
<1>1. /\ first + n <= Mock!Addresses
      /\ Extent(group) = first..(first + n - 1)
      /\ \A a \in Extent(group) : a \in Address
  BY <1>0, ExtentOnDevice
<1>2. ASSUME request.size \in Nat
      PROVE  result = Mock!Process(request, tables)
  <2> HIDE DEF request, tables
  <2> QED
    BY <1>2, FrameServed DEF request
<1>kind. /\ group.kind \in Kind
         /\ group.address \in Nat /\ group.count \in Nat /\ DOMAIN cells = 1..group.count
  BY DEF WritableKind, Kind
<1>table. Written(group, cells)[group.kind] = [a \in Address |->
                IF a \in Extent(group) THEN cells[a - group.address + 1]
                                       ELSE memory[group.kind][a]]
  BY ONLY MemoryOK, <1>kind, TableAfterWrite, Zenon
<1>domain. DOMAIN memory["Holding"] = Address /\ DOMAIN memory["Coil"] = Address
  BY DEF MemoryOK, Kind
<1>3. CASE n > 1 /\ group.kind = "Coil"
  <2>1. request.code = 15 /\ request.size \in Nat
    BY <1>3 DEF WriteRequest, WriteMultipleCoils
  <2> HIDE DEF request, tables
  <2>2. result = [response |-> Mock!Exception(15, Mock!IllegalFunction), tables |-> tables]
    BY <1>2, <2>1, HandlerOf, Zenon
  <2> QED
    BY <2>1, <2>2 DEF WriteMultipleCoils, request, tables
<1>4. CASE n > 1 /\ group.kind = "Holding"
  <2> DEFINE table == memory["Holding"]
  <2>1. /\ request.code = 16 /\ request.size = 5 + 2 * n
        /\ request.start = group.address /\ request.count = n
        /\ request.byte_count = 2 * n /\ request.words = cells
    BY <1>4 DEF WriteRequest, Mock!WriteMultipleRegisters
  <2>3. Mock!WellFormed(request)
    BY <2>1 DEF Mock!WellFormed
  <2>4. Mock!WriteMultiple(table, request) = Written(group, cells)["Holding"]
    <3>2. {Mock!Nth(group.address, i) : i \in 0..(n - 1)} = Extent(group)
      BY ONLY <1>0, <1>1, AddressesInOrder, n \in Nat \ {0}, Zenon
    <3>3. \A a \in Extent(group) : (a - group.address) % Mock!Addresses = a - group.address
      BY ONLY <1>0, <1>1, AddressesInOrder, n \in Nat \ {0}, Zenon
    <3> DEFINE entries == [a \in Extent(group) |-> cells[a - group.address + 1]]
    <3>4. Mock!WriteMultiple(table, request) = Mock!Inserted(table, entries)
      BY <2>1, <3>2, <3>3 DEF Mock!WriteMultiple
    <3>5. DOMAIN table \cup DOMAIN entries = Address
      BY <1>1, <1>domain
    <3>6. Mock!Inserted(table, entries) = [a \in Address |->
              IF a \in Extent(group) THEN cells[a - group.address + 1] ELSE table[a]]
      BY <3>5 DEF Mock!Inserted
    <3> QED
      BY <1>4, <1>table, <3>4, <3>6
  <2>5. result = [response |-> Mock!Echo(request),
                  tables |-> [tables EXCEPT !["holding_registers"] =
                                 Mock!WriteMultiple(table, request)]]
    <3>0. request.code = Mock!WriteMultipleRegisters /\ request.size \in Nat
      BY <2>1 DEF Mock!WriteMultipleRegisters
    <3>1. tables["holding_registers"] = table
      BY DEF Simulated
    <3> HIDE DEF request, tables, table, result
    <3> QED
      BY <1>2, <2>3, <3>0, <3>1, SeveralHandled, Zenon
  <2> QED
    BY <1>4, <2>1, <2>4, <2>5, SimulatedAfterWrite DEF WriteMultipleCoils
<1>5. CASE n = 1 /\ group.kind = "Coil"
  <2> DEFINE table == [a \in Address |-> memory["Coil"][a] = 1]
  <2>1. /\ request.code = 5 /\ request.size = 4
        /\ request.start = group.address
        /\ (request.count = Mock!CoilOn) = (cells[1] = 1)
    BY <1>5 DEF WriteRequest, Mock!WriteSingleCoil, Mock!CoilOn
  <2>2. tables[Mock!TableOf(request.code)] = table
    BY <2>1, TableOfCode DEF Simulated
  <2>4. Mock!WriteSingle(table, request)
            = [a \in Address |-> Written(group, cells)["Coil"][a] = 1]
    <3> DEFINE entries == [a \in {group.address} |-> cells[1] = 1]
    <3>1. Mock!WriteSingle(table, request) = Mock!Inserted(table, entries)
      BY <2>1 DEF Mock!WriteSingle, Mock!WriteSingleCoil
    <3>2. DOMAIN table \cup DOMAIN entries = Address
      BY <1>0, <1>1, <1>5
    <3>3. Mock!Inserted(table, entries) = [a \in Address |->
              IF a = group.address THEN cells[1] = 1 ELSE memory["Coil"][a] = 1]
      BY <3>2 DEF Mock!Inserted
    <3>4. \A a \in Address : Written(group, cells)["Coil"][a]
              = IF a = group.address THEN cells[1] ELSE memory["Coil"][a]
      <4>1. \A a : a \in Extent(group) <=> a = first
        BY <1>1, <1>5
      <4>2. first - first + 1 = 1
        OBVIOUS
      <4>3. Written(group, cells)["Coil"] = [a \in Address |->
                 IF a \in Extent(group) THEN cells[a - group.address + 1] ELSE memory["Coil"][a]]
        BY <1>5, <1>table, Zenon
      <4> QED
        BY <1>0, <4>1, <4>2, <4>3
    <3> QED
      BY <3>1, <3>3, <3>4
  <2>5. result = [response |-> Mock!Echo(request),
                  tables |-> [tables EXCEPT !["coils"] = Mock!WriteSingle(table, request)]]
    <3>0. ~ (request.size < 4) /\ request.size \in Nat /\ request.code \in {5, 6}
      BY <2>1
    <3>1. Mock!TableOf(request.code) = "coils"
      BY <2>1, TableOfCode
    <3> HIDE DEF request, tables, table, result
    <3> QED
      BY <1>2, <2>2, <3>0, <3>1, HandlerOf, Zenon
  <2> QED
    BY <1>5, <2>1, <2>4, <2>5, SimulatedAfterWrite DEF WriteMultipleCoils
<1>6. CASE n = 1 /\ group.kind = "Holding"
  <2> DEFINE table == memory["Holding"]
  <2>1. /\ request.code = 6 /\ request.size = 4
        /\ request.start = group.address
        /\ request.count = cells[1]
    BY <1>6 DEF WriteRequest, Mock!WriteSingleRegister
  <2>2. tables[Mock!TableOf(request.code)] = table
    BY <2>1, TableOfCode DEF Simulated
  <2>4. Mock!WriteSingle(table, request) = Written(group, cells)["Holding"]
    <3> DEFINE entries == [a \in {group.address} |-> cells[1]]
    <3>1. Mock!WriteSingle(table, request) = Mock!Inserted(table, entries)
      BY <2>1 DEF Mock!WriteSingle, Mock!WriteSingleCoil
    <3>2. DOMAIN table \cup DOMAIN entries = Address
      BY <1>0, <1>1, <1>domain, <1>6
    <3>3. Mock!Inserted(table, entries) = [a \in Address |->
              IF a = group.address THEN cells[1] ELSE table[a]]
      BY <3>2 DEF Mock!Inserted
    <3>4. Written(group, cells)["Holding"] = [a \in Address |->
              IF a = group.address THEN cells[1] ELSE table[a]]
      <4>1. \A a : a \in Extent(group) <=> a = first
        BY <1>1, <1>6
      <4>2. first - first + 1 = 1
        OBVIOUS
      <4>3. Written(group, cells)["Holding"] = [a \in Address |->
                 IF a \in Extent(group) THEN cells[a - group.address + 1] ELSE memory["Holding"][a]]
        BY <1>6, <1>table, Zenon
      <4> QED
        BY <1>0, <4>1, <4>2, <4>3
    <3> QED
      BY <3>1, <3>3, <3>4
  <2>5. result = [response |-> Mock!Echo(request),
                  tables |-> [tables EXCEPT !["holding_registers"] =
                                 Mock!WriteSingle(table, request)]]
    <3>0. ~ (request.size < 4) /\ request.size \in Nat /\ request.code \in {5, 6}
      BY <2>1
    <3>1. Mock!TableOf(request.code) = "holding_registers"
      BY <2>1, TableOfCode
    <3> HIDE DEF request, tables, table, result
    <3> QED
      BY <1>2, <2>2, <3>0, <3>1, HandlerOf, Zenon
  <2> QED
    BY <1>6, <2>1, <2>4, <2>5, SimulatedAfterWrite DEF WriteMultipleCoils
<1> QED
  BY <1>3, <1>4, <1>5, <1>6 DEF WritableKind

LEMMA SimulatorStep == SignalsTypeOK /\ MemoryOK => SimulatorIsADevice
<1> SUFFICES ASSUME SignalsTypeOK, MemoryOK PROVE SimulatorIsADevice
  OBVIOUS
<1> DEFINE tables == Simulated(memory)
<1>1. ASSUME NEW kind \in Kind, Readable(kind, MaxAddress + 4)
      PROVE  LET count == MaxAddress + 4 IN
             AnswersWith(Asking(ReadRequest(kind, 1, count), tables).response, kind,
                [j \in 1..count |-> IF j \in Address THEN memory[kind][j] ELSE 0])
  <2> DEFINE count == MaxAddress + 4
  <2>1. count \in Nat /\ 1 + count <= Mock!Addresses
    BY <1>1, AddressesOfModbus DEF Readable, Mock!Addresses, Mock!MaxRegisters
  <2>2. CellsFrom(kind, 1, count)
            = [j \in 1..count |-> IF j \in Address THEN memory[kind][j] ELSE 0]
    BY <2>1 DEF CellsFrom
  <2> HIDE DEF count, tables
  <2>3. AnswersWith(Asking(ReadRequest(kind, 1, count), Simulated(memory)).response, kind,
            CellsFrom(kind, 1, count))
    BY <1>1, <2>1, ReadAnswered, 1 \in Nat, Zenon DEF count
  <2> QED
    BY <2>2, <2>3, Zenon DEF tables, count
<1>2. ASSUME NEW name \in DOMAIN Groups, OnDevice(Groups[name]),
             Readable(Groups[name].kind, Groups[name].count)
      PROVE  LET group == Groups[name] IN
             AnswersWith(
                Asking(ReadRequest(group.kind, group.address, group.count), tables).response,
                group.kind, WordsRead(group))
  <2> DEFINE group == Groups[name]
  <2>1. group.kind \in Kind /\ group.address \in Nat /\ group.count \in Nat
    BY GroupsValid DEF ValidGroup
  <2>2. /\ group.address + group.count <= Mock!Addresses
        /\ \A j \in 1..group.count : group.address + j - 1 \in Address
    BY <1>2, <2>1, ExtentOnDevice
  <2>3. CellsFrom(group.kind, group.address, group.count) = WordsRead(group)
    BY <2>2 DEF CellsFrom, WordsRead
  <2> HIDE DEF group, tables
  <2>4. AnswersWith(Asking(ReadRequest(group.kind, group.address, group.count),
                           Simulated(memory)).response, group.kind,
            CellsFrom(group.kind, group.address, group.count))
    BY <1>2, <2>1, <2>2, ReadAnswered, Zenon DEF group
  <2> QED
    BY <2>3, <2>4, Zenon DEF group, tables
<1>3. ASSUME NEW c \in Callers, running[c] # Idle, running[c].op = "Write",
             NEW n \in 1..Groups[running[c].group].count
      PROVE  LET group == [Groups[running[c].group] EXCEPT !.count = n]
                 cells == SubSeq(running[c].cells, 1, n)
                 request == WriteRequest(group, cells, n)
                 result == Asking(request, tables)
             IN  OnDevice(group) /\ InOneFrame(request) =>
                 IF request.code = WriteMultipleCoils
                 THEN /\ result.tables = tables
                      /\ result.response = Mock!Exception(request.code, Mock!IllegalFunction)
                 ELSE /\ result.tables = Simulated(Written(group, cells))
                      /\ result.response = Mock!Echo(request)
  <2> DEFINE whole == Groups[running[c].group]
             group == [whole EXCEPT !.count = n]
             cells == SubSeq(running[c].cells, 1, n)
  <2>1. /\ running[c].group \in DOMAIN Groups
        /\ whole.kind \in WritableKind
    BY <1>3 DEF SignalsTypeOK
  <2>2. whole.address \in Nat /\ whole.count \in Nat
    BY <2>1, GroupsValid DEF ValidGroup
  <2>3. group.kind = whole.kind /\ group.address = whole.address /\ group.count = n
    OBVIOUS
  <2>4. n \in Nat \ {0}
    BY <1>3, <2>2
  <2> HIDE DEF group, cells, tables, whole
  <2>5. group.kind \in WritableKind /\ group.address \in Nat /\ group.count = n
    BY <2>1, <2>2, <2>3
  <2>7. DOMAIN cells = 1..n
    <3>1. PICK all : all = running[c].cells
      OBVIOUS
    <3> DEFINE carried == {all[i] : i \in 1..n}
    <3>2. /\ SubSeq(all, 1, n) \in Seq(carried)
          /\ Len(SubSeq(all, 1, n)) = n
      BY <2>4, SubSeqProperties
    <3> QED
      BY <3>1, <3>2 DEF cells
  <2>6. ASSUME OnDevice(group), InOneFrame(WriteRequest(group, cells, n))
        PROVE  Served(group, cells, n)
    BY <2>4, <2>5, <2>6, <2>7, WriteDone, Zenon
  <2> QED
    BY <2>6, Zenon DEF group, cells, tables, whole, Served
<1> QED
  BY <1>1, <1>2, <1>3, Zenon DEF SimulatorIsADevice

\* The simulator the demos run against is a device like the one of the model,
\* for every memory it may have come to hold, every configuration of groups and
\* every write in progress: what is shown with it is shown of a device.
THEOREM SimulatorStandsIn == SignalsSpec => []SimulatorIsADevice
<1>1. StoredInv => MemoryOK
  BY DEF StoredInv
<1>2. SignalsTypeOK /\ MemoryOK => SimulatorIsADevice
  BY SimulatorStep
<1> QED
  BY <1>1, <1>2, KnowledgeIsTrue, SignalsTypeCorrect, PTL
=============================================================================
