----------------------------- MODULE WireProofs -----------------------------
(***************************************************************************)
(* For all lengths of keys, ids, blocks and boxes, and for all inputs: what *)
(* a Session makes is read back as it was made, and found by its id.       *)
(***************************************************************************)
EXTENDS Wire, SequenceTheorems, TLAPS

USE SMTT(30), ZenonT(60)

Bytes == Seq(Nat)

\* A field made by copy, and a repetition, are byte strings of their width.
LEMMA FieldType ==
  ASSUME NEW data \in Bytes, NEW w \in Nat
  PROVE  Field(data, w) \in Bytes /\ Len(Field(data, w)) = w
<1>1. \A i \in 1 .. w : (IF i <= Len(data) THEN data[i] ELSE 0) \in Nat
  BY ElementOfSeq DEF Bytes
<1> QED BY <1>1, IsASeq DEF Field, Bytes

\* copy of a field of the right length changes nothing.
LEMMA FieldSame ==
  ASSUME NEW data \in Bytes PROVE Field(data, Len(data)) = data
<1>1. Field(data, Len(data)) \in Bytes /\ Len(Field(data, Len(data))) = Len(data)
  BY FieldType, LenProperties DEF Bytes
<1>2. \A i \in 1 .. Len(data) : Field(data, Len(data))[i] = data[i]
  BY DEF Field
<1> QED BY <1>1, <1>2, SeqEqual DEF Bytes

\* copy of a nil slice leaves zeros.
LEMMA FieldNil ==
  ASSUME NEW w \in Nat PROVE Field(<< >>, w) = Repeat(0, w)
BY DEF Field, Repeat

LEMMA RepeatType ==
  ASSUME NEW b \in Nat, NEW n \in Nat
  PROVE  Repeat(b, n) \in Bytes /\ Len(Repeat(b, n)) = n
BY IsASeq DEF Repeat, Bytes

\* A slice of a byte string is one.
LEMMA SliceType ==
  ASSUME NEW data \in Bytes, NEW x \in Nat, NEW y \in Nat, x <= y, y <= Len(data)
  PROVE  Slice(data, x, y) \in Bytes /\ Len(Slice(data, x, y)) = y - x
<1>1. \A i \in 1 .. y - x : data[x + i] \in Nat
  BY ElementOfSeq, LenProperties DEF Bytes
<1>2. y - x \in Nat
  OBVIOUS
<1> QED BY <1>1, <1>2, IsASeq DEF Slice, Bytes

\* The first part of a concatenation is read back.
LEMMA SliceFirst ==
  ASSUME NEW a \in Bytes, NEW b \in Bytes
  PROVE  Slice(a \o b, 0, Len(a)) = a
<1>1. a \o b \in Bytes /\ Len(a \o b) = Len(a) + Len(b) /\ Len(a) \in Nat /\ Len(b) \in Nat
  BY ConcatProperties, LenProperties DEF Bytes
<1>2. 0 \in Nat /\ 0 <= Len(a) /\ Len(a) <= Len(a \o b) /\ Len(a) - 0 = Len(a)
  BY <1>1
<1>3. Slice(a \o b, 0, Len(a)) \in Bytes /\ Len(Slice(a \o b, 0, Len(a))) = Len(a)
  BY <1>1, <1>2, SliceType, ZenonT(60)
<1>4. \A i \in 1 .. Len(a) : Slice(a \o b, 0, Len(a))[i] = a[i]
  <2> TAKE i \in 1 .. Len(a)
  <2>1. 0 + i = i /\ Len(a) - 0 = Len(a) /\ i \in 1 .. Len(a) + Len(b)
    BY <1>1
  <2>2. (a \o b)[i] = a[i]
    BY <1>1, <2>1, ConcatProperties DEF Bytes
  <2> QED BY <2>1, <2>2 DEF Slice
<1> QED BY <1>3, <1>4, SeqEqual DEF Bytes

\* A slice behind the first part is a slice of the second.
LEMMA SliceSecond ==
  ASSUME NEW a \in Bytes, NEW b \in Bytes, NEW x \in Nat, NEW y \in Nat,
         x <= y, y <= Len(b)
  PROVE  Slice(a \o b, Len(a) + x, Len(a) + y) = Slice(b, x, y)
<1>1. a \o b \in Bytes /\ Len(a \o b) = Len(a) + Len(b) /\ Len(a) \in Nat /\ Len(b) \in Nat
  BY ConcatProperties, LenProperties DEF Bytes
<1>2. (Len(a) + y) - (Len(a) + x) = y - x
  BY <1>1
<1>3. \A i \in 1 .. y - x : (a \o b)[(Len(a) + x) + i] = b[x + i]
  <2> TAKE i \in 1 .. y - x
  <2>1. (Len(a) + x) + i = Len(a) + (x + i) /\ x + i \in 1 .. Len(b)
    BY <1>1
  <2> QED BY <1>1, <2>1, ConcatProperties DEF Bytes
<1> QED BY <1>2, <1>3 DEF Slice

\* The whole of a byte string.
LEMMA SliceAll ==
  ASSUME NEW a \in Bytes PROVE Slice(a, 0, Len(a)) = a
<1>1. 0 \in Nat /\ Len(a) \in Nat /\ 0 <= Len(a) /\ Len(a) <= Len(a) /\ Len(a) - 0 = Len(a)
  BY LenProperties DEF Bytes
<1>2. Slice(a, 0, Len(a)) \in Bytes /\ Len(Slice(a, 0, Len(a))) = Len(a)
  BY <1>1, SliceType, ZenonT(60)
<1>3. \A i \in 1 .. Len(a) : 0 + i = i
  BY <1>1
<1>4. \A i \in 1 .. Len(a) : Slice(a, 0, Len(a))[i] = a[i]
  BY <1>1, <1>3 DEF Slice
<1> QED BY <1>2, <1>4, SeqEqual DEF Bytes

\* What lies behind the first part is read back.
LEMMA SliceRest ==
  ASSUME NEW a \in Bytes, NEW b \in Bytes
  PROVE  Slice(a \o b, Len(a), Len(a) + Len(b)) = b
<1>1. Len(a) + 0 = Len(a) /\ Len(b) \in Nat
  BY LenProperties DEF Bytes
<1>2. Slice(a \o b, Len(a) + 0, Len(a) + Len(b)) = Slice(b, 0, Len(b))
  BY <1>1, SliceSecond
<1> QED BY <1>1, <1>2, SliceAll

-----------------------------------------------------------------------------
\* The arithmetic of padding.
LEMMA PadArithmetic ==
  ASSUME NEW n \in Nat, NEW b \in Nat \ {0}
  PROVE  (n + (b - (n % b))) % b = 0
OBVIOUS

LEMMA UnpadArithmetic ==
  ASSUME NEW m \in Nat, NEW b \in Nat \ {0}, NEW n \in Nat \ {0},
         m % b = 0, n <= b, n <= m
  PROVE  b - ((m - n) % b) = n
<1> DEFINE q == m \div b
           k == (m - n) \div b
           r == (m - n) % b
           e == q - k
<1>1. q \in Int /\ m = b * q
  OBVIOUS
<1>2. k \in Int /\ r \in Nat /\ r < b /\ m - n = b * k + r
  OBVIOUS
<1> HIDE DEF q, k, r
<1>3. e \in Int /\ b * e = n + r
  BY <1>1, <1>2
<1> HIDE DEF e
<1>4. e <= 0 => b * e <= 0
  BY <1>3
<1>5. e >= 2 => b * e >= 2 * b
  BY <1>3
<1>6. e = 1
  BY <1>2, <1>3, <1>4, <1>5
<1> QED BY <1>2, <1>3, <1>6 DEF r

\* pkcs7Pad makes what pkcs7Unpad accepts: at least one byte and at most a block
\* is added, and the sum is aligned.
LEMMA PadType ==
  ASSUME NEW data \in Bytes
  PROVE  LET n == BlockSize - (Len(data) % BlockSize)
             p == pkcs7Pad(data, BlockSize)
         IN /\ n \in 1 .. BlockSize
            /\ p \in Bytes /\ Len(p) = Len(data) + n /\ Len(p) % BlockSize = 0
            /\ p = data \o Repeat(n, n)
<1> DEFINE n == BlockSize - (Len(data) % BlockSize)
<1>1. BlockSize \in Nat \ {0} /\ Len(data) \in Nat
  BY LengthsAssumption, LenProperties DEF Bytes
<1>2. Len(data) % BlockSize \in 0 .. BlockSize - 1
  BY <1>1
<1>3. n \in 1 .. BlockSize /\ n \in Nat
  BY <1>1, <1>2
<1>4. (Len(data) + n) % BlockSize = 0
  BY <1>1, PadArithmetic
<1> HIDE DEF n
<1>5. Repeat(n, n) \in Bytes /\ Len(Repeat(n, n)) = n
  BY <1>3, RepeatType
<1>6. data \o Repeat(n, n) \in Bytes /\ Len(data \o Repeat(n, n)) = Len(data) + n
  BY <1>5, ConcatProperties, ZenonT(60) DEF Bytes
<1>7. pkcs7Pad(data, BlockSize) = data \o Repeat(n, n)
  BY DEF pkcs7Pad, n
<1> QED BY <1>3, <1>4, <1>6, <1>7 DEF n

\* Padding is undone: pkcs7Unpad accepts what pkcs7Pad returns, for data of any
\* length and content, and gives the data back.
THEOREM PadReversible ==
  ASSUME NEW data \in Bytes
  PROVE  /\ Padded(pkcs7Pad(data, BlockSize), BlockSize)
         /\ Unpadded(pkcs7Pad(data, BlockSize)) = data
<1> DEFINE n == BlockSize - (Len(data) % BlockSize)
           p == pkcs7Pad(data, BlockSize)
<1>1. /\ n \in 1 .. BlockSize
      /\ p \in Bytes /\ Len(p) = Len(data) + n /\ Len(p) % BlockSize = 0
      /\ p = data \o Repeat(n, n)
  BY PadType, ZenonT(60)
<1>2. BlockSize \in Nat \ {0} /\ Len(data) \in Nat
  BY LengthsAssumption, LenProperties DEF Bytes
<1> HIDE DEF n, p
<1>3. n \in Nat \ {0} /\ Repeat(n, n) \in Bytes /\ Len(Repeat(n, n)) = n
  BY <1>1, <1>2, RepeatType
<1>4. p[Len(p)] = n
  <2>1. Len(p) \in 1 .. Len(data) + Len(Repeat(n, n)) /\ ~(Len(p) <= Len(data))
        /\ Len(p) - Len(data) = n /\ n \in 1 .. n
    BY <1>1, <1>2, <1>3
  <2>2. p[Len(p)] = Repeat(n, n)[n]
    BY <1>1, <1>3, <2>1, ConcatProperties DEF Bytes
  <2> QED BY <2>1, <2>2 DEF Repeat
<1>5. Len(p) - n = Len(data)
  BY <1>1, <1>2
<1>6. Slice(p, Len(p) - n, Len(p)) = Repeat(n, n)
  BY <1>1, <1>3, <1>5, SliceRest
<1>7. Slice(p, 0, Len(p) - n) = data
  BY <1>1, <1>3, <1>5, SliceFirst
<1>8. Len(p) # 0 /\ n # 0 /\ n <= BlockSize
  BY <1>1, <1>2, <1>3
<1>9. Padded(p, BlockSize)
  BY <1>1, <1>4, <1>6, <1>8 DEF Padded
<1>10. Unpadded(p) = data
  BY <1>4, <1>7 DEF Unpadded
<1> QED BY <1>9, <1>10 DEF p

\* The converse: what pkcs7Unpad accepts is what pkcs7Pad makes of its result,
\* so that no two padded texts stand for one plaintext.
THEOREM PadCanonical ==
  ASSUME NEW data \in Bytes, Padded(data, BlockSize)
  PROVE  pkcs7Pad(Unpadded(data), BlockSize) = data
<1> DEFINE n == data[Len(data)]
           d == Unpadded(data)
<1>1. BlockSize \in Nat \ {0} /\ Len(data) \in Nat \ {0} /\ Len(data) % BlockSize = 0
  BY LengthsAssumption, LenProperties DEF Bytes, Padded
<1>2. n \in Nat /\ n # 0 /\ n <= BlockSize
      /\ Slice(data, Len(data) - n, Len(data)) = Repeat(n, n)
  BY <1>1, ElementOfSeq DEF Padded, Bytes
<1>3. BlockSize <= Len(data)
  BY <1>1
<1>4. d = Slice(data, 0, Len(data) - n)
  BY DEF Unpadded
<1> HIDE DEF n, d
<1>5. Len(data) - n \in Nat /\ Len(data) - n <= Len(data) /\ (Len(data) - n) - 0 = Len(data) - n
  BY <1>1, <1>2, <1>3
<1>6. d \in Bytes /\ Len(d) = Len(data) - n
  BY <1>4, <1>5, SliceType
<1>7. BlockSize - (Len(d) % BlockSize) = n
  <2>1. n \in Nat \ {0} /\ n <= Len(data)
    BY <1>1, <1>2, <1>3
  <2> QED BY <1>1, <1>2, <1>6, <2>1, UnpadArithmetic
<1>8. Repeat(n, n) \in Bytes /\ Len(Repeat(n, n)) = n
  BY <1>2, RepeatType
<1>9. d \o Repeat(n, n) \in Bytes /\ Len(d \o Repeat(n, n)) = Len(data)
  <2>1. d \o Repeat(n, n) \in Bytes /\ Len(d \o Repeat(n, n)) = (Len(data) - n) + n
    BY <1>6, <1>8, ConcatProperties DEF Bytes
  <2> QED BY <1>1, <1>2, <2>1
<1>10. \A i \in 1 .. Len(data) : (d \o Repeat(n, n))[i] = data[i]
  <2> TAKE i \in 1 .. Len(data)
  <2>1. CASE i <= Len(data) - n
    <3>1. d[i] = data[i]
      BY <1>4, <1>5, <2>1 DEF Slice
    <3> QED BY <1>6, <1>8, <1>9, <2>1, <3>1, ConcatProperties DEF Bytes
  <2>2. CASE i > Len(data) - n
    <3> DEFINE j == i - (Len(data) - n)
    <3>1. j \in 1 .. n /\ (Len(data) - n) + j = i /\ Len(data) - (Len(data) - n) = n
      BY <1>1, <1>2, <1>5, <2>2
    <3>2. Slice(data, Len(data) - n, Len(data))[j] = data[i]
      BY <3>1 DEF Slice
    <3>3. i \in 1 .. Len(d) + Len(Repeat(n, n)) /\ ~(i <= Len(d)) /\ i - Len(d) = j
      BY <1>1, <1>2, <1>5, <1>6, <1>8, <2>2
    <3>4. (d \o Repeat(n, n))[i] = Repeat(n, n)[i - Len(d)]
      <4>1. d \in Seq(Nat) /\ Repeat(n, n) \in Seq(Nat)
        BY <1>6, <1>8 DEF Bytes
      <4> QED BY <3>3, <4>1, ConcatProperties
    <3> QED BY ZenonT(60), <1>2, <3>2, <3>3, <3>4
  <2>3. i <= Len(data) - n \/ i > Len(data) - n
    BY <1>5
  <2> QED BY <2>1, <2>2, <2>3, ZenonT(60)
<1>11. d \o Repeat(n, n) = data
  BY <1>9, <1>10, SeqEqual, ZenonT(60) DEF Bytes
<1> QED BY <1>7, <1>11 DEF pkcs7Pad, d

-----------------------------------------------------------------------------
\* Concatenation of byte strings, with its length.
LEMMA ConcatType ==
  ASSUME NEW a \in Bytes, NEW b \in Bytes
  PROVE  a \o b \in Bytes /\ Len(a \o b) = Len(a) + Len(b) /\ Len(a) \in Nat /\ Len(b) \in Nat
BY ConcatProperties, LenProperties DEF Bytes

LEMMA ConcatGroups ==
  ASSUME NEW a \in Bytes, NEW b \in Bytes, NEW c \in Bytes
  PROVE  (a \o b) \o c = a \o (b \o c)
BY ConcatAssociative DEF Bytes

\* data is a followed by b, as slices see it.
Joined(data, a, b) ==
  /\ data \in Bytes /\ a \in Bytes /\ b \in Bytes
  /\ Len(a) \in Nat /\ Len(b) \in Nat /\ Len(data) = Len(a) + Len(b)
  /\ Slice(data, 0, Len(a)) = a
  /\ \A x \in Nat, y \in Nat : x <= y /\ y <= Len(b) =>
       Slice(data, Len(a) + x, Len(a) + y) = Slice(b, x, y)

LEMMA Joins ==
  ASSUME NEW a \in Bytes, NEW b \in Bytes PROVE Joined(a \o b, a, b)
<1>1. /\ a \o b \in Bytes /\ Len(a \o b) = Len(a) + Len(b)
      /\ Len(a) \in Nat /\ Len(b) \in Nat
  BY ConcatType
<1>2. Slice(a \o b, 0, Len(a)) = a
  BY SliceFirst
<1>3. ASSUME NEW x \in Nat, NEW y \in Nat, x <= y, y <= Len(b)
      PROVE  Slice(a \o b, Len(a) + x, Len(a) + y) = Slice(b, x, y)
  BY <1>3, SliceSecond
<1> QED BY <1>1, <1>2, <1>3, ZenonT(60) DEF Joined

\* Two, three, four and five parts of a byte string are read back where they
\* were put.
LEMMA TwoParts ==
  ASSUME NEW data, NEW a, NEW b, Joined(data, a, b)
  PROVE  Slice(data, Len(a), Len(data)) = b
<1>1. Len(b) \in Nat /\ b \in Bytes /\ 0 <= Len(b) /\ Len(b) <= Len(b) /\ 0 \in Nat
  BY DEF Joined
<1>2. Slice(data, Len(a) + 0, Len(a) + Len(b)) = Slice(b, 0, Len(b))
  BY <1>1 DEF Joined
<1>3. Len(a) + 0 = Len(a) /\ Len(data) = Len(a) + Len(b)
  BY DEF Joined
<1> QED BY <1>1, <1>2, <1>3, SliceAll

LEMMA ThreeParts ==
  ASSUME NEW data, NEW tail, NEW a, NEW b, NEW c, Joined(data, a, tail), Joined(tail, b, c)
  PROVE  /\ Len(data) = Len(a) + Len(b) + Len(c)
         /\ Slice(data, Len(a), Len(a) + Len(b)) = b
         /\ Slice(data, Len(a) + Len(b), Len(data)) = c
<1>1. /\ Len(a) \in Nat /\ Len(b) \in Nat /\ Len(c) \in Nat
      /\ Len(data) = Len(a) + Len(tail) /\ Len(tail) = Len(b) + Len(c)
      /\ Slice(tail, 0, Len(b)) = b
  BY DEF Joined
<1>2. Slice(tail, Len(b), Len(tail)) = c
  BY TwoParts
<1>3. \A x \in Nat, y \in Nat : x <= y /\ y <= Len(tail) =>
        Slice(data, Len(a) + x, Len(a) + y) = Slice(tail, x, y)
  BY DEF Joined
<1>4. /\ Slice(data, Len(a) + 0, Len(a) + Len(b)) = Slice(tail, 0, Len(b))
      /\ Slice(data, Len(a) + Len(b), Len(a) + Len(tail)) = Slice(tail, Len(b), Len(tail))
  BY <1>1, <1>3
<1>5. Len(a) + 0 = Len(a) /\ Len(data) = Len(a) + Len(b) + Len(c)
  BY <1>1
<1> QED BY <1>1, <1>2, <1>4, <1>5

LEMMA FourParts ==
  ASSUME NEW data, NEW t, NEW u, NEW a, NEW b, NEW c, NEW d,
         Joined(data, a, t), Joined(t, b, u), Joined(u, c, d)
  PROVE  /\ Len(data) = Len(a) + Len(b) + Len(c) + Len(d)
         /\ Slice(data, Len(a), Len(a) + Len(b)) = b
         /\ Slice(data, Len(a) + Len(b), Len(a) + Len(b) + Len(c)) = c
         /\ Slice(data, Len(a) + Len(b) + Len(c), Len(data)) = d
<1>1. /\ Len(a) \in Nat /\ Len(b) \in Nat /\ Len(c) \in Nat /\ Len(d) \in Nat
      /\ Len(data) = Len(a) + Len(t) /\ Len(t) = Len(b) + Len(u) /\ Len(u) = Len(c) + Len(d)
  BY DEF Joined
<1>2. /\ Slice(t, Len(b), Len(b) + Len(c)) = c
      /\ Slice(t, Len(b) + Len(c), Len(t)) = d
  BY ThreeParts
<1>3. Slice(data, Len(a), Len(a) + Len(b)) = b
  BY ThreeParts
<1>4. \A x \in Nat, y \in Nat : x <= y /\ y <= Len(t) =>
        Slice(data, Len(a) + x, Len(a) + y) = Slice(t, x, y)
  BY DEF Joined
<1>5. /\ Slice(data, Len(a) + Len(b), Len(a) + (Len(b) + Len(c))) = c
      /\ Slice(data, Len(a) + (Len(b) + Len(c)), Len(a) + Len(t)) = d
  BY <1>1, <1>2, <1>4
<1>6. /\ Len(a) + (Len(b) + Len(c)) = Len(a) + Len(b) + Len(c)
      /\ Len(data) = Len(a) + Len(b) + Len(c) + Len(d)
  BY <1>1
<1> QED BY <1>1, <1>3, <1>5, <1>6

LEMMA FiveParts ==
  ASSUME NEW data, NEW t, NEW u, NEW v, NEW a, NEW b, NEW c, NEW d, NEW e,
         Joined(data, a, t), Joined(t, b, u), Joined(u, c, v), Joined(v, d, e)
  PROVE  /\ Len(data) = Len(a) + Len(b) + Len(c) + Len(d) + Len(e)
         /\ Slice(data, Len(a), Len(a) + Len(b)) = b
         /\ Slice(data, Len(a) + Len(b), Len(a) + Len(b) + Len(c)) = c
         /\ Slice(data, Len(a) + Len(b) + Len(c), Len(a) + Len(b) + Len(c) + Len(d)) = d
         /\ Slice(data, Len(a) + Len(b) + Len(c) + Len(d), Len(data)) = e
<1>1. /\ Len(a) \in Nat /\ Len(b) \in Nat /\ Len(c) \in Nat /\ Len(d) \in Nat /\ Len(e) \in Nat
      /\ Len(data) = Len(a) + Len(t) /\ Len(t) = Len(b) + Len(u) /\ Len(u) = Len(c) + Len(v)
      /\ Len(v) = Len(d) + Len(e)
  BY DEF Joined
<1>2. /\ Slice(t, Len(b) + Len(c), Len(b) + Len(c) + Len(d)) = d
      /\ Slice(t, Len(b) + Len(c) + Len(d), Len(t)) = e
  BY FourParts
<1>3. /\ Slice(data, Len(a), Len(a) + Len(b)) = b
      /\ Slice(data, Len(a) + Len(b), Len(a) + Len(b) + Len(c)) = c
  BY FourParts
<1>4. \A x \in Nat, y \in Nat : x <= y /\ y <= Len(t) =>
        Slice(data, Len(a) + x, Len(a) + y) = Slice(t, x, y)
  BY ZenonT(60) DEF Joined
<1>5. /\ Slice(data, Len(a) + (Len(b) + Len(c)), Len(a) + (Len(b) + Len(c) + Len(d))) = d
      /\ Slice(data, Len(a) + (Len(b) + Len(c) + Len(d)), Len(a) + Len(t)) = e
  <2>1. /\ Len(b) + Len(c) \in Nat /\ Len(b) + Len(c) + Len(d) \in Nat /\ Len(t) \in Nat
        /\ Len(b) + Len(c) <= Len(b) + Len(c) + Len(d) /\ Len(t) <= Len(t)
        /\ Len(b) + Len(c) + Len(d) <= Len(t)
    BY <1>1
  <2> QED BY <1>2, <1>4, <2>1
<1>6. /\ Len(a) + (Len(b) + Len(c)) = Len(a) + Len(b) + Len(c)
      /\ Len(a) + (Len(b) + Len(c) + Len(d)) = Len(a) + Len(b) + Len(c) + Len(d)
      /\ Len(data) = Len(a) + Len(b) + Len(c) + Len(d) + Len(e)
  BY <1>1
<1> QED BY <1>1, <1>3, <1>5, <1>6

\* A number of two bytes survives binary.BigEndian.
LEMMA Uint16Back ==
  ASSUME NEW n, IsUint16(n)
  PROVE  /\ PutUint16(n) \in Bytes /\ Len(PutUint16(n)) = 2
         /\ Uint16(PutUint16(n)) = n
<1> DEFINE q == n \div 256
           r == n % 256
<1>1. q \in Nat /\ r \in Nat /\ q < 256 /\ n = 256 * q + r
  BY DEF IsUint16
<1>2. q % 256 = q
  BY <1>1
<1>3. PutUint16(n) = <<q, r>>
  BY <1>2 DEF PutUint16
<1> HIDE DEF q, r
<1>4. <<q, r>> \in Bytes /\ Len(<<q, r>>) = 2
  BY <1>1 DEF Bytes
<1>5. Uint16(<<q, r>>) = 256 * q + r
  BY DEF Uint16
<1> QED BY <1>1, <1>3, <1>4, <1>5

\* The header of a message.
IsHeader(h) ==
  /\ h = [dhPub |-> h.dhPub, prevNo |-> h.prevNo, msgNo |-> h.msgNo]
  /\ h.dhPub \in Bytes /\ Len(h.dhPub) = KeyLen
  /\ IsUint16(h.prevNo) /\ IsUint16(h.msgNo)

\* parseHeader reads what headerMarshal wrote, whatever follows it.
LEMMA HeaderBack ==
  ASSUME NEW h, IsHeader(h), NEW rest \in Bytes
  PROVE  /\ headerMarshal(h) \in Bytes /\ Len(headerMarshal(h)) = headerLen
         /\ parseHeader(headerMarshal(h) \o rest) = h
<1> DEFINE key == h.dhPub
           pn == PutUint16(h.prevNo)
           mn == PutUint16(h.msgNo)
           data == headerMarshal(h) \o rest
<1>1. key \in Bytes /\ Len(key) = KeyLen
  BY DEF IsHeader
<1>2. /\ pn \in Bytes /\ Len(pn) = 2 /\ Uint16(pn) = h.prevNo
      /\ mn \in Bytes /\ Len(mn) = 2 /\ Uint16(mn) = h.msgNo
  BY Uint16Back DEF IsHeader
<1>3. headerMarshal(h) = key \o (pn \o mn)
  BY <1>1, FieldSame, ZenonT(60) DEF headerMarshal
<1>4. h = [dhPub |-> key, prevNo |-> h.prevNo, msgNo |-> h.msgNo]
  BY DEF IsHeader
<1> HIDE DEF key, pn, mn
<1>5. pn \in Bytes /\ mn \in Bytes
  BY <1>2
<1>6. pn \o mn \in Bytes /\ mn \o rest \in Bytes
  BY <1>5, ConcatType, ZenonT(60)
<1>7. pn \o (mn \o rest) \in Bytes /\ key \o (pn \o mn) \in Bytes
  BY <1>1, <1>5, <1>6, ConcatType, ZenonT(60)
<1>8. Len(key \o (pn \o mn)) = Len(key) + Len(pn) + Len(mn)
  <2>1. Joined(key \o (pn \o mn), key, pn \o mn) /\ Joined(pn \o mn, pn, mn)
    BY <1>1, <1>5, <1>6, Joins, ZenonT(60)
  <2> DEFINE t == pn \o mn
             d == key \o (pn \o mn)
  <2>2. Joined(d, key, t) /\ Joined(t, pn, mn)
    BY <2>1
  <2> HIDE DEF t, d
  <2>3. Len(d) = Len(key) + Len(pn) + Len(mn)
    BY <2>2, ThreeParts
  <2> QED BY <2>3 DEF d
<1>9. data = key \o (pn \o (mn \o rest))
  <2>1. (pn \o mn) \o rest = pn \o (mn \o rest)
    BY <1>5, ConcatGroups, ZenonT(60)
  <2>2. (key \o (pn \o mn)) \o rest = key \o ((pn \o mn) \o rest)
    BY <1>1, <1>6, ConcatGroups, ZenonT(60)
  <2> QED BY <1>3, <2>1, <2>2, ZenonT(60)
<1>10. /\ Joined(data, key, pn \o (mn \o rest))
       /\ Joined(pn \o (mn \o rest), pn, mn \o rest) /\ Joined(mn \o rest, mn, rest)
  BY <1>1, <1>5, <1>6, <1>7, <1>9, Joins, ZenonT(60)
<1> HIDE DEF data
<1>11. /\ Slice(data, 0, Len(key)) = key
       /\ Slice(data, Len(key), Len(key) + Len(pn)) = pn
       /\ Slice(data, Len(key) + Len(pn), Len(key) + Len(pn) + Len(mn)) = mn
  <2> DEFINE t == pn \o (mn \o rest)
             u == mn \o rest
  <2>1. Joined(data, key, t) /\ Joined(t, pn, u) /\ Joined(u, mn, rest)
    BY <1>10
  <2> HIDE DEF t, u
  <2> QED BY <2>1, FourParts DEF Joined
<1>12. parseHeader(data) = [dhPub |-> key, prevNo |-> Uint16(pn), msgNo |-> Uint16(mn)]
  BY <1>1, <1>2, <1>11 DEF parseHeader
<1>13. Len(headerMarshal(h)) = headerLen
  BY <1>1, <1>2, <1>3, <1>8 DEF headerLen
<1> QED BY <1>2, <1>3, <1>4, <1>7, <1>12, <1>13 DEF data

\* The block cipher is undone by the same key and keeps the length.
LEMMA BlocksBack ==
  ASSUME NEW data \in Bytes
  PROVE  /\ CryptBlocks(data) \in Bytes /\ Len(CryptBlocks(data)) = Len(data)
         /\ DecryptBlocks(CryptBlocks(data)) = data
<1>1. DOMAIN data = 1 .. Len(data) /\ Len(data) \in Nat
  BY LenProperties DEF Bytes
<1>2. \A i \in 1 .. Len(data) : data[i] \in Nat /\ 256 + data[i] \in Nat
                                /\ (256 + data[i]) - 256 = data[i]
  <2>1. \A i \in 1 .. Len(data) : data[i] \in Nat
    BY ElementOfSeq DEF Bytes
  <2> QED BY <2>1
<1>3. CryptBlocks(data) = [i \in 1 .. Len(data) |-> 256 + data[i]]
  BY <1>1 DEF CryptBlocks
<1>4. CryptBlocks(data) \in Bytes /\ Len(CryptBlocks(data)) = Len(data)
  BY <1>1, <1>2, <1>3, IsASeq DEF Bytes
<1>5. DecryptBlocks(CryptBlocks(data)) = [i \in 1 .. Len(data) |-> data[i]]
  BY <1>2, <1>3 DEF DecryptBlocks
<1>6. [i \in 1 .. Len(data) |-> data[i]] = data
  <2>1. [i \in 1 .. Len(data) |-> data[i]] \in Bytes
        /\ Len([i \in 1 .. Len(data) |-> data[i]]) = Len(data)
    BY <1>1, <1>2, IsASeq DEF Bytes
  <2>2. \A j \in 1 .. Len(data) : [i \in 1 .. Len(data) |-> data[i]][j] = data[j]
    OBVIOUS
  <2> QED BY <2>1, <2>2, SeqEqual DEF Bytes
<1> QED BY <1>4, <1>5, <1>6

\* Decrypt accepts what Encrypt returns, for a header and a plaintext of any
\* length and content, and gives both back.
THEOREM DecryptsWhatItEncrypts ==
  ASSUME NEW h, IsHeader(h), NEW plaintext \in Bytes
  PROVE  /\ Encrypt(h, plaintext) \in Bytes
         /\ Decrypt(Encrypt(h, plaintext)) =
              [type |-> "opened", header |-> h, plaintext |-> plaintext]
<1> DEFINE padded == pkcs7Pad(plaintext, BlockSize)
           cipher == CryptBlocks(padded)
           head == headerMarshal(h)
           data == Encrypt(h, plaintext)
<1>1. MacLen \in Nat \ {0} /\ BlockSize \in Nat \ {0}
  BY LengthsAssumption
<1>2. padded \in Bytes /\ Len(padded) % BlockSize = 0
  BY PadType
<1>3. Padded(padded, BlockSize) /\ Unpadded(padded) = plaintext
  BY PadReversible
<1> HIDE DEF padded
<1>4. cipher \in Bytes /\ Len(cipher) = Len(padded) /\ DecryptBlocks(cipher) = padded
  BY <1>2, BlocksBack
<1>5. Mac \in Bytes /\ Len(Mac) = MacLen
  BY <1>1, RepeatType DEF Mac
<1>6. data = head \o (cipher \o Mac)
  BY DEF Encrypt, padded
<1> HIDE DEF cipher
<1>7. cipher \o Mac \in Bytes /\ Len(cipher \o Mac) = Len(cipher) + MacLen /\ Len(cipher) \in Nat
  BY <1>4, <1>5, ConcatType, ZenonT(60)
<1>8. head \in Bytes /\ Len(head) = headerLen /\ parseHeader(data) = h
  BY <1>6, <1>7, HeaderBack
<1> HIDE DEF head, data
<1>9. data \in Bytes /\ Len(data) = headerLen + (Len(cipher) + MacLen) /\ headerLen \in Nat
  BY <1>6, <1>7, <1>8, ConcatType, ZenonT(60)
<1>10. Slice(data, headerLen, Len(data)) = cipher \o Mac
  <2>1. Joined(data, head, cipher \o Mac)
    BY <1>6, <1>7, <1>8, Joins, ZenonT(60)
  <2>2. Slice(data, Len(head), Len(data)) = cipher \o Mac
    BY <2>1, TwoParts, ZenonT(60)
  <2> QED BY <1>8, <2>2, ZenonT(60)
<1>11. (Len(cipher) + MacLen) - MacLen = Len(cipher) /\ Len(data) > headerLen
       /\ Len(cipher) + MacLen >= MacLen
  BY <1>1, <1>7, <1>9
<1>12. Slice(cipher \o Mac, 0, Len(cipher)) = cipher
  BY <1>4, <1>5, SliceFirst
<1>13. Slice(cipher \o Mac, Len(cipher), Len(cipher) + MacLen) = Mac
  BY <1>4, <1>5, SliceRest
<1>14. Decrypt(data) = [type |-> "opened", header |-> h, plaintext |-> plaintext]
  BY <1>2, <1>3, <1>4, <1>7, <1>8, <1>10, <1>11, <1>12, <1>13 DEF Decrypt
<1> QED BY <1>9, <1>14 DEF data

-----------------------------------------------------------------------------
\* The content of the message structs.
IsBytes(data, w) == data \in Bytes /\ Len(data) = w

\* An offer is read back as it was made.
LEMMA OfferBack ==
  ASSUME NEW idKey, NEW spKey, NEW spSig, NEW uuid, NEW nick,
         IsBytes(idKey, KeyLen), IsBytes(spKey, KeyLen), IsBytes(spSig, SigLen),
         IsBytes(uuid, UUIDLen), nick \in Bytes
  PROVE  LET m == [type |-> "offer", idKey |-> idKey, spKey |-> spKey, spSig |-> spSig,
                   uuid |-> uuid, nick |-> nick]
         IN MarshalBinary(m) \in Bytes /\ Unmarshal(1, MarshalBinary(m)) = m
<1> DEFINE m == [type |-> "offer", idKey |-> idKey, spKey |-> spKey, spSig |-> spSig,
                 uuid |-> uuid, nick |-> nick]
           v == uuid \o nick
           u == spSig \o v
           t == spKey \o u
           data == idKey \o t
<1>1. /\ Field(idKey, KeyLen) = idKey /\ Field(spKey, KeyLen) = spKey
      /\ Field(spSig, SigLen) = spSig /\ Field(uuid, UUIDLen) = uuid
  BY FieldSame DEF IsBytes
<1>2. MarshalBinary(m) = data
  BY ZenonT(60), <1>1 DEF MarshalBinary
<1>3. v \in Bytes /\ Joined(v, uuid, nick)
  BY ConcatType, Joins, ZenonT(60) DEF IsBytes
<1> HIDE DEF v
<1>4. u \in Bytes /\ Joined(u, spSig, v)
  BY <1>3, ConcatType, Joins, ZenonT(60) DEF IsBytes
<1> HIDE DEF u
<1>5. t \in Bytes /\ Joined(t, spKey, u)
  BY <1>4, ConcatType, Joins, ZenonT(60) DEF IsBytes
<1> HIDE DEF t
<1>6. data \in Bytes /\ Joined(data, idKey, t)
  BY <1>5, ConcatType, Joins, ZenonT(60) DEF IsBytes
<1> HIDE DEF data, m
<1>7. /\ Len(data) = Len(idKey) + Len(spKey) + Len(spSig) + Len(uuid) + Len(nick)
      /\ Slice(data, 0, Len(idKey)) = idKey
      /\ Slice(data, Len(idKey), Len(idKey) + Len(spKey)) = spKey
      /\ Slice(data, Len(idKey) + Len(spKey), Len(idKey) + Len(spKey) + Len(spSig)) = spSig
      /\ Slice(data, Len(idKey) + Len(spKey) + Len(spSig),
                     Len(idKey) + Len(spKey) + Len(spSig) + Len(uuid)) = uuid
      /\ Slice(data, Len(idKey) + Len(spKey) + Len(spSig) + Len(uuid), Len(data)) = nick
  <2>1. Slice(data, 0, Len(idKey)) = idKey
    BY <1>6 DEF Joined
  <2> QED BY <1>3, <1>4, <1>5, <1>6, <2>1, FiveParts
<1>8. /\ Len(idKey) = KeyLen /\ Len(spKey) = KeyLen /\ Len(spSig) = SigLen /\ Len(uuid) = UUIDLen
      /\ Len(idKey) + Len(spKey) + Len(spSig) + Len(uuid) = offerLen
      /\ Len(idKey) \in Nat /\ Len(spKey) \in Nat /\ Len(spSig) \in Nat /\ Len(uuid) \in Nat
      /\ Len(nick) \in Nat
  BY LenProperties DEF IsBytes, offerLen, Bytes
<1>9. ~(Len(data) < offerLen)
  BY <1>7, <1>8
<1>10. offerUnmarshal(data) = m
  BY <1>7, <1>8, <1>9 DEF offerUnmarshal, m
<1>11. Unmarshal(1, data) = m
  BY <1>10 DEF Unmarshal
<1> QED BY <1>2, <1>6, <1>11 DEF m

\* An ack is read back as it was made: its ciphertext is never empty.
LEMMA AckBack ==
  ASSUME NEW idKey, NEW eKey, NEW uuid, NEW cipher,
         IsBytes(idKey, KeyLen), IsBytes(eKey, KeyLen), IsBytes(uuid, UUIDLen),
         cipher \in Bytes, Len(cipher) > 0
  PROVE  LET m == [type |-> "ack", idKey |-> idKey, eKey |-> eKey, uuid |-> uuid,
                   cipher |-> cipher]
         IN MarshalBinary(m) \in Bytes /\ Unmarshal(2, MarshalBinary(m)) = m
<1> DEFINE m == [type |-> "ack", idKey |-> idKey, eKey |-> eKey, uuid |-> uuid,
                 cipher |-> cipher]
           u == uuid \o cipher
           t == eKey \o u
           data == idKey \o t
<1>1. Field(idKey, KeyLen) = idKey /\ Field(eKey, KeyLen) = eKey /\ Field(uuid, UUIDLen) = uuid
  BY FieldSame DEF IsBytes
<1>2. MarshalBinary(m) = data
  BY ZenonT(60), <1>1 DEF MarshalBinary
<1>3. u \in Bytes /\ Joined(u, uuid, cipher)
  BY ConcatType, Joins, ZenonT(60) DEF IsBytes
<1> HIDE DEF u
<1>4. t \in Bytes /\ Joined(t, eKey, u)
  BY <1>3, ConcatType, Joins, ZenonT(60) DEF IsBytes
<1> HIDE DEF t
<1>5. data \in Bytes /\ Joined(data, idKey, t)
  BY <1>4, ConcatType, Joins, ZenonT(60) DEF IsBytes
<1> HIDE DEF data, m
<1>6. /\ Len(data) = Len(idKey) + Len(eKey) + Len(uuid) + Len(cipher)
      /\ Slice(data, 0, Len(idKey)) = idKey
      /\ Slice(data, Len(idKey), Len(idKey) + Len(eKey)) = eKey
      /\ Slice(data, Len(idKey) + Len(eKey), Len(idKey) + Len(eKey) + Len(uuid)) = uuid
      /\ Slice(data, Len(idKey) + Len(eKey) + Len(uuid), Len(data)) = cipher
  <2>1. Slice(data, 0, Len(idKey)) = idKey
    BY <1>5 DEF Joined
  <2> QED BY <1>3, <1>4, <1>5, <2>1, FourParts
<1>7. /\ Len(idKey) = KeyLen /\ Len(eKey) = KeyLen /\ Len(uuid) = UUIDLen
      /\ Len(idKey) + Len(eKey) + Len(uuid) = ackLen
      /\ Len(idKey) \in Nat /\ Len(eKey) \in Nat /\ Len(uuid) \in Nat /\ Len(cipher) \in Nat
  BY LenProperties DEF IsBytes, ackLen, Bytes
<1>8. ~(Len(data) <= ackLen)
  BY <1>6, <1>7
<1>9. ackUnmarshal(data) = m
  BY <1>6, <1>7, <1>8 DEF ackUnmarshal, m
<1>10. Unmarshal(2, data) = m
  BY <1>9 DEF Unmarshal
<1> QED BY <1>2, <1>5, <1>10 DEF m

\* A text or a close is read back with its id cut to, or filled up to, its width.
LEMMA PayloadBack ==
  ASSUME NEW k \in {"data", "close"}, NEW uuid \in Bytes, NEW payload \in Bytes,
         Len(payload) > 0, k = "close" => payload = closePayload
  PROVE  LET m == [type |-> k, uuid |-> uuid, payload |-> payload]
         IN /\ MarshalBinary(m) \in Bytes
            /\ Unmarshal(IF k = "data" THEN 3 ELSE 4, MarshalBinary(m)) =
                 [type |-> k, uuid |-> Field(uuid, UUIDLen), payload |-> payload]
<1> DEFINE m == [type |-> k, uuid |-> uuid, payload |-> payload]
           id == Field(uuid, UUIDLen)
           data == id \o payload
           r == [type |-> k, uuid |-> id, payload |-> payload]
<1>1. UUIDLen \in Nat
  BY LengthsAssumption DEF UUIDLen
<1>2. id \in Bytes /\ Len(id) = UUIDLen
  BY ZenonT(60), <1>1, FieldType
<1>3. MarshalBinary(m) = data
  BY DEF MarshalBinary
<1> HIDE DEF m, id
<1>4. data \in Bytes /\ Joined(data, id, payload)
  BY <1>2, ConcatType, Joins, ZenonT(60)
<1> HIDE DEF data
<1>5. /\ Len(data) = UUIDLen + Len(payload) /\ Len(payload) \in Nat
      /\ Slice(data, 0, UUIDLen) = id /\ Slice(data, UUIDLen, Len(data)) = payload
  <2>1. Slice(data, Len(id), Len(data)) = payload
    BY <1>4, TwoParts
  <2>2. Len(data) = Len(id) + Len(payload) /\ Len(payload) \in Nat /\ Slice(data, 0, Len(id)) = id
    BY <1>4 DEF Joined
  <2> QED BY <1>2, <2>1, <2>2
<1>6. ~(Len(data) <= UUIDLen)
  BY <1>1, <1>5
<1>7. payloadUnmarshal(k, data) = r
  BY <1>5, <1>6 DEF payloadUnmarshal
<1>8. CASE k = "data"
  <2>1. Unmarshal(3, data) = r
    BY <1>7, <1>8 DEF Unmarshal
  <2> QED BY <1>3, <1>4, <1>8, <2>1 DEF m, id
<1>9. CASE k = "close"
  <2>1. payload = closePayload /\ closeUnmarshal(data) = r
    BY <1>7, <1>9 DEF closeUnmarshal
  <2>2. Unmarshal(4, data) = r
    BY <2>1 DEF Unmarshal
  <2> QED BY <1>3, <1>4, <1>9, <2>2 DEF m, id
<1> QED BY <1>8, <1>9

\* What is sealed for a key pair is unsealed with it, whatever the content.
LEMMA SealedBack ==
  ASSUME NEW content \in Bytes, NEW t \in Nat, NEW keyNo \in Nat
  PROVE  LET box == SealAnonymous(keyNo, <<Digit(t)>> \o content)
             m == [type |-> "sealed", box |-> box]
         IN /\ sealedUnmarshal(box) = m
            /\ Unseal(m, keyNo) = Unmarshal(t, content)
<1> DEFINE digit == <<Digit(t)>>
           data == digit \o content
           lock == Repeat(256 * keyNo, BoxLen)
           box == lock \o data
           m == [type |-> "sealed", box |-> box]
<1>1. BoxLen \in Nat /\ BoxLen >= 1 /\ 256 * keyNo \in Nat
  BY LengthsAssumption
<1>2. lock \in Bytes /\ Len(lock) = BoxLen /\ lock[1] = 256 * keyNo
  <2>1. lock \in Bytes /\ Len(lock) = BoxLen
    BY <1>1, RepeatType
  <2>2. lock[1] = 256 * keyNo
    BY <1>1 DEF Repeat
  <2> QED BY <2>1, <2>2
<1>3. digit \in Bytes /\ Len(digit) = 1 /\ digit[1] - 48 = t
  BY DEF Digit, Bytes
<1>4. SealAnonymous(keyNo, <<Digit(t)>> \o content) = box
  BY DEF SealAnonymous
<1> HIDE DEF digit, lock
<1>5. data \in Bytes /\ Joined(data, digit, content)
  BY <1>3, ConcatType, Joins, ZenonT(60)
<1>6. data[1] = digit[1]
  BY <1>3, ConcatProperties DEF Bytes
<1> HIDE DEF data
<1>7. box \in Bytes /\ Joined(box, lock, data)
  BY <1>2, <1>5, ConcatType, Joins, ZenonT(60)
<1>8. box[1] = lock[1]
  BY <1>1, <1>2, <1>5, ConcatProperties DEF Bytes
<1> HIDE DEF box
<1>9. /\ Len(box) = BoxLen + Len(data) /\ Len(data) = 1 + Len(content) /\ Len(content) \in Nat
      /\ Slice(box, BoxLen, Len(box)) = data /\ Slice(data, 1, Len(data)) = content
  <2>1. Slice(box, Len(lock), Len(box)) = data /\ Slice(data, Len(digit), Len(data)) = content
    BY <1>5, <1>7, TwoParts
  <2>2. Len(box) = Len(lock) + Len(data) /\ Len(data) = Len(digit) + Len(content)
        /\ Len(content) \in Nat
    BY <1>5, <1>7 DEF Joined
  <2> QED BY <1>2, <1>3, <2>1, <2>2
<1>10. ~(Len(box) <= 1) /\ ~(Len(box) < BoxLen)
  BY <1>1, <1>9
<1>11. sealedUnmarshal(box) = m
  BY <1>10 DEF sealedUnmarshal
<1>12. Unseal(m, keyNo) = Unmarshal(t, content)
  BY <1>2, <1>3, <1>6, <1>8, <1>9, <1>10 DEF Unseal, OpenAnonymous
<1> QED BY <1>4, <1>11, <1>12

-----------------------------------------------------------------------------
(* The path of one message *)

\* What the inputs are made of.
LEMMA InputTypes ==
  ASSUME Inputs
  PROVE  /\ IsBytes(s.localUUID, UUIDLen) /\ IsBytes(s.idKey, KeyLen) /\ IsBytes(s.key, KeyLen)
         /\ s.remoteUUID = << >> \/ IsBytes(s.remoteUUID, UUIDLen)
         /\ s.me \in Bytes /\ s.plaintext \in Bytes
         /\ op \in {"Offer", "OfferSealed"} => IsBytes(s.sig, SigLen)
         /\ op \in {"Acknowledge", "Send"} => IsHeader(s.header) /\ s.remoteUUID # << >>
         /\ IsBytes(now, TimeLen)
<1>1. \A x \in Seq(Byte) : x \in Bytes
  <2>1. Byte \subseteq Nat
    BY DEF Byte
  <2> QED BY <2>1, SeqMonotonic, ZenonT(60) DEF Bytes
<1>2. << >> \in Bytes
  BY DEF Bytes
<1>3. /\ \A u \in Uuids : IsBytes(u, UUIDLen)
      /\ \A k \in Keys : IsBytes(k, KeyLen)
      /\ \A g \in Sigs : IsBytes(g, SigLen)
      /\ \A c \in Times : IsBytes(c, TimeLen)
      /\ \A x \in Nicks \cup Plaintexts : x \in Bytes
      /\ \A n \in Numbers : IsUint16(n)
  <2>1. \A u \in Uuids : IsBytes(u, UUIDLen)
    BY <1>1, InputsAssumption, ZenonT(60) DEF IsBytes
  <2>2. \A k \in Keys : IsBytes(k, KeyLen)
    BY <1>1, InputsAssumption, ZenonT(60) DEF IsBytes
  <2>3. \A g \in Sigs : IsBytes(g, SigLen)
    BY <1>1, InputsAssumption, ZenonT(60) DEF IsBytes
  <2>4. \A c \in Times : IsBytes(c, TimeLen)
    BY <1>1, InputsAssumption, ZenonT(60) DEF IsBytes
  <2>5. Nicks \subseteq Seq(Byte) /\ Plaintexts \subseteq Seq(Byte)
        /\ \A n \in Numbers : IsUint16(n)
    BY InputsAssumption, ZenonT(60)
  <2>6. \A x \in Nicks \cup Plaintexts : x \in Bytes
    BY <1>1, <2>5, ZenonT(60)
  <2> QED BY <2>1, <2>2, <2>3, <2>4, <2>5, <2>6, ZenonT(60)
<1>4. /\ s.localUUID \in Uuids /\ s.idKey \in Keys /\ s.key \in Keys /\ now \in Times
      /\ s.remoteUUID \in Uuids \cup {<< >>} /\ s.sig \in Sigs \cup {<< >>}
      /\ s.me \in Nicks \cup {<< >>} /\ s.plaintext \in Plaintexts \cup {<< >>}
      /\ s.header \in Headers \cup {Nothing}
  BY DEF Inputs
<1>5. \A h \in Headers : IsHeader(h)
  BY <1>3 DEF Headers, IsHeader, IsBytes
<1>6. op \in {"Acknowledge", "Send"} => s.header # Nothing /\ s.remoteUUID # << >>
  BY DEF Inputs
<1>7. op \in {"Offer", "OfferSealed"} => s.sig # << >>
  BY DEF Inputs
<1> QED BY <1>2, <1>3, <1>4, <1>5, <1>6, <1>7

\* encTime keeps the width of an id and what follows the time in it.
LEMMA EncTimeType ==
  ASSUME NEW id \in Bytes, NEW t \in Bytes, Len(t) = TimeLen
  PROVE  /\ IsBytes(encTime(id, t), UUIDLen)
         /\ sessionhash(encTime(id, t)) = sessionhash(id)
<1>1. TimeLen \in Nat /\ EntropyLen \in Nat /\ UUIDLen = TimeLen + EntropyLen /\ UUIDLen \in Nat
  BY LengthsAssumption DEF UUIDLen
<1> DEFINE f == Field(id, UUIDLen)
           e == encTime(id, t)
<1>2. f \in Bytes /\ Len(f) = UUIDLen
  BY <1>1, FieldType
<1>3. e = [i \in 1 .. UUIDLen |-> IF i <= TimeLen THEN t[i] ELSE f[i]]
  BY DEF encTime
<1> HIDE DEF f, e
<1>4. \A i \in 1 .. UUIDLen : (IF i <= TimeLen THEN t[i] ELSE f[i]) \in Nat
  <2>1. \A i \in 1 .. UUIDLen : f[i] \in Nat
    BY <1>2, ElementOfSeq DEF Bytes
  <2>2. \A i \in 1 .. TimeLen : t[i] \in Nat
    BY ElementOfSeq DEF Bytes
  <2> QED BY <1>1, <2>1, <2>2
<1>5. e \in Bytes /\ Len(e) = UUIDLen
  BY <1>1, <1>3, <1>4, IsASeq DEF Bytes
<1>6. Field(e, UUIDLen) = e
  BY <1>5, FieldSame
<1>7. \A i \in 1 .. UUIDLen - TimeLen : e[TimeLen + i] = f[TimeLen + i]
  <2> TAKE i \in 1 .. UUIDLen - TimeLen
  <2>1. TimeLen + i \in 1 .. UUIDLen /\ ~(TimeLen + i <= TimeLen)
    BY <1>1
  <2> QED BY <1>3, <2>1
<1>8. Slice(e, TimeLen, UUIDLen) = Slice(f, TimeLen, UUIDLen)
  BY <1>7 DEF Slice
<1> QED BY <1>5, <1>6, <1>8 DEF e, f, sessionhash, IsBytes

\* sessionhash only looks at the bytes of an id.
LEMMA HashOfField ==
  ASSUME NEW id \in Bytes PROVE sessionhash(Field(id, UUIDLen)) = sessionhash(id)
<1>1. UUIDLen \in Nat
  BY LengthsAssumption DEF UUIDLen
<1>2. Field(id, UUIDLen) \in Bytes /\ Len(Field(id, UUIDLen)) = UUIDLen
  BY <1>1, FieldType
<1>3. Field(Field(id, UUIDLen), UUIDLen) = Field(id, UUIDLen)
  BY <1>2, FieldSame
<1> QED BY <1>3 DEF sessionhash

LEMMA HashOfNil == sessionhash(<< >>) = Repeat(0, EntropyLen)
<1>1. TimeLen \in Nat /\ EntropyLen \in Nat /\ UUIDLen = TimeLen + EntropyLen /\ UUIDLen \in Nat
  BY LengthsAssumption DEF UUIDLen
<1>2. Field(<< >>, UUIDLen) = Repeat(0, UUIDLen)
  BY <1>1, FieldNil
<1>3. UUIDLen - TimeLen = EntropyLen
  BY <1>1
<1>4. \A i \in 1 .. EntropyLen : Repeat(0, UUIDLen)[TimeLen + i] = 0
  BY <1>1 DEF Repeat
<1> QED BY <1>2, <1>3, <1>4, ZenonT(60) DEF sessionhash, Slice, Repeat

\* What Parse makes of the text: the message, an id of nil filled up with zeros.
Received == IF op = "Close" THEN [type |-> "close", uuid |-> Field(s.remoteUUID, UUIDLen),
                                  payload |-> closePayload]
            ELSE Made

\* The end of the path.
Final ==
  CASE op = "OfferSealed" -> createOffer
    [] op = "Acknowledge" -> [type |-> "opened", of |-> Made, header |-> s.header,
                              plaintext |-> InitialPayload]
    [] op = "Send" -> [type |-> "opened", of |-> Made, header |-> s.header,
                       plaintext |-> s.plaintext]
    [] OTHER -> Received

\* Every stage of the path is determined by the inputs.
PathInv ==
  /\ Inputs
  /\ text = NoText \/ text = marshalMessage(Made)
  /\ got = Nothing \/ got = Received \/ got = Final

\* The ciphertext in an ack or a text is never empty.
LEMMA EncryptType ==
  ASSUME NEW h, IsHeader(h), NEW plaintext \in Bytes
  PROVE  Encrypt(h, plaintext) \in Bytes /\ Len(Encrypt(h, plaintext)) > 0
<1>1. Decrypt(Encrypt(h, plaintext)) # Failed
  BY DecryptsWhatItEncrypts DEF Failed
<1>2. Encrypt(h, plaintext) \in Bytes
  BY DecryptsWhatItEncrypts
<1>3. Len(Encrypt(h, plaintext)) > headerLen
  BY <1>1 DEF Decrypt
<1>4. headerLen \in Nat
  BY LengthsAssumption DEF headerLen
<1> QED BY <1>2, <1>3, <1>4, LenProperties DEF Bytes

\* The plaintext of an ack starts with the id of the session.
LEMMA InitialPayloadType ==
  ASSUME Inputs
  PROVE  /\ InitialPayload \in Bytes
         /\ Slice(InitialPayload, 0, UUIDLen) = s.localUUID
<1>1. s.localUUID \in Bytes /\ Len(s.localUUID) = UUIDLen /\ s.plaintext \in Bytes
  BY InputTypes DEF IsBytes
<1>2. InitialPayload = s.localUUID \o s.plaintext
  BY <1>1, FieldSame, ZenonT(60) DEF InitialPayload
<1>3. s.localUUID \o s.plaintext \in Bytes
  BY <1>1, ConcatType
<1>4. Slice(s.localUUID \o s.plaintext, 0, Len(s.localUUID)) = s.localUUID
  BY ZenonT(60), <1>1, SliceFirst
<1> QED BY <1>1, <1>2, <1>3, <1>4

\* What is posted is parsed to Received, and that is opened to Final.
LEMMA PathSteps ==
  ASSUME Inputs
  PROVE  /\ unmarshalMessage(marshalMessage(Made)) = Received
         /\ op = "OfferSealed" => Received.type = "sealed" /\ Unseal(Received, ReaderKey) = Final
         /\ op = "Acknowledge" => Received.type = "ack"
              /\ Decrypt(Received.cipher) = [type |-> "opened", header |-> s.header,
                                             plaintext |-> InitialPayload]
         /\ op = "Send" => Received.type = "data"
              /\ Decrypt(Received.payload) = [type |-> "opened", header |-> s.header,
                                              plaintext |-> s.plaintext]
         /\ op = "Offer" => Received.type = "offer"
         /\ op = "Close" => Received.type = "close"
<1>1. op \in {"Offer", "OfferSealed", "Acknowledge", "Send", "Close"}
  BY DEF Inputs
<1>2. CASE op \in {"Offer", "OfferSealed"}
  <2>1. MarshalBinary(createOffer) \in Bytes /\ Unmarshal(1, MarshalBinary(createOffer)) = createOffer
    <3>1. /\ IsBytes(s.idKey, KeyLen) /\ IsBytes(s.key, KeyLen) /\ IsBytes(s.sig, SigLen)
          /\ IsBytes(s.localUUID, UUIDLen) /\ s.me \in Bytes
      BY <1>2, InputTypes
    <3> QED BY <3>1, OfferBack DEF createOffer
  <2>2. messageType(createOffer) = 1 /\ createOffer.type = "offer"
    BY DEF messageType, createOffer
  <2>3. CASE op = "Offer"
    <3>1. Made = createOffer /\ Received = createOffer
      BY <2>3 DEF Made, Received
    <3>2. marshalMessage(createOffer) =
            [prefix |-> "!RAT!", digit |-> Digit(1), base64 |-> MarshalBinary(createOffer),
             suffix |-> "!CHT!"]
      BY <2>2 DEF marshalMessage
    <3>3. Digit(1) - 48 = 1
      BY DEF Digit
    <3>4. unmarshalMessage(marshalMessage(createOffer)) = createOffer
      BY <2>1, <3>2, <3>3 DEF unmarshalMessage
    <3> QED BY <2>2, <2>3, <3>1, <3>4
  <2>4. CASE op = "OfferSealed"
    <3> DEFINE content == MarshalBinary(createOffer)
               box == SealAnonymous(ReaderKey, <<Digit(1)>> \o content)
               m == [type |-> "sealed", box |-> box]
    <3>1. Made = m /\ Received = m /\ Final = createOffer
      BY <2>2, <2>4 DEF Made, Received, Final, Seal
    <3>2. sealedUnmarshal(box) = m /\ Unseal(m, ReaderKey) = Unmarshal(1, content)
      BY <2>1, SealedBack DEF ReaderKey
    <3> HIDE DEF box, content
    <3>3. marshalMessage(m) = [prefix |-> "!RAT!", digit |-> Digit(5), base64 |-> box,
                               suffix |-> "!CHT!"]
      BY DEF marshalMessage, messageType
    <3>4. Digit(5) - 48 = 5
      BY DEF Digit
    <3>5. unmarshalMessage(marshalMessage(m)) = m
      BY <3>2, <3>3, <3>4 DEF unmarshalMessage, Unmarshal
    <3> QED BY <2>1, <2>4, <3>1, <3>2, <3>5 DEF content
  <2> QED BY <1>2, <2>3, <2>4
<1>3. CASE op = "Acknowledge"
  <2> DEFINE cipher == Encrypt(s.header, InitialPayload)
             m == [type |-> "ack", idKey |-> s.idKey, eKey |-> s.key, uuid |-> s.remoteUUID,
                   cipher |-> cipher]
  <2>1. Made = m /\ Received = m
    BY <1>3 DEF Made, Received
  <2>2. /\ IsBytes(s.idKey, KeyLen) /\ IsBytes(s.key, KeyLen) /\ IsBytes(s.remoteUUID, UUIDLen)
        /\ IsHeader(s.header) /\ InitialPayload \in Bytes
    BY <1>3, InputTypes, InitialPayloadType
  <2>3. cipher \in Bytes /\ Len(cipher) > 0
        /\ Decrypt(cipher) = [type |-> "opened", header |-> s.header, plaintext |-> InitialPayload]
    BY ZenonT(60), <2>2, EncryptType, DecryptsWhatItEncrypts
  <2> HIDE DEF cipher
  <2>4. Unmarshal(2, MarshalBinary(m)) = m
    BY <2>2, <2>3, AckBack
  <2>5. marshalMessage(m) = [prefix |-> "!RAT!", digit |-> Digit(2), base64 |-> MarshalBinary(m),
                             suffix |-> "!CHT!"]
    BY DEF marshalMessage, messageType
  <2>6. Digit(2) - 48 = 2
    BY DEF Digit
  <2>7. unmarshalMessage(marshalMessage(m)) = m
    BY <2>4, <2>5, <2>6 DEF unmarshalMessage
  <2> QED BY <1>3, <2>1, <2>3, <2>7
<1>4. CASE op = "Send"
  <2> DEFINE cipher == Encrypt(s.header, s.plaintext)
             id == encTime(s.remoteUUID, now)
             m == [type |-> "data", uuid |-> id, payload |-> cipher]
  <2>1. Made = m /\ Received = m
    BY <1>4 DEF Made, Received
  <2>2. s.remoteUUID \in Bytes /\ now \in Bytes /\ Len(now) = TimeLen
        /\ IsHeader(s.header) /\ s.plaintext \in Bytes
    BY <1>4, InputTypes DEF IsBytes
  <2>3. cipher \in Bytes /\ Len(cipher) > 0
        /\ Decrypt(cipher) = [type |-> "opened", header |-> s.header, plaintext |-> s.plaintext]
    BY ZenonT(60), <2>2, EncryptType, DecryptsWhatItEncrypts
  <2>4. id \in Bytes /\ Field(id, UUIDLen) = id
    BY <2>2, EncTimeType, FieldSame DEF IsBytes
  <2> HIDE DEF cipher, id
  <2>5. Unmarshal(3, MarshalBinary(m)) = m
    BY <2>3, <2>4, PayloadBack
  <2>6. marshalMessage(m) = [prefix |-> "!RAT!", digit |-> Digit(3), base64 |-> MarshalBinary(m),
                             suffix |-> "!CHT!"]
    BY DEF marshalMessage, messageType
  <2>7. Digit(3) - 48 = 3
    BY DEF Digit
  <2>8. unmarshalMessage(marshalMessage(m)) = m
    BY <2>5, <2>6, <2>7 DEF unmarshalMessage
  <2> QED BY <1>4, <2>1, <2>3, <2>8
<1>5. CASE op = "Close"
  <2> DEFINE m == [type |-> "close", uuid |-> s.remoteUUID, payload |-> closePayload]
             r == [type |-> "close", uuid |-> Field(s.remoteUUID, UUIDLen), payload |-> closePayload]
  <2>1. Made = m /\ Received = r
    BY <1>5 DEF Made, Received
  <2>2. s.remoteUUID \in Bytes
    <3>1. << >> \in Bytes
      BY DEF Bytes
    <3> QED BY <3>1, InputTypes DEF IsBytes
  <2>3. closePayload \in Bytes /\ Len(closePayload) > 0
    BY DEF Bytes, closePayload
  <2>4. Unmarshal(4, MarshalBinary(m)) = r
    <3>1. Unmarshal(IF "close" = "data" THEN 3 ELSE 4, MarshalBinary(m)) = r
      BY <2>2, <2>3, PayloadBack, ZenonT(60)
    <3> QED BY <3>1
  <2>5. marshalMessage(m) = [prefix |-> "!RAT!", digit |-> Digit(4), base64 |-> MarshalBinary(m),
                             suffix |-> "!CHT!"]
    BY DEF marshalMessage, messageType
  <2>6. Digit(4) - 48 = 4
    BY DEF Digit
  <2>7. unmarshalMessage(marshalMessage(m)) = r
    BY <2>4, <2>5, <2>6 DEF unmarshalMessage
  <2> QED BY <1>5, <2>1, <2>7
<1> QED BY <1>1, <1>2, <1>3, <1>4, <1>5

THEOREM PathInvariant == Spec => []PathInv
<1>1. Init => PathInv
  BY DEF Init, PathInv
<1>2. PathInv /\ [Next]_vars => PathInv'
  <2> SUFFICES ASSUME PathInv, [Next]_vars PROVE PathInv'
    OBVIOUS
  <2>1. Inputs
    BY DEF PathInv
  <2>2. /\ Nothing.type = "none"
        /\ op \in {"Offer", "OfferSealed", "Acknowledge", "Send", "Close"}
    BY <2>1 DEF Nothing, Inputs
  <2>3. UNCHANGED <<op, s, now>> =>
          /\ Inputs' = Inputs /\ Made' = Made /\ Received' = Received /\ Final' = Final
    BY DEF Inputs, Made, Received, Final, createOffer, InitialPayload
  <2>4. CASE Post
    BY ZenonT(60), <2>3, <2>4 DEF Post, PathInv
  <2>5. CASE Parse
    BY ZenonT(60), <2>1, <2>3, <2>5, PathSteps DEF Parse, PathInv
  <2>6. CASE OpenSealed
    <3>1. Received.type = "sealed" => op = "OfferSealed"
      BY <2>1, <2>2, PathSteps
    <3>2. Final.type # "sealed"
      BY <2>1, <2>2, PathSteps DEF Final, createOffer
    <3>3. got = Received /\ op = "OfferSealed"
      BY <2>2, <2>6, <3>1, <3>2 DEF OpenSealed, PathInv
    <3> QED BY ZenonT(60), <2>1, <2>3, <2>6, <3>3, PathSteps DEF OpenSealed, PathInv
  <2>7. CASE OpenCipher
    <3>1. Received.type \in {"ack", "data"} => op \in {"Acknowledge", "Send"}
      BY <2>1, <2>2, PathSteps
    <3>2. Final.type \notin {"ack", "data"}
      BY <2>1, <2>2, PathSteps DEF Final, createOffer
    <3>3. got = Received /\ op \in {"Acknowledge", "Send"}
      BY <2>2, <2>7, <3>1, <3>2 DEF OpenCipher, PathInv
    <3>4. Received = Made
      BY <3>3 DEF Received
    <3>5. got' = Final
      <4>1. CASE op = "Acknowledge"
        BY <2>1, <2>7, <3>3, <3>4, <4>1, PathSteps DEF OpenCipher, Final
      <4>2. CASE op = "Send"
        BY <2>1, <2>7, <3>3, <3>4, <4>2, PathSteps DEF OpenCipher, Final
      <4> QED BY <3>3, <4>1, <4>2
    <3> QED BY <2>1, <2>3, <2>7, <3>5 DEF OpenCipher, PathInv
  <2>8. CASE UNCHANGED vars
    BY <2>3, <2>8 DEF vars, PathInv
  <2> QED BY <2>4, <2>5, <2>6, <2>7, <2>8 DEF Next
<1> QED BY <1>1, <1>2, PTL DEF Spec

-----------------------------------------------------------------------------
\* The reader is at one of the stages of unmarshalMessage, Unseal and Decrypt.
THEOREM TypeCorrect == Spec => []TypeOK
<1>1. PathInv => TypeOK
  <2> SUFFICES ASSUME PathInv PROVE TypeOK
    OBVIOUS
  <2>1. Inputs /\ op \in {"Offer", "OfferSealed", "Acknowledge", "Send", "Close"}
    BY DEF PathInv, Inputs
  <2>2. Received.type \in {"offer", "ack", "close", "data", "sealed"}
    BY <2>1, PathSteps
  <2>3. Final.type \in {"offer", "ack", "close", "data", "opened", "sealed"}
    BY <2>1, <2>2 DEF Final, createOffer
  <2>4. Nothing.type = "none"
    BY DEF Nothing
  <2> QED BY <2>2, <2>3, <2>4 DEF PathInv, TypeOK
<1> QED BY <1>1, PathInvariant, PTL

\* No message that a Session makes is refused on the way to ReceiveMsg, and the
\* reader ends up with what the writer put in, for all widths and all inputs.
THEOREM PathIsFaithful == Spec => []PathFaithful
<1>1. PathInv => PathFaithful
  <2> SUFFICES ASSUME PathInv PROVE PathFaithful
    OBVIOUS
  <2>1. Inputs /\ op \in {"Offer", "OfferSealed", "Acknowledge", "Send", "Close"}
        /\ (got = Nothing \/ got = Received \/ got = Final)
    BY DEF PathInv, Inputs
  <2>2. CASE got = Nothing
    BY ZenonT(60), <2>2 DEF PathFaithful, Nothing
  <2>3. CASE op = "Offer"
    <3>1. Received = createOffer /\ Final = createOffer
      BY <2>3 DEF Received, Final, Made
    <3>2. got = Nothing \/ got = createOffer
      BY ZenonT(60), <2>1, <3>1
    <3>3. CASE got = createOffer
      BY <2>3, <3>3 DEF PathFaithful, createOffer
    <3> QED BY ZenonT(60), <2>2, <3>2, <3>3
  <2>4. CASE op = "OfferSealed"
    <3>1. Received.type = "sealed" /\ Final = createOffer
      BY <2>1, <2>4, PathSteps DEF Final
    <3> QED BY <2>1, <2>2, <3>1 DEF PathFaithful, createOffer
  <2>5. CASE op = "Acknowledge"
    <3>1. Received.type = "ack" /\ Slice(InitialPayload, 0, UUIDLen) = s.localUUID
      BY <2>1, <2>5, PathSteps, InitialPayloadType
    <3>2. Final = [type |-> "opened", of |-> Made, header |-> s.header,
                   plaintext |-> InitialPayload]
      BY <2>5 DEF Final
    <3>3. Made.idKey = s.idKey /\ Made.eKey = s.key
      BY <2>5 DEF Made
    <3> QED BY <2>1, <2>2, <2>5, <3>1, <3>2, <3>3 DEF PathFaithful
  <2>6. CASE op = "Send"
    <3>1. Received.type = "data"
      BY <2>1, <2>6, PathSteps
    <3>2. Final = [type |-> "opened", of |-> Made, header |-> s.header,
                   plaintext |-> s.plaintext]
      BY <2>6 DEF Final
    <3> QED BY <2>1, <2>2, <2>6, <3>1, <3>2 DEF PathFaithful
  <2>7. CASE op = "Close"
    <3>1. Received.type = "close" /\ Final = Received
      BY <2>1, <2>7, PathSteps DEF Final
    <3> QED BY <2>1, <2>2, <3>1 DEF PathFaithful
  <2> QED BY <2>1, <2>3, <2>4, <2>5, <2>6, <2>7
<1> QED BY <1>1, PathInvariant, PTL

\* An ack, a text or a close leads to the reader's session whatever the clock
\* put into its id; a close before the ack leads to the id of zeros.
THEOREM PathIsRouted == Spec => []Routed
<1>1. PathInv => Routed
  <2> SUFFICES ASSUME PathInv, got.type \in {"offer", "ack", "data", "close", "opened"}
               PROVE  sessionhash(Id(got)) =
                        IF got.type = "offer" THEN sessionhash(s.localUUID)
                        ELSE IF s.remoteUUID = << >> THEN Repeat(0, EntropyLen)
                        ELSE sessionhash(s.remoteUUID)
    BY DEF Routed
  <2>1. Inputs /\ op \in {"Offer", "OfferSealed", "Acknowledge", "Send", "Close"}
        /\ (got = Received \/ got = Final)
    BY DEF PathInv, Inputs, Nothing
  <2>2. CASE op \in {"Offer", "OfferSealed"}
    <3>1. got = createOffer
      <4>1. CASE op = "Offer"
        BY <2>1, <4>1 DEF Received, Final, Made
      <4>2. CASE op = "OfferSealed"
        <5>1. Received.type = "sealed" /\ Final = createOffer
          BY <2>1, <4>2, PathSteps DEF Final
        <5> QED BY <2>1, <5>1
      <4> QED BY <2>2, <4>1, <4>2
    <3> QED BY <3>1 DEF createOffer, Id
  <2>3. CASE op = "Acknowledge"
    <3>1. Received = Made /\ Made.type = "ack" /\ Made.uuid = s.remoteUUID
      BY <2>3 DEF Received, Made
    <3>2. Final.type = "opened" /\ Final.of = Made
      BY <2>3 DEF Final
    <3>3. Id(got) = s.remoteUUID /\ got.type # "offer"
      BY <2>1, <3>1, <3>2 DEF Id
    <3>4. s.remoteUUID # << >>
      BY <2>1, <2>3, InputTypes
    <3> QED BY <3>3, <3>4
  <2>4. CASE op = "Send"
    <3>1. Received = Made /\ Made.type = "data" /\ Made.uuid = encTime(s.remoteUUID, now)
      BY <2>4 DEF Received, Made
    <3>2. Final.type = "opened" /\ Final.of = Made
      BY <2>4 DEF Final
    <3>3. Id(got) = encTime(s.remoteUUID, now) /\ got.type # "offer"
      BY <2>1, <3>1, <3>2 DEF Id
    <3>4. s.remoteUUID # << >> /\ s.remoteUUID \in Bytes /\ now \in Bytes /\ Len(now) = TimeLen
      BY <2>1, <2>4, InputTypes DEF IsBytes
    <3>5. sessionhash(encTime(s.remoteUUID, now)) = sessionhash(s.remoteUUID)
      BY <3>4, EncTimeType
    <3> QED BY <3>3, <3>4, <3>5
  <2>5. CASE op = "Close"
    <3>1. Received = [type |-> "close", uuid |-> Field(s.remoteUUID, UUIDLen), payload |-> closePayload]
          /\ Final = Received
      BY <2>5 DEF Received, Final
    <3>2. Id(got) = Field(s.remoteUUID, UUIDLen) /\ got.type # "offer"
      BY <2>1, <3>1 DEF Id
    <3>3. s.remoteUUID \in Bytes
      <4>1. << >> \in Bytes
        BY DEF Bytes
      <4> QED BY <2>1, <4>1, InputTypes DEF IsBytes
    <3>4. sessionhash(Id(got)) = sessionhash(s.remoteUUID)
      BY <3>2, <3>3, HashOfField
    <3> QED BY <3>2, <3>4, HashOfNil
  <2> QED BY <2>1, <2>2, <2>3, <2>4, <2>5
<1> QED BY <1>1, PathInvariant, PTL
=============================================================================
