------------------------- MODULE JcsimStream_proofs -------------------------
(***************************************************************************)
(* What can be said of the byte stream of the jcsim transport, for digits, *)
(* prefixes, limits and timeouts of every size, and any commands and       *)
(* answers.                                                                *)
(*                                                                         *)
(* None of the properties says what is on the connection while a call      *)
(* reads.  Aligned does: as long as no call has ended inside a frame it is *)
(* the command just sent (Sent), or bytes of the answer to it that go on   *)
(* where the reads have got to (Answered), or nothing (AtRest).  That the  *)
(* bridge and transmit then find the frames is that from_be_bytes reads    *)
(* back what to_be_bytes wrote (BytesReadBack), digit by digit: after k    *)
(* digits it has the number without the others (Shifted).                  *)
(*                                                                         *)
(* Waits follows the clock of a call along the bytes it has read.          *)
(***************************************************************************)
EXTENDS JcsimStream, SequenceTheorems, WellFoundedInduction, TLAPS

------------------------------------------------------------------------------
(***************************************************************************)
(* The length prefix                                                       *)
(***************************************************************************)

\* A set of numbers that is not empty has a least element.
LEMMA LeastNumber ==
  ASSUME NEW T, T \subseteq Nat, T # {}
  PROVE  \E x \in T : \A y \in T : x <= y
<1>1. PICK x \in T : \A y \in T : ~ (<<y, x>> \in OpToRel(<, Nat))
  BY WFMin, NatLessThanWellFounded
<1>2. ASSUME NEW y \in T, y < x PROVE FALSE
  <2>1. <<y, x>> \in OpToRel(<, Nat)
    BY <1>2 DEF OpToRel
  <2> QED BY <2>1, <1>1, <1>2
<1> QED BY <1>2

\* A set of numbers that holds what follows any of its numbers holds them all, up
\* to where that goes: how the recursive definitions below are followed.
LEMMA CountingUp ==
  ASSUME NEW m \in Nat, NEW T, 0 \in T, \A n \in 1 .. m : n - 1 \in T => n \in T
  PROVE  0 .. m \subseteq T
<1> DEFINE missing == {n \in 0 .. m : n \notin T}
<1> SUFFICES ASSUME missing # {} PROVE FALSE
  OBVIOUS
<1>0. missing \subseteq Nat
  OBVIOUS
<1>1. PICK n \in missing : \A k \in missing : n <= k
  BY <1>0, LeastNumber
<1>2. n # 0 /\ n \in 1 .. m /\ n - 1 \in 0 .. m /\ n - 1 \notin missing
  BY <1>1
<1> QED BY <1>2

\* The larger of two numbers.
LEMMA MaxOfTwo ==
  ASSUME NEW a \in Nat, NEW b \in Nat
  PROVE  LET m == Max({a, b}) IN m \in Nat /\ m >= a /\ m >= b
<1>1. \E x \in {a, b} : \A y \in {a, b} : x >= y
  OBVIOUS
<1>2. Max({a, b}) \in {a, b} /\ \A y \in {a, b} : Max({a, b}) >= y
  BY <1>1 DEF Max
<1> QED BY <1>2

\* The sizes, as numbers.
LEMMA Sizes ==
  /\ Base \in Nat \ {0, 1} /\ HeaderLen \in Nat \ {0} /\ RapduMax \in Nat \ {0}
  /\ MaxFrame \in Nat \ {0} /\ TimeoutTicks \in Nat \ {0}
  /\ \A c \in CApdus : c \in Seq(Byte)
  /\ \A r \in RApdus : r \in Seq(Byte) /\ Len(r) <= MaxFrame
BY StreamAssumption

\* What a number is made of: its last digit and the rest.
LEMMA LastDigit ==
  ASSUME NEW w \in Nat \ {0}, NEW p \in Nat
  PROVE  p = (p \div w) * w + (p % w) /\ (p \div w) \in Nat /\ p % w \in 0 .. w - 1
OBVIOUS

\* The rest of a smaller number is no larger.
LEMMA SmallerRest ==
  ASSUME NEW w \in Nat \ {0}, NEW p \in Nat, NEW q \in Nat, p <= q
  PROVE  p \div w <= q \div w
<1>1. /\ p = (p \div w) * w + (p % w) /\ (p \div w) \in Nat /\ p % w \in 0 .. w - 1
      /\ q = (q \div w) * w + (q % w) /\ (q \div w) \in Nat /\ q % w \in 0 .. w - 1
  BY LastDigit
<1> DEFINE a == p \div w
           b == q \div w
<1>2. a \in Nat /\ b \in Nat /\ a * w <= q /\ q < b * w + w
  BY <1>1
<1> HIDE DEF a, b
<1>3. ASSUME a > b PROVE FALSE
  <2>1. a >= b + 1
    BY <1>2, <1>3
  <2>2. a * w >= (b + 1) * w
    BY <1>2, <2>1
  <2>3. (b + 1) * w = b * w + w
    BY <1>2
  <2>4. a * w \in Nat /\ b * w \in Nat
    BY <1>2
  <2> QED BY <1>2, <2>2, <2>3, <2>4
<1> QED BY <1>2, <1>3 DEF a, b

\* The first k values of Shifted, as a function of its own.
ShiftsUpTo(n, g, m) == g = [k \in 0 .. m |-> IF k = 0 THEN n ELSE g[k - 1] \div Base]

\* Shifted is defined for every number of digits.
LEMMA ShiftedDefined ==
  ASSUME NEW n
  PROVE  ShiftsUpTo(n, Shifted(n), HeaderLen)
<1> DEFINE T == {m \in Nat : \E g : ShiftsUpTo(n, g, m)}
<1>1. 0 \in T
  <2>1. ShiftsUpTo(n, [k \in 0 .. 0 |-> n], 0)
    BY DEF ShiftsUpTo
  <2> QED BY <2>1
<1>2. ASSUME NEW m \in 1 .. HeaderLen, m - 1 \in T PROVE m \in T
  <2>0. m \in Nat
    BY Sizes
  <2>1. PICK g : ShiftsUpTo(n, g, m - 1)
    BY <1>2
  <2> DEFINE h == [k \in 0 .. m |-> IF k = m THEN g[m - 1] \div Base ELSE g[k]]
  <2>2. \A k \in 0 .. m - 1 : g[k] = IF k = 0 THEN n ELSE g[k - 1] \div Base
    BY <2>1 DEF ShiftsUpTo
  <2>3. \A k \in 0 .. m : h[k] = IF k = 0 THEN n ELSE h[k - 1] \div Base
    BY <2>0, <2>2
  <2>4. ShiftsUpTo(n, h, m)
    <3> h = [k \in 0 .. m |-> h[k]]
      OBVIOUS
    <3> HIDE DEF h
    <3> QED BY <2>3 DEF ShiftsUpTo
  <2> QED BY <2>0, <2>4
<1>3. HeaderLen \in T
  <2> HIDE DEF T
  <2>1. 0 .. HeaderLen \subseteq T
    BY <1>1, <1>2, CountingUp, Sizes
  <2> QED BY <2>1, Sizes
<1>4. Shifted(n) = CHOOSE g : ShiftsUpTo(n, g, HeaderLen)
  BY DEF Shifted, ShiftsUpTo
<1> QED BY <1>3, <1>4

\* Each shift drops a digit.
LEMMA ShiftedStep ==
  ASSUME NEW n \in Nat
  PROVE  /\ Shifted(n)[0] = n
         /\ \A k \in 0 .. HeaderLen : Shifted(n)[k] \in Nat
         /\ \A k \in 1 .. HeaderLen : Shifted(n)[k] = Shifted(n)[k - 1] \div Base
<1> DEFINE q == Shifted(n)
<1>1. \A k \in 0 .. HeaderLen : q[k] = IF k = 0 THEN n ELSE q[k - 1] \div Base
  BY ShiftedDefined DEF ShiftsUpTo
<1> HIDE DEF q
<1> DEFINE T == {k \in 0 .. HeaderLen : q[k] \in Nat}
<1>2. 0 .. HeaderLen \subseteq T
  <2>1. 0 \in T
    BY <1>1, Sizes
  <2>2. ASSUME NEW k \in 1 .. HeaderLen, k - 1 \in T PROVE k \in T
    <3>1. k \in 0 .. HeaderLen /\ k # 0 /\ q[k - 1] \in Nat
      BY <2>2, Sizes
    <3>2. q[k - 1] \div Base \in Nat
      BY <3>1, LastDigit, Sizes
    <3> QED BY <1>1, <3>1, <3>2
  <2> HIDE DEF T
  <2> QED BY <2>1, <2>2, CountingUp, Sizes
<1> QED BY <1>1, <1>2, Sizes DEF q

\* What fits MaxFrame fits the prefix.
LEMMA LengthFits ==
  ASSUME NEW n \in Nat, n <= MaxFrame
  PROVE  Shifted(n)[HeaderLen] = 0
<1> DEFINE p == Shifted(n)
           q == Shifted(MaxFrame)
           T == {k \in 0 .. HeaderLen : p[k] <= q[k]}
<1>0. MaxFrame \in Nat
  BY Sizes
<1>1. /\ p[0] = n /\ q[0] = MaxFrame
      /\ \A k \in 0 .. HeaderLen : p[k] \in Nat /\ q[k] \in Nat
      /\ \A k \in 1 .. HeaderLen : p[k] = p[k - 1] \div Base /\ q[k] = q[k - 1] \div Base
  BY <1>0, ShiftedStep
<1>2. q[HeaderLen] = 0
  BY StreamAssumption
<1> HIDE DEF p, q
<1>3. 0 \in T
  BY <1>1, Sizes
<1>4. ASSUME NEW k \in 1 .. HeaderLen, k - 1 \in T PROVE k \in T
  <2>1. k \in 0 .. HeaderLen /\ k - 1 \in 0 .. HeaderLen /\ p[k - 1] <= q[k - 1]
    BY <1>4, Sizes
  <2>2. p[k - 1] \div Base <= q[k - 1] \div Base
    BY <1>1, <2>1, SmallerRest, Sizes
  <2> QED BY <1>1, <2>1, <2>2
<1>5. HeaderLen \in 0 .. HeaderLen
  BY Sizes
<1>6. HeaderLen \in T
  <2> HIDE DEF T
  <2> QED BY <1>3, <1>4, <1>5, CountingUp, Sizes
<1>7. p[HeaderLen] <= 0 /\ p[HeaderLen] \in Nat
  BY <1>1, <1>2, <1>5, <1>6
<1> QED BY <1>7 DEF p
\* The first k values of FromBeBytes, as a function of its own.
ValuesUpTo(d, g, m) == g = [k \in 0 .. m |-> IF k = 0 THEN 0 ELSE g[k - 1] * Base + d[k]]

\* The value of a prefix is defined.
LEMMA ValueDefined ==
  ASSUME NEW d, Len(d) = HeaderLen
  PROVE  ValuesUpTo(d, ValueUpTo(d), HeaderLen)
<1> DEFINE T == {m \in Nat : \E g : ValuesUpTo(d, g, m)}
<1>1. 0 \in T
  <2>1. ValuesUpTo(d, [k \in 0 .. 0 |-> 0], 0)
    BY DEF ValuesUpTo
  <2> QED BY <2>1
<1>2. ASSUME NEW m \in 1 .. HeaderLen, m - 1 \in T PROVE m \in T
  <2>0. m \in Nat
    BY Sizes
  <2>1. PICK g : ValuesUpTo(d, g, m - 1)
    BY <1>2
  <2> DEFINE h == [k \in 0 .. m |-> IF k = m THEN g[m - 1] * Base + d[m] ELSE g[k]]
  <2>2. \A k \in 0 .. m - 1 : g[k] = IF k = 0 THEN 0 ELSE g[k - 1] * Base + d[k]
    BY <2>1 DEF ValuesUpTo
  <2>3. \A k \in 0 .. m : h[k] = IF k = 0 THEN 0 ELSE h[k - 1] * Base + d[k]
    BY <2>0, <2>2
  <2>4. ValuesUpTo(d, h, m)
    <3> h = [k \in 0 .. m |-> h[k]]
      OBVIOUS
    <3> HIDE DEF h
    <3> QED BY <2>3 DEF ValuesUpTo
  <2> QED BY <2>0, <2>4
<1>3. HeaderLen \in T
  <2> HIDE DEF T
  <2>1. 0 .. HeaderLen \subseteq T
    BY <1>1, <1>2, CountingUp, Sizes
  <2> QED BY <2>1, Sizes
<1>4. ValueUpTo(d) = CHOOSE g : ValuesUpTo(d, g, HeaderLen)
  BY DEF ValueUpTo, ValuesUpTo
<1> QED BY <1>3, <1>4

\* from_be_bytes reads a number from any bytes.
LEMMA FromBytesIsNat ==
  ASSUME NEW d \in Seq(Byte), Len(d) = HeaderLen
  PROVE  FromBeBytes(d) \in Nat
<1> DEFINE v == ValueUpTo(d)
           T == {k \in 0 .. HeaderLen : v[k] \in Nat}
<1>1. \A k \in 0 .. HeaderLen : v[k] = IF k = 0 THEN 0 ELSE v[k - 1] * Base + d[k]
  BY ValueDefined DEF ValuesUpTo
<1> HIDE DEF v
<1>2. 0 \in T
  BY <1>1, Sizes
<1>3. ASSUME NEW k \in 1 .. HeaderLen, k - 1 \in T PROVE k \in T
  <2>1. k \in 0 .. HeaderLen /\ k # 0 /\ v[k - 1] \in Nat
    BY <1>3, Sizes
  <2>2. d[k] \in Byte
    BY <1>3
  <2>3. d[k] \in Nat
    BY <2>2, Sizes DEF Byte
  <2>4. v[k - 1] * Base \in Nat
    BY <2>1, Sizes
  <2> QED BY <1>1, <2>1, <2>3, <2>4
<1>4. HeaderLen \in T
  <2> HIDE DEF T
  <2> QED BY <1>2, <1>3, CountingUp, Sizes
<1> QED BY <1>4 DEF v, FromBeBytes

\* to_be_bytes writes bytes, as many as the prefix has.
LEMMA ToBytesTyped ==
  ASSUME NEW n \in Nat
  PROVE  ToBeBytes(n) \in Seq(Byte) /\ Len(ToBeBytes(n)) = HeaderLen
<1>1. ASSUME NEW i \in 1 .. HeaderLen PROVE Shifted(n)[HeaderLen - i] % Base \in Byte
  <2>1. HeaderLen - i \in 0 .. HeaderLen
    BY Sizes
  <2>2. Shifted(n)[HeaderLen - i] \in Nat
    BY <2>1, ShiftedStep
  <2> QED BY <2>2, LastDigit, Sizes DEF Byte
<1>2. ToBeBytes(n) \in [1 .. HeaderLen -> Byte]
  BY <1>1 DEF ToBeBytes
<1> QED BY <1>2, Sizes

\* from_be_bytes reads back what to_be_bytes wrote.
LEMMA BytesReadBack ==
  ASSUME NEW n \in Nat, n <= MaxFrame
  PROVE  FromBeBytes(ToBeBytes(n)) = n
<1> DEFINE d == ToBeBytes(n)
           q == Shifted(n)
           v == ValueUpTo(d)
           T == {k \in 0 .. HeaderLen : v[k] = q[HeaderLen - k]}
<1>0. Len(d) = HeaderLen
  BY ToBytesTyped
<1>1. \A k \in 0 .. HeaderLen : v[k] = IF k = 0 THEN 0 ELSE v[k - 1] * Base + d[k]
  BY <1>0, ValueDefined DEF ValuesUpTo
<1>2. /\ q[0] = n /\ q[HeaderLen] = 0
      /\ \A k \in 0 .. HeaderLen : q[k] \in Nat
      /\ \A k \in 1 .. HeaderLen : q[k] = q[k - 1] \div Base
  BY ShiftedStep, LengthFits
<1>3. \A i \in 1 .. HeaderLen : d[i] = q[HeaderLen - i] % Base
  BY DEF ToBeBytes
<1> HIDE DEF d, q, v
<1>4. 0 \in T
  BY <1>1, <1>2, Sizes
<1>5. ASSUME NEW k \in 1 .. HeaderLen, k - 1 \in T PROVE k \in T
  <2>1. /\ k \in 0 .. HeaderLen /\ k # 0 /\ HeaderLen - (k - 1) \in 1 .. HeaderLen
        /\ (HeaderLen - (k - 1)) - 1 = HeaderLen - k /\ HeaderLen - k \in 0 .. HeaderLen
    BY Sizes
  <2>2. v[k - 1] = q[HeaderLen - (k - 1)]
    BY <1>5
  <2>3. q[HeaderLen - (k - 1)] = q[HeaderLen - k] \div Base
    BY <1>2, <2>1
  <2>4. v[k] = (q[HeaderLen - k] \div Base) * Base + (q[HeaderLen - k] % Base)
    BY <1>1, <1>3, <2>1, <2>2, <2>3
  <2>5. q[HeaderLen - k] \in Nat
    BY <1>2, <2>1
  <2>6. v[k] = q[HeaderLen - k]
    BY <2>4, <2>5, LastDigit, Sizes
  <2> QED BY <2>1, <2>6
<1>6. HeaderLen \in T
  <2> HIDE DEF T
  <2> QED BY <1>4, <1>5, CountingUp, Sizes
<1>7. v[HeaderLen] = n
  BY <1>2, <1>6, Sizes
<1> QED BY <1>0, <1>7 DEF v, d, FromBeBytes

\* A frame is its length and what it carries.
LEMMA FrameTyped ==
  ASSUME NEW s \in Seq(Byte)
  PROVE  /\ Frame(s) \in Seq(Byte) /\ Len(Frame(s)) = HeaderLen + Len(s)
         /\ \A i \in 1 .. HeaderLen : Frame(s)[i] = ToBeBytes(Len(s))[i]
         /\ \A i \in 1 .. Len(s) : Frame(s)[HeaderLen + i] = s[i]
<1> DEFINE h == ToBeBytes(Len(s))
<1>1. Len(s) \in Nat /\ h \in Seq(Byte) /\ Len(h) = HeaderLen
  BY ToBytesTyped
<1> HIDE DEF h
<1>2. /\ h \o s \in Seq(Byte) /\ Len(h \o s) = HeaderLen + Len(s)
      /\ \A i \in 1 .. HeaderLen + Len(s) :
           (h \o s)[i] = IF i <= HeaderLen THEN h[i] ELSE s[i - HeaderLen]
  BY <1>1, ConcatProperties
<1>3. \A i \in 1 .. HeaderLen : i \in 1 .. HeaderLen + Len(s) /\ i <= HeaderLen
  BY <1>1, Sizes
<1>4. \A i \in 1 .. Len(s) : /\ HeaderLen + i \in 1 .. HeaderLen + Len(s)
                             /\ ~ (HeaderLen + i <= HeaderLen) /\ (HeaderLen + i) - HeaderLen = i
  BY <1>1, Sizes
<1>5. Frame(s) = h \o s
  BY DEF Frame, h
<1>6. \A i \in 1 .. HeaderLen : Frame(s)[i] = h[i]
  BY <1>2, <1>3, <1>5
<1>7. \A i \in 1 .. Len(s) : Frame(s)[HeaderLen + i] = s[i]
  <2> SUFFICES ASSUME NEW i \in 1 .. Len(s) PROVE (h \o s)[HeaderLen + i] = s[i]
    BY <1>5
  <2> QED BY <1>2, <1>4
<1> QED BY <1>2, <1>5, <1>6, <1>7 DEF h

------------------------------------------------------------------------------
(***************************************************************************)
(* What has been read of an answer, and what is still to come              *)
(***************************************************************************)

\* s is the beginning of t, and u comes next.
Upto(s, u, t) ==
  /\ Len(s) + Len(u) <= Len(t)
  /\ \A i \in 1 .. Len(s) : s[i] = t[i]
  /\ \A i \in 1 .. Len(u) : u[i] = t[Len(s) + i]

\* Some bytes and those after them, of what is to come.
LEMMA CutInTwo ==
  ASSUME NEW u \in Seq(Byte), NEW k \in 0 .. Len(u)
  PROVE  /\ SubSeq(u, 1, k) \in Seq(Byte) /\ Len(SubSeq(u, 1, k)) = k
         /\ \A i \in 1 .. k : SubSeq(u, 1, k)[i] = u[i]
         /\ SubSeq(u, k + 1, Len(u)) \in Seq(Byte) /\ Len(SubSeq(u, k + 1, Len(u))) = Len(u) - k
         /\ \A i \in 1 .. Len(u) - k : SubSeq(u, k + 1, Len(u))[i] = u[k + i]
<1>0. Len(u) \in Nat /\ k \in Nat /\ k <= Len(u)
  OBVIOUS
<1>1. /\ SubSeq(u, 1, k) \in Seq(Byte)
      /\ Len(SubSeq(u, 1, k)) = IF 1 <= k THEN k - 1 + 1 ELSE 0
      /\ \A i \in 1 .. k - 1 + 1 : SubSeq(u, 1, k)[i] = u[1 + i - 1]
  <2>1. \A i \in 1 .. k : u[i] \in Byte
    BY <1>0
  <2> QED BY <1>0, <2>1, SubSeqProperties
<1>2. /\ SubSeq(u, k + 1, Len(u)) \in Seq(Byte)
      /\ Len(SubSeq(u, k + 1, Len(u))) = IF k + 1 <= Len(u) THEN Len(u) - (k + 1) + 1 ELSE 0
      /\ \A i \in 1 .. Len(u) - (k + 1) + 1 : SubSeq(u, k + 1, Len(u))[i] = u[(k + 1) + i - 1]
  <2>1. \A i \in k + 1 .. Len(u) : u[i] \in Byte
    BY <1>0
  <2> QED BY <1>0, <2>1, SubSeqProperties
<1>3. Len(SubSeq(u, 1, k)) = k /\ Len(SubSeq(u, k + 1, Len(u))) = Len(u) - k
  BY <1>0, <1>1, <1>2
<1>4. ASSUME NEW i \in 1 .. k PROVE SubSeq(u, 1, k)[i] = u[i]
  <2>1. i \in 1 .. k - 1 + 1 /\ 1 + i - 1 = i
    BY <1>0
  <2> QED BY <1>1, <2>1
<1>5. ASSUME NEW i \in 1 .. Len(u) - k PROVE SubSeq(u, k + 1, Len(u))[i] = u[k + i]
  <2>1. i \in 1 .. Len(u) - (k + 1) + 1 /\ (k + 1) + i - 1 = k + i
    BY <1>0
  <2> QED BY <1>2, <2>1
<1> QED BY <1>1, <1>2, <1>3, <1>4, <1>5

\* A read moves on in the answer.
LEMMA ReadMovesOn ==
  ASSUME NEW s \in Seq(Byte), NEW u \in Seq(Byte), NEW t \in Seq(Byte), NEW k \in 1 .. Len(u),
         Upto(s, u, t)
  PROVE  Upto(s \o SubSeq(u, 1, k), SubSeq(u, k + 1, Len(u)), t)
<1> DEFINE a == SubSeq(u, 1, k)
           b == SubSeq(u, k + 1, Len(u))
           w == s \o a
<1>0. Len(s) \in Nat /\ Len(u) \in Nat /\ Len(t) \in Nat /\ k \in 0 .. Len(u) /\ k \in Nat
  OBVIOUS
<1>1. /\ a \in Seq(Byte) /\ Len(a) = k /\ \A i \in 1 .. k : a[i] = u[i]
      /\ b \in Seq(Byte) /\ Len(b) = Len(u) - k /\ \A i \in 1 .. Len(u) - k : b[i] = u[k + i]
  BY <1>0, CutInTwo
<1> HIDE DEF a, b
<1>2. /\ Len(w) = Len(s) + k
      /\ \A i \in 1 .. Len(s) + k : w[i] = IF i <= Len(s) THEN s[i] ELSE a[i - Len(s)]
  BY <1>1, ConcatProperties
<1> HIDE DEF w
<1>3. Len(w) + Len(b) <= Len(t)
  BY <1>0, <1>1, <1>2 DEF Upto
<1>4. ASSUME NEW i \in 1 .. Len(w) PROVE w[i] = t[i]
  <2>1. CASE i <= Len(s)
    <3>1. i \in 1 .. Len(s) /\ i \in 1 .. Len(s) + k
      BY <1>0, <1>2, <2>1
    <3> QED BY <1>2, <2>1, <3>1 DEF Upto
  <2>2. CASE ~ (i <= Len(s))
    <3>1. /\ i - Len(s) \in 1 .. k /\ i - Len(s) \in 1 .. Len(u) /\ i \in 1 .. Len(s) + k
          /\ Len(s) + (i - Len(s)) = i
      BY <1>0, <1>2, <2>2
    <3>2. w[i] = u[i - Len(s)]
      BY <1>1, <1>2, <2>2, <3>1
    <3>3. u[i - Len(s)] = t[Len(s) + (i - Len(s))]
      BY <3>1 DEF Upto
    <3> QED BY <3>1, <3>2, <3>3
  <2> QED BY <2>1, <2>2
<1>5. ASSUME NEW i \in 1 .. Len(b) PROVE b[i] = t[Len(w) + i]
  <2>1. k + i \in 1 .. Len(u) /\ i \in 1 .. Len(u) - k /\ Len(s) + (k + i) = Len(w) + i
    BY <1>0, <1>1, <1>2
  <2>2. b[i] = u[k + i]
    BY <1>1, <2>1
  <2>3. u[k + i] = t[Len(s) + (k + i)]
    BY <2>1 DEF Upto
  <2> QED BY <2>1, <2>2, <2>3
<1>6. Upto(w, b, t)
  BY <1>3, <1>4, <1>5 DEF Upto
<1> QED BY <1>6 DEF w, a, b

\* What never arrives was still to come.
LEMMA LessToCome ==
  ASSUME NEW s \in Seq(Byte), NEW u \in Seq(Byte), NEW t \in Seq(Byte), NEW k \in 0 .. Len(u),
         Upto(s, u, t)
  PROVE  Upto(s, SubSeq(u, 1, k), t)
<1> DEFINE a == SubSeq(u, 1, k)
<1>0. Len(s) \in Nat /\ Len(u) \in Nat /\ Len(t) \in Nat /\ k \in Nat /\ k <= Len(u)
  OBVIOUS
<1>1. Len(a) = k /\ \A i \in 1 .. k : a[i] = u[i]
  BY CutInTwo
<1> HIDE DEF a
<1>2. Len(s) + Len(a) <= Len(t)
  BY <1>0, <1>1 DEF Upto
<1>3. \A i \in 1 .. Len(a) : a[i] = t[Len(s) + i]
  <2> SUFFICES ASSUME NEW i \in 1 .. Len(a) PROVE a[i] = t[Len(s) + i]
    OBVIOUS
  <2>1. i \in 1 .. k /\ i \in 1 .. Len(u)
    BY <1>0, <1>1
  <2> QED BY <1>1, <2>1 DEF Upto
<1>4. Upto(s, a, t)
  BY <1>2, <1>3 DEF Upto
<1> QED BY <1>4 DEF a

\* When as many bytes have been read as there are, they are those.
LEMMA AllRead ==
  ASSUME NEW s \in Seq(Byte), NEW u \in Seq(Byte), NEW t \in Seq(Byte), Upto(s, u, t), Len(s) = Len(t)
  PROVE  s = t /\ u = <<>>
<1>1. Len(u) = 0
  <2>1. Len(s) \in Nat /\ Len(u) \in Nat
    OBVIOUS
  <2> QED BY <2>1 DEF Upto
<1>2. s = t
  BY SeqEqual DEF Upto
<1> QED BY <1>1, <1>2

\* When the length has been read, what is to come is the answer.
LEMMA PrefixRead ==
  ASSUME NEW s \in Seq(Byte), NEW u \in Seq(Byte), NEW t \in Seq(Byte),
         Upto(s, u, Frame(t)), Len(s) = HeaderLen
  PROVE  s = ToBeBytes(Len(t)) /\ Upto(<<>>, u, t)
<1> DEFINE f == Frame(t)
<1>0. Len(s) \in Nat /\ Len(u) \in Nat /\ Len(t) \in Nat
  OBVIOUS
<1>1. /\ f \in Seq(Byte) /\ Len(f) = HeaderLen + Len(t)
      /\ \A i \in 1 .. HeaderLen : f[i] = ToBeBytes(Len(t))[i]
      /\ \A i \in 1 .. Len(t) : f[HeaderLen + i] = t[i]
      /\ ToBeBytes(Len(t)) \in Seq(Byte) /\ Len(ToBeBytes(Len(t))) = HeaderLen
  BY <1>0, FrameTyped, ToBytesTyped
<1> HIDE DEF f
<1>2. Upto(s, u, f)
  BY DEF f
<1>3. s = ToBeBytes(Len(t))
  <2>1. \A i \in 1 .. Len(s) : s[i] = ToBeBytes(Len(t))[i]
    BY <1>1, <1>2 DEF Upto
  <2> QED BY <1>1, <2>1, SeqEqual
<1>4. Len(u) <= Len(t)
  BY <1>0, <1>1, <1>2, Sizes DEF Upto
<1>5. \A i \in 1 .. Len(u) : u[i] = t[0 + i]
  <2> SUFFICES ASSUME NEW i \in 1 .. Len(u) PROVE u[i] = t[i]
    OBVIOUS
  <2>1. i \in 1 .. Len(t)
    BY <1>0, <1>4
  <2>2. u[i] = f[HeaderLen + i]
    BY <1>2 DEF Upto
  <2> QED BY <1>1, <2>1, <2>2
<1>6. Upto(<<>>, u, t)
  <2>1. Len(<<>>) = 0 /\ 0 + Len(u) <= Len(t)
    BY <1>0, <1>4
  <2> QED BY <1>5, <2>1 DEF Upto
<1> QED BY <1>3, <1>6

\* Nothing read of it yet.
LEMMA NothingRead ==
  ASSUME NEW t \in Seq(Byte)
  PROVE  Upto(<<>>, t, t)
<1>1. Len(t) \in Nat /\ Len(<<>>) = 0
  OBVIOUS
<1> QED BY <1>1 DEF Upto

------------------------------------------------------------------------------
(***************************************************************************)
(* The inductive invariant                                                 *)
(***************************************************************************)

\* What the variables are.
Types ==
  /\ connected \in BOOLEAN /\ pc \in {"idle", "len", "body"}
  /\ got \in Seq(Byte) /\ up \in Seq(Byte) /\ down \in Seq(Byte)
  /\ need \in Nat /\ quiet \in Nat /\ waited \in Nat
  /\ asked \in Seq(CApdus) /\ forwarded \in Seq(Seq(Byte)) /\ replies \in Seq(RApdus)
  /\ cut \in {"no", "toolong", "failed"}

\* read_exact fills a buffer of [u8; 4] or of at most [u8; RAPDU_MAX].
Reading ==
  /\ Len(got) <= need
  /\ need = HeaderLen \/ need <= RapduMax
  /\ pc = "len" => need = HeaderLen
  /\ pc = "body" => need <= RapduMax

\* A timeout at most for each byte read, and one for the byte awaited.
Waits ==
  /\ quiet <= TimeoutTicks
  /\ pc # "idle" /\ Complete => quiet = 0
  /\ pc = "len" => waited <= TimeoutTicks * Len(got) + quiet
  /\ pc = "body" => waited <= TimeoutTicks * (HeaderLen + Len(got)) + quiet
  /\ waited <= TimeoutTicks * (HeaderLen + RapduMax)

\* The command is on its way to the bridge, alone.
Sent(c) ==
  /\ pc = "len" /\ got = <<>> /\ down = <<>>
  /\ Framable(c) /\ up = Frame(c)
  /\ asked = Append(forwarded, c) /\ Len(replies) = Len(forwarded)

\* All the bytes on their way are of the answer to it.
Answered ==
  /\ up = <<>> /\ forwarded = asked /\ Len(replies) = Len(asked) /\ replies # <<>>
  /\ \/ pc = "len" /\ Upto(got, down, Frame(Last(replies)))
     \/ pc = "body" /\ need = Len(Last(replies)) /\ Upto(got, down, Last(replies))

\* There are none.
AtRest ==
  /\ pc = "idle" /\ up = <<>> /\ down = <<>>
  /\ forwarded = asked /\ Len(replies) = Len(asked)
  /\ outcome.kind = "ok" => outcome.bytes = Last(replies)

\* Of a connection on which no call has ended inside a frame.
Aligned == cut = "no" => AtRest \/ Answered \/ \E c \in CApdus : Sent(c)

\* `connected` tells of the calls that failed.
UpSays == connected => cut # "failed"

\* The inductive invariant.
StreamInv == Types /\ Reading /\ Waits /\ Aligned /\ UpSays

\* The initial state satisfies it.
LEMMA InitAligned ==
  ASSUME Init
  PROVE  StreamInv
<1>1. Len(<<>>) = 0 /\ <<>> \in Seq(Byte) /\ <<>> \in Seq(CApdus) /\ <<>> \in Seq(RApdus)
      /\ <<>> \in Seq(Seq(Byte))
  OBVIOUS
<1>2. Types
  BY <1>1 DEF Init, Types
<1>3. Reading
  BY <1>1, Sizes DEF Init, Reading
<1>4. Waits
  <2>1. 0 <= TimeoutTicks * (HeaderLen + RapduMax)
    BY Sizes
  <2> QED BY <2>1, Sizes DEF Init, Waits
<1>5. Aligned /\ UpSays
  BY DEF Init, Aligned, AtRest, UpSays, Outcome
<1> QED BY <1>2, <1>3, <1>4, <1>5 DEF StreamInv

\* What the bridge takes out of what was written to it.
LEMMA FrameTaken ==
  ASSUME NEW u \in Seq(Byte), NEW n \in Nat, HeaderLen + n <= Len(u)
  PROVE  /\ SubSeq(u, 1, HeaderLen) \in Seq(Byte) /\ Len(SubSeq(u, 1, HeaderLen)) = HeaderLen
         /\ \A i \in 1 .. HeaderLen : SubSeq(u, 1, HeaderLen)[i] = u[i]
         /\ SubSeq(u, HeaderLen + 1, HeaderLen + n) \in Seq(Byte)
         /\ Len(SubSeq(u, HeaderLen + 1, HeaderLen + n)) = n
         /\ \A i \in 1 .. n : SubSeq(u, HeaderLen + 1, HeaderLen + n)[i] = u[HeaderLen + i]
         /\ SubSeq(u, HeaderLen + n + 1, Len(u)) \in Seq(Byte)
         /\ Len(SubSeq(u, HeaderLen + n + 1, Len(u))) = Len(u) - (HeaderLen + n)
<1>0. Len(u) \in Nat /\ HeaderLen \in 0 .. Len(u) /\ HeaderLen + n \in 0 .. Len(u)
  BY Sizes
<1> DEFINE first == HeaderLen + 1
           last == HeaderLen + n
<1>1. first \in Int /\ last \in Int /\ first = HeaderLen + 1 /\ last = HeaderLen + n
      /\ \A i \in first .. last : u[i] \in Byte
  BY <1>0, Sizes
<1> HIDE DEF first, last
<1>2. /\ SubSeq(u, first, last) \in Seq(Byte)
      /\ Len(SubSeq(u, first, last)) = n
      /\ \A i \in 1 .. n : SubSeq(u, first, last)[i] = u[HeaderLen + i]
  <2>1. /\ SubSeq(u, first, last) \in Seq(Byte)
        /\ Len(SubSeq(u, first, last)) = IF first <= last THEN last - first + 1 ELSE 0
        /\ \A i \in 1 .. last - first + 1 : SubSeq(u, first, last)[i] = u[first + i - 1]
    BY <1>1, SubSeqProperties
  <2>2. last - first + 1 = n /\ (first <= last <=> n # 0)
    BY <1>1, Sizes
  <2>3. ASSUME NEW i \in 1 .. n PROVE SubSeq(u, first, last)[i] = u[HeaderLen + i]
    <3>1. first + i - 1 = HeaderLen + i
      BY <1>1, Sizes
    <3> QED BY <2>1, <2>2, <3>1
  <2> QED BY <2>1, <2>2, <2>3
<1>4. /\ SubSeq(u, 1, HeaderLen) \in Seq(Byte) /\ Len(SubSeq(u, 1, HeaderLen)) = HeaderLen
      /\ \A i \in 1 .. HeaderLen : SubSeq(u, 1, HeaderLen)[i] = u[i]
  BY <1>0, CutInTwo
<1>5. /\ SubSeq(u, (HeaderLen + n) + 1, Len(u)) \in Seq(Byte)
      /\ Len(SubSeq(u, (HeaderLen + n) + 1, Len(u))) = Len(u) - (HeaderLen + n)
  BY <1>0, CutInTwo
<1> QED BY <1>1, <1>2, <1>4, <1>5 DEF first, last

\* Of a command that was sent whole, the bridge reads the length and takes it all.
LEMMA CommandTaken ==
  ASSUME NEW c \in Seq(Byte), Framable(c)
  PROVE  /\ FromBeBytes(SubSeq(Frame(c), 1, HeaderLen)) = Len(c)
         /\ SubSeq(Frame(c), HeaderLen + 1, HeaderLen + Len(c)) = c
         /\ SubSeq(Frame(c), HeaderLen + Len(c) + 1, Len(Frame(c))) = <<>>
<1> DEFINE f == Frame(c)
           h == SubSeq(f, 1, HeaderLen)
           b == SubSeq(f, HeaderLen + 1, HeaderLen + Len(c))
           e == SubSeq(f, HeaderLen + Len(c) + 1, Len(f))
<1>0. Len(c) \in Nat /\ Len(c) <= MaxFrame
  BY DEF Framable
<1>1. /\ f \in Seq(Byte) /\ Len(f) = HeaderLen + Len(c)
      /\ \A i \in 1 .. HeaderLen : f[i] = ToBeBytes(Len(c))[i]
      /\ \A i \in 1 .. Len(c) : f[HeaderLen + i] = c[i]
      /\ ToBeBytes(Len(c)) \in Seq(Byte) /\ Len(ToBeBytes(Len(c))) = HeaderLen
  BY <1>0, FrameTyped, ToBytesTyped
<1>2. /\ h \in Seq(Byte) /\ Len(h) = HeaderLen /\ \A i \in 1 .. HeaderLen : h[i] = f[i]
      /\ b \in Seq(Byte) /\ Len(b) = Len(c) /\ \A i \in 1 .. Len(c) : b[i] = f[HeaderLen + i]
      /\ e \in Seq(Byte) /\ Len(e) = Len(f) - (HeaderLen + Len(c))
  <2>1. HeaderLen + Len(c) <= Len(f)
    BY <1>0, <1>1, Sizes
  <2> HIDE DEF f
  <2> QED BY <1>0, <1>1, <2>1, FrameTaken
<1> HIDE DEF f, h, b, e
<1>3. h = ToBeBytes(Len(c))
  <2>1. \A i \in 1 .. Len(h) : h[i] = ToBeBytes(Len(c))[i]
    BY <1>1, <1>2
  <2> QED BY <1>1, <1>2, <2>1, SeqEqual
<1>4. FromBeBytes(h) = Len(c)
  BY <1>0, <1>3, BytesReadBack
<1>5. b = c
  <2>1. \A i \in 1 .. Len(b) : b[i] = c[i]
    BY <1>1, <1>2
  <2> QED BY <1>2, <2>1, SeqEqual
<1>6. e = <<>>
  <2>1. Len(e) = 0
    BY <1>0, <1>1, <1>2, Sizes
  <2> QED BY <1>2, <2>1
<1> QED BY <1>4, <1>5, <1>6 DEF f, h, b, e

------------------------------------------------------------------------------
(***************************************************************************)
(* Its steps                                                               *)
(***************************************************************************)

\* The bytes of a read, and those left.
LEMMA ReadTyped ==
  ASSUME Types, NEW k \in 1 .. Len(down)
  PROVE  /\ got \o SubSeq(down, 1, k) \in Seq(Byte)
         /\ Len(got \o SubSeq(down, 1, k)) = Len(got) + k
         /\ SubSeq(down, k + 1, Len(down)) \in Seq(Byte)
         /\ Len(got) \in Nat /\ k \in Nat \ {0}
<1>1. got \in Seq(Byte) /\ down \in Seq(Byte) /\ Len(down) \in Nat
  BY DEF Types
<1>2. k \in 0 .. Len(down) /\ k \in Nat \ {0}
  BY <1>1
<1>3. SubSeq(down, 1, k) \in Seq(Byte) /\ Len(SubSeq(down, 1, k)) = k
      /\ SubSeq(down, k + 1, Len(down)) \in Seq(Byte)
  BY <1>1, <1>2, CutInTwo
<1> QED BY <1>1, <1>2, <1>3, ConcatProperties

\* The length of an answer is a number, whatever the four bytes are.
LEMMA LengthTyped ==
  ASSUME Types, Reading, pc = "len", Complete
  PROVE  Len(got) = HeaderLen /\ FromBeBytes(got) \in Nat
<1>1. got \in Seq(Byte) /\ Len(got) = HeaderLen
  BY DEF Types, Reading, Complete
<1> QED BY <1>1, FromBytesIsNat

\* Every step keeps the types.
LEMMA TypesKept ==
  ASSUME StreamInv, [Next]_vars
  PROVE  Types'
<1>0. /\ connected \in BOOLEAN /\ pc \in {"idle", "len", "body"}
      /\ got \in Seq(Byte) /\ up \in Seq(Byte) /\ down \in Seq(Byte)
      /\ need \in Nat /\ quiet \in Nat /\ waited \in Nat
      /\ asked \in Seq(CApdus) /\ forwarded \in Seq(Seq(Byte)) /\ replies \in Seq(RApdus)
      /\ cut \in {"no", "toolong", "failed"} /\ Len(down) \in Nat /\ Len(up) \in Nat
  BY DEF StreamInv, Types
<1>e. <<>> \in Seq(Byte) /\ <<>> \in Seq(CApdus) /\ <<>> \in Seq(RApdus) /\ <<>> \in Seq(Seq(Byte))
  OBVIOUS
<1>1. ASSUME NEW c \in CApdus, Send(c) PROVE Types'
  <2>1. up \o Frame(c) \in Seq(Byte)
    BY <1>0, Sizes, FrameTyped, ConcatProperties
  <2>2. Append(asked, c) \in Seq(CApdus)
    BY <1>0
  <2> QED BY <1>0, <1>1, <1>e, <2>1, <2>2, Sizes DEF Send, StartRead, traffic, Types, Called
<1>2. ASSUME NEW c \in CApdus, SendRefused(c) PROVE Types'
  BY <1>0, <1>2 DEF SendRefused, wire, clocks, history, Types
<1>3. ASSUME NEW c \in CApdus, SendFails(c) PROVE Types'
  <2>1. PICK k \in 0 .. Len(Frame(c)) - 1 : up' = up \o SubSeq(Frame(c), 1, k)
    BY <1>3 DEF SendFails
  <2>2. Frame(c) \in Seq(Byte) /\ k \in 0 .. Len(Frame(c))
    BY Sizes, FrameTyped
  <2>3. up' \in Seq(Byte)
    BY <1>0, <2>1, <2>2, CutInTwo, ConcatProperties
  <2> QED BY <1>0, <1>3, <2>3 DEF SendFails, Fail, clocks, traffic, Types
<1>4. CASE ReadSome
  <2>1. PICK k \in 1 .. Len(down) : /\ got' = got \o SubSeq(down, 1, k)
                                    /\ down' = SubSeq(down, k + 1, Len(down))
    BY <1>4 DEF ReadSome
  <2>2. got' \in Seq(Byte) /\ down' \in Seq(Byte)
    BY <2>1, ReadTyped DEF StreamInv
  <2> QED BY <1>0, <1>4, <2>2 DEF ReadSome, history, Types
<1>5. CASE LengthRead
  <2>1. FromBeBytes(got) \in Nat
    BY <1>5, LengthTyped DEF LengthRead, StreamInv
  <2> QED BY <1>0, <1>5, <1>e, <2>1 DEF LengthRead, StartRead, wire, history, Types
<1>6. CASE LengthRefused
  BY <1>0, <1>6 DEF LengthRefused, wire, clocks, traffic, Types
<1>7. CASE Return
  BY <1>0, <1>7 DEF Return, wire, clocks, history, Types
<1>8. CASE ReadTimeout \/ ReadEof
  BY <1>0, <1>8 DEF ReadTimeout, ReadEof, Fail, wire, clocks, traffic, Types
<1>9. CASE Tick
  BY <1>0, <1>9 DEF Tick, client, wire, history, Types
<1>10. CASE Reset
  BY <1>0, <1>10, <1>e DEF Reset, NewWire, clocks, Types
<1>11. CASE ResetFails
  BY <1>0, <1>11, <1>e DEF ResetFails, NewWire, Fail, clocks, traffic, Types
<1>12. ASSUME NEW r \in RApdus, Forward(r) PROVE Types'
  <2> DEFINE end == HeaderLen + Announced
  <2>1. /\ Len(up) >= end /\ Len(up) >= HeaderLen
        /\ forwarded' = Append(forwarded, SubSeq(up, HeaderLen + 1, end))
        /\ up' = SubSeq(up, end + 1, Len(up))
        /\ replies' = Append(replies, r) /\ down' = down \o Frame(r)
    BY <1>12 DEF Forward, Headed
  <2>2. Announced \in Nat
    <3>1. HeaderLen \in 0 .. Len(up)
      BY <1>0, <2>1, Sizes
    <3>2. SubSeq(up, 1, HeaderLen) \in Seq(Byte) /\ Len(SubSeq(up, 1, HeaderLen)) = HeaderLen
      BY <1>0, <3>1, CutInTwo
    <3> QED BY <3>2, FromBytesIsNat DEF Announced
  <2>3. SubSeq(up, HeaderLen + 1, end) \in Seq(Byte) /\ SubSeq(up, end + 1, Len(up)) \in Seq(Byte)
    <3>1. HeaderLen + Announced <= Len(up)
      BY <1>0, <2>1, <2>2, Sizes
    <3> HIDE DEF Announced
    <3> QED BY <1>0, <2>2, <3>1, FrameTaken
  <2>4. down' \in Seq(Byte)
    BY <1>0, <2>1, Sizes, FrameTyped, ConcatProperties
  <2>5. forwarded' \in Seq(Seq(Byte)) /\ replies' \in Seq(RApdus) /\ up' \in Seq(Byte)
    <3> HIDE DEF end
    <3> QED BY <1>0, <2>1, <2>3, AppendProperties
  <2> QED BY <1>0, <1>12, <2>4, <2>5 DEF Forward, client, clocks, Types
<1>13. CASE HangUp
  BY <1>0, <1>13 DEF HangUp, client, clocks, history, Types
<1>14. CASE BridgeGone
  <2>1. PICK k \in 0 .. Len(down) : down' = SubSeq(down, 1, k)
    BY <1>14 DEF BridgeGone
  <2>2. down' \in Seq(Byte)
    BY <1>0, <2>1, CutInTwo
  <2> QED BY <1>0, <1>14, <2>2 DEF BridgeGone, client, clocks, history, Types
<1>15. CASE UNCHANGED vars
  BY <1>0, <1>15 DEF vars, client, wire, clocks, history, Types
<1> QED BY <1>1, <1>2, <1>3, <1>4, <1>5, <1>6, <1>7, <1>8, <1>9, <1>10, <1>11, <1>12, <1>13, <1>14,
           <1>15 DEF Next

\* Every step keeps `connected` true to the calls that failed.
LEMMA UpStays ==
  ASSUME StreamInv, [Next]_vars
  PROVE  UpSays'
<1>0. UpSays
  BY DEF StreamInv
<1>1. ASSUME NEW c \in CApdus, Send(c) \/ SendRefused(c) \/ SendFails(c) PROVE UpSays'
  BY <1>0, <1>1 DEF Send, SendRefused, SendFails, Fail, history, UpSays
<1>2. CASE LengthRead \/ LengthRefused \/ Return
  BY <1>0, <1>2 DEF LengthRead, LengthRefused, Return, history, UpSays
<1>3. CASE ReadTimeout \/ ReadEof \/ Reset \/ ResetFails
  BY <1>3 DEF ReadTimeout, ReadEof, Reset, ResetFails, Fail, UpSays
<1>4. CASE ReadSome \/ Tick \/ HangUp \/ BridgeGone \/ \E r \in RApdus : Forward(r)
  BY <1>0, <1>4 DEF ReadSome, Tick, HangUp, BridgeGone, Forward, client, history, UpSays
<1>5. CASE UNCHANGED vars
  BY <1>0, <1>5 DEF vars, client, history, UpSays
<1> QED BY <1>1, <1>2, <1>3, <1>4, <1>5 DEF Next

\* A timeout for each byte.
LEMMA OneTimeoutEach ==
  ASSUME NEW a \in Nat, NEW b \in Nat, a <= b
  PROVE  /\ TimeoutTicks * a \in Nat /\ TimeoutTicks * a <= TimeoutTicks * b
         /\ a < b => TimeoutTicks * a + TimeoutTicks <= TimeoutTicks * b
<1>1. TimeoutTicks \in Nat
  BY Sizes
<1>2. TimeoutTicks * a \in Nat /\ TimeoutTicks * b \in Nat /\ TimeoutTicks * (a + 1) \in Nat
  BY <1>1
<1>3. TimeoutTicks * (a + 1) = TimeoutTicks * a + TimeoutTicks
  BY <1>1
<1>4. TimeoutTicks * a <= TimeoutTicks * b
  BY <1>1
<1>5. ASSUME a < b PROVE TimeoutTicks * (a + 1) <= TimeoutTicks * b
  <2>1. a + 1 <= b
    BY <1>5
  <2> QED BY <1>1, <2>1
<1> QED BY <1>2, <1>3, <1>4, <1>5

\* What has been waited for a of b bytes, and q ticks for the next.
LEMMA WaitedAtMost ==
  ASSUME NEW a \in Nat, NEW b \in Nat, NEW q \in Nat, NEW w \in Nat,
         a <= b, q <= TimeoutTicks, a = b => q = 0, w <= TimeoutTicks * a + q
  PROVE  w <= TimeoutTicks * b
<1>1. /\ TimeoutTicks * a \in Nat /\ TimeoutTicks * a <= TimeoutTicks * b
      /\ a < b => TimeoutTicks * a + TimeoutTicks <= TimeoutTicks * b
  BY OneTimeoutEach
<1>2. TimeoutTicks * b \in Nat /\ TimeoutTicks \in Nat
  BY Sizes
<1> QED BY <1>1, <1>2

\* A step of read_exact keeps the count.
LEMMA WaitsStays ==
  ASSUME StreamInv, [Next]_vars
  PROVE  Reading' /\ Waits'
<1>0. /\ Types /\ Reading /\ Waits /\ Types'
      /\ Len(got) \in Nat /\ need \in Nat /\ quiet \in Nat /\ waited \in Nat
      /\ HeaderLen \in Nat \ {0} /\ RapduMax \in Nat \ {0} /\ TimeoutTicks \in Nat \ {0}
      /\ Len(<<>>) = 0
  BY TypesKept, Sizes DEF StreamInv, Types
<1>i. ASSUME pc' = "idle", UNCHANGED <<got, need, clocks>> PROVE Reading' /\ Waits'
  BY <1>0, <1>i DEF clocks, Reading, Waits
<1>s. ASSUME UNCHANGED <<client, clocks>> PROVE Reading' /\ Waits'
  BY <1>0, <1>s DEF client, clocks, Reading, Waits, Complete
<1>1. ASSUME NEW c \in CApdus, Send(c) PROVE Reading' /\ Waits'
  <2>1. pc' = "len" /\ need' = HeaderLen /\ got' = <<>> /\ quiet' = 0 /\ waited' = 0
    BY <1>1 DEF Send, StartRead
  <2>2. TimeoutTicks * 0 = 0 /\ 0 <= TimeoutTicks * (HeaderLen + RapduMax)
    BY <1>0
  <2> QED BY <1>0, <2>1, <2>2 DEF Reading, Waits
<1>2. ASSUME NEW c \in CApdus, SendRefused(c) \/ SendFails(c) PROVE Reading' /\ Waits'
  BY <1>i, <1>2 DEF SendRefused, SendFails, Fail, Called
<1>3. CASE ReadSome
  <2>1. PICK k \in 1 .. Len(down) : /\ k <= need - Len(got) /\ got' = got \o SubSeq(down, 1, k)
    BY <1>3 DEF ReadSome
  <2>2. Len(got') = Len(got) + k /\ k \in Nat \ {0}
    BY <1>0, <2>1, ReadTyped
  <2>3. UNCHANGED <<pc, need, waited>> /\ quiet' = 0 /\ pc \in {"len", "body"}
    BY <1>3 DEF ReadSome, Blocked
  <2>4. Reading'
    BY <1>0, <2>1, <2>2, <2>3 DEF Reading
  <2>5. CASE pc = "len"
    <3>1. waited <= TimeoutTicks * Len(got) + quiet /\ quiet <= TimeoutTicks
      BY <1>0, <2>5 DEF Waits
    <3>2. TimeoutTicks * Len(got) \in Nat /\ TimeoutTicks * Len(got) + TimeoutTicks <= TimeoutTicks * (Len(got) + k)
      BY <1>0, <2>2, OneTimeoutEach
    <3>3. waited <= TimeoutTicks * (Len(got) + k)
      <4>1. TimeoutTicks * (Len(got) + k) \in Nat
        BY <1>0, <2>2
      <4> QED BY <1>0, <3>1, <3>2, <4>1
    <3> QED BY <1>0, <2>2, <2>3, <2>4, <2>5, <3>3 DEF Waits
  <2>6. CASE pc = "body"
    <3>1. waited <= TimeoutTicks * (HeaderLen + Len(got)) + quiet /\ quiet <= TimeoutTicks
      BY <1>0, <2>6 DEF Waits
    <3>2. /\ TimeoutTicks * (HeaderLen + Len(got)) \in Nat
          /\ TimeoutTicks * (HeaderLen + Len(got)) + TimeoutTicks <= TimeoutTicks * (HeaderLen + (Len(got) + k))
      BY <1>0, <2>2, OneTimeoutEach
    <3>3. waited <= TimeoutTicks * (HeaderLen + (Len(got) + k))
      <4>1. TimeoutTicks * (HeaderLen + (Len(got) + k)) \in Nat
        BY <1>0, <2>2
      <4> QED BY <1>0, <3>1, <3>2, <4>1
    <3> QED BY <1>0, <2>2, <2>3, <2>4, <2>6, <3>3 DEF Waits
  <2> QED BY <2>3, <2>5, <2>6
<1>4. CASE LengthRead
  <2>1. /\ pc = "len" /\ Complete /\ ~ Oversized(FromBeBytes(got))
        /\ pc' = "body" /\ need' = FromBeBytes(got) /\ got' = <<>> /\ quiet' = 0 /\ waited' = waited
    BY <1>4 DEF LengthRead, StartRead
  <2>2. Len(got) = HeaderLen /\ FromBeBytes(got) \in Nat /\ FromBeBytes(got) <= RapduMax
    BY <1>0, <2>1, LengthTyped DEF Oversized
  <2>3. waited <= TimeoutTicks * HeaderLen
    <3>1. waited <= TimeoutTicks * Len(got) + quiet /\ quiet = 0 /\ TimeoutTicks * HeaderLen \in Nat
      BY <1>0, <2>1 DEF Waits
    <3> QED BY <1>0, <2>2, <3>1
  <2>4. HeaderLen + 0 = HeaderLen
    BY <1>0
  <2> QED BY <1>0, <2>1, <2>2, <2>3, <2>4 DEF Reading, Waits
<1>5. CASE LengthRefused \/ Return \/ ReadTimeout \/ ReadEof
  BY <1>i, <1>5 DEF LengthRefused, Return, ReadTimeout, ReadEof, Fail
<1>6. CASE Tick
  <2>1. /\ quiet < TimeoutTicks /\ quiet' = quiet + 1 /\ waited' = waited + 1
        /\ pc' = pc /\ got' = got /\ need' = need /\ pc \in {"len", "body"} /\ ~ Complete /\ ~ Complete'
    BY <1>6 DEF Tick, Blocked, client, Complete
  <2>2. Reading'
    BY <1>0, <2>1 DEF Reading
  <2>3. quiet' <= TimeoutTicks /\ (pc' # "idle" /\ Complete' => quiet' = 0)
    BY <1>0, <2>1
  <2>4. /\ pc = "len" => waited' <= TimeoutTicks * Len(got) + quiet'
        /\ pc = "body" => waited' <= TimeoutTicks * (HeaderLen + Len(got)) + quiet'
    <3>1. TimeoutTicks * Len(got) \in Nat /\ TimeoutTicks * (HeaderLen + Len(got)) \in Nat
      BY <1>0
    <3> QED BY <1>0, <2>1, <3>1 DEF Waits
  <2>5. waited' <= TimeoutTicks * (HeaderLen + RapduMax)
    <3>1. quiet' \in Nat /\ waited' \in Nat /\ Len(got) <= need /\ Len(got) # need
      BY <1>0, <2>1 DEF Types, Reading, Complete
    <3>2. CASE pc = "len"
      <4>1. need = HeaderLen /\ Len(got) <= HeaderLen + RapduMax /\ Len(got) # HeaderLen + RapduMax
        BY <1>0, <3>1, <3>2 DEF Reading
      <4>2. HeaderLen + RapduMax \in Nat
        BY <1>0
      <4> QED BY <1>0, <2>3, <2>4, <3>1, <3>2, <4>1, <4>2, WaitedAtMost
    <3>3. CASE pc = "body"
      <4>1. need <= RapduMax
        BY <1>0, <3>3 DEF Reading
      <4>2. /\ HeaderLen + RapduMax \in Nat /\ HeaderLen + Len(got) \in Nat
            /\ HeaderLen + Len(got) <= HeaderLen + RapduMax
            /\ HeaderLen + Len(got) # HeaderLen + RapduMax
        BY <1>0, <3>1, <4>1
      <4> QED BY <1>0, <2>3, <2>4, <3>1, <3>3, <4>2, WaitedAtMost
    <3> QED BY <2>1, <3>2, <3>3
  <2> QED BY <1>0, <2>1, <2>2, <2>3, <2>4, <2>5 DEF Waits
<1>7. CASE Reset \/ ResetFails
  BY <1>i, <1>7 DEF Reset, ResetFails, Fail, Shut
<1>8. CASE HangUp \/ BridgeGone \/ \E r \in RApdus : Forward(r)
  BY <1>s, <1>8 DEF HangUp, BridgeGone, Forward
<1>9. CASE UNCHANGED vars
  BY <1>s, <1>9 DEF vars
<1> QED BY <1>1, <1>2, <1>3, <1>4, <1>5, <1>6, <1>7, <1>8, <1>9 DEF Next

\* A command that was appended, and the answer to it.
LEMMA AppendedLast ==
  ASSUME NEW S, NEW s \in Seq(S), NEW x \in S
  PROVE  /\ Last(Append(s, x)) = x /\ Len(Append(s, x)) = Len(s) + 1
         /\ Append(s, x) # <<>> /\ Len(s) \in Nat
BY AppendProperties DEF Last

\* Every step that is not an error keeps all that is on the connection one command or
\* its answer.
LEMMA AlignedStays ==
  ASSUME StreamInv, [Next]_vars
  PROVE  Aligned'
<1>0. /\ Types /\ Types' /\ Reading /\ Aligned
      /\ got \in Seq(Byte) /\ up \in Seq(Byte) /\ down \in Seq(Byte) /\ need \in Nat
      /\ asked \in Seq(CApdus) /\ forwarded \in Seq(Seq(Byte)) /\ replies \in Seq(RApdus)
      /\ Len(<<>>) = 0 /\ <<>> \in Seq(Byte)
  BY TypesKept DEF StreamInv, Types
<1>1. ASSUME NEW c \in CApdus, Send(c) PROVE Aligned'
  <2>1. /\ pc = "idle" /\ Framable(c) /\ up' = up \o Frame(c) /\ asked' = Append(asked, c)
        /\ pc' = "len" /\ got' = <<>> /\ down' = down /\ cut' = cut
        /\ forwarded' = forwarded /\ replies' = replies
    BY <1>1 DEF Send, StartRead, Called, traffic
  <2>2. CASE cut = "no"
    <3>1. up = <<>> /\ down = <<>> /\ forwarded = asked /\ Len(replies) = Len(asked)
      BY <1>0, <2>1, <2>2 DEF Aligned, AtRest, Answered, Sent
    <3>2. <<>> \o Frame(c) = Frame(c)
      BY Sizes, FrameTyped, ConcatEmptySeq
    <3>3. Sent(c)'
      BY <2>1, <3>1, <3>2 DEF Sent, Framable, Frame, ToBeBytes
    <3> QED BY <3>3 DEF Aligned
  <2> QED BY <2>1, <2>2 DEF Aligned
<1>2. ASSUME NEW c \in CApdus, SendRefused(c) PROVE Aligned'
  <2>1. /\ pc = "idle" /\ pc' = "idle" /\ cut' = cut /\ outcome'.kind # "ok"
        /\ UNCHANGED <<up, down, asked, forwarded, replies>>
    BY <1>2 DEF SendRefused, Called, Outcome, wire, history
  <2> QED BY <1>0, <2>1 DEF Aligned, AtRest, Answered, Sent
<1>3. ASSUME NEW c \in CApdus, SendFails(c) PROVE Aligned'
  BY <1>3 DEF SendFails, Fail, Aligned
<1>4. CASE ReadSome
  <2>1. PICK k \in 1 .. Len(down) : /\ k <= need - Len(got) /\ got' = got \o SubSeq(down, 1, k)
                                    /\ down' = SubSeq(down, k + 1, Len(down))
    BY <1>4 DEF ReadSome
  <2>2. /\ UNCHANGED <<pc, need, outcome, up, asked, forwarded, replies, cut>> /\ pc # "idle"
        /\ down # <<>>
    BY <1>0, <1>4, <2>1 DEF ReadSome, Blocked, history
  <2>3. CASE cut = "no"
    <3>1. Answered
      BY <1>0, <2>2, <2>3 DEF Aligned, AtRest, Sent
    <3>2. Last(replies) \in Seq(Byte) /\ Frame(Last(replies)) \in Seq(Byte)
      <4>1. Last(replies) \in RApdus
        BY <1>0, <3>1 DEF Answered, Last
      <4> QED BY <4>1, Sizes, FrameTyped
    <3>3. ASSUME NEW t \in Seq(Byte), Upto(got, down, t) PROVE Upto(got', down', t)
      BY <1>0, <2>1, <3>3, ReadMovesOn
    <3>4. Answered'
      <4> DEFINE r == Last(replies)
      <4>1. Last(replies)' = r /\ Frame(Last(replies))' = Frame(r)
        BY <2>2
      <4>2. CASE pc = "len" /\ Upto(got, down, Frame(r))
        <5>1. Upto(got', down', Frame(r))
          BY <3>2, <3>3, <4>2
        <5>2. Upto(got, down, Frame(Last(replies)))'
          BY <4>1, <5>1 DEF Upto
        <5> QED BY <2>2, <3>1, <4>2, <5>2 DEF Answered
      <4>3. CASE pc = "body" /\ need = Len(r) /\ Upto(got, down, r)
        <5>1. Upto(got', down', r)
          BY <3>2, <3>3, <4>3
        <5>2. Upto(got, down, Last(replies))'
          BY <4>1, <5>1 DEF Upto
        <5> QED BY <2>2, <3>1, <4>1, <4>3, <5>2 DEF Answered
      <4> QED BY <3>1, <4>2, <4>3 DEF Answered
    <3> QED BY <3>4 DEF Aligned
  <2> QED BY <2>2, <2>3 DEF Aligned
<1>5. CASE LengthRead
  <2>1. /\ pc = "len" /\ Complete /\ pc' = "body" /\ need' = FromBeBytes(got) /\ got' = <<>>
        /\ UNCHANGED <<up, down, asked, forwarded, replies, cut>>
    BY <1>5 DEF LengthRead, StartRead, wire, history
  <2>2. CASE cut = "no"
    <3> DEFINE r == Last(replies)
    <3>1. Len(got) = HeaderLen
      BY <1>0, <2>1, LengthTyped
    <3>2. Answered
      BY <1>0, <2>1, <2>2, <3>1, Sizes DEF Aligned, AtRest, Sent
    <3>3. r \in Seq(Byte) /\ Len(r) <= MaxFrame /\ Len(r) \in Nat
      <4>1. r \in RApdus
        BY <1>0, <3>2 DEF Answered, Last
      <4> QED BY <4>1, Sizes
    <3>4. Upto(got, down, Frame(r))
      BY <2>1, <3>2 DEF Answered
    <3>5. got = ToBeBytes(Len(r)) /\ Upto(<<>>, down, r)
      <4> HIDE DEF r
      <4> QED BY <1>0, <3>1, <3>3, <3>4, PrefixRead
    <3>6. need' = Len(r)
      BY <2>1, <3>3, <3>5, BytesReadBack
    <3>7. Last(replies)' = r /\ Upto(got, down, Last(replies))'
      BY <2>1, <3>5 DEF Upto
    <3>8. Answered'
      BY <2>1, <3>2, <3>6, <3>7 DEF Answered
    <3> QED BY <3>8 DEF Aligned
  <2> QED BY <2>1, <2>2 DEF Aligned
<1>6. CASE LengthRefused
  BY <1>6 DEF LengthRefused, Aligned
<1>7. CASE Return
  <2>1. /\ pc = "body" /\ Len(got) = need /\ pc' = "idle" /\ outcome' = Outcome("ok", got)
        /\ UNCHANGED <<up, down, asked, forwarded, replies, cut>>
    BY <1>7 DEF Return, Complete, wire, history
  <2>2. CASE cut = "no"
    <3> DEFINE r == Last(replies)
    <3>1. Answered
      BY <1>0, <2>1, <2>2 DEF Aligned, AtRest, Sent
    <3>2. r \in Seq(Byte)
      <4>1. r \in RApdus
        BY <1>0, <3>1 DEF Answered, Last
      <4> QED BY <4>1, Sizes
    <3>3. Upto(got, down, r) /\ Len(got) = Len(r)
      BY <2>1, <3>1 DEF Answered
    <3>4. got = r /\ down = <<>>
      <4> HIDE DEF r
      <4> QED BY <1>0, <3>2, <3>3, AllRead
    <3>5. AtRest'
      BY <2>1, <3>1, <3>4 DEF AtRest, Answered, Outcome
    <3> QED BY <3>5 DEF Aligned
  <2> QED BY <2>1, <2>2 DEF Aligned
<1>8. CASE ReadTimeout \/ ReadEof \/ ResetFails
  BY <1>8 DEF ReadTimeout, ReadEof, ResetFails, Fail, Aligned
<1>9. CASE Reset
  BY <1>0, <1>9 DEF Reset, NewWire, Shut, Outcome, Aligned, AtRest
<1>10. ASSUME UNCHANGED <<client, up, down, history>> PROVE Aligned'
  <2>1. UNCHANGED <<pc, got, need, outcome, up, down, asked, forwarded, replies, cut>>
    BY <1>10 DEF client, history
  <2>2. /\ AtRest' = AtRest /\ Answered' = Answered
        /\ \A c \in CApdus : Sent(c)' = Sent(c)
    BY <2>1 DEF AtRest, Answered, Sent, Upto, Frame, ToBeBytes, Framable
  <2> QED BY <1>0, <2>1, <2>2 DEF Aligned
<1>11. CASE Tick \/ HangUp
  BY <1>10, <1>11 DEF Tick, HangUp, wire
<1>12. ASSUME NEW r \in RApdus, Forward(r) PROVE Aligned'
  <2>1. /\ Len(up) >= HeaderLen
        /\ forwarded' = Append(forwarded, SubSeq(up, HeaderLen + 1, HeaderLen + Announced))
        /\ up' = SubSeq(up, HeaderLen + Announced + 1, Len(up))
        /\ replies' = Append(replies, r) /\ down' = down \o Frame(r)
        /\ UNCHANGED <<pc, got, need, asked, cut>>
    BY <1>12 DEF Forward, Headed, client
  <2>2. CASE cut = "no"
    <3>1. up # <<>>
      BY <1>0, <2>1, Sizes
    <3>2. PICK c \in CApdus : Sent(c)
      BY <1>0, <2>2, <3>1 DEF Aligned, AtRest, Answered
    <3>3. c \in Seq(Byte) /\ Framable(c) /\ up = Frame(c)
      BY <3>2, Sizes DEF Sent
    <3>4. Announced = Len(c)
      BY <3>3, CommandTaken DEF Announced
    <3>5. forwarded' = asked /\ up' = <<>>
      BY <2>1, <3>2, <3>3, <3>4, CommandTaken DEF Sent
    <3>6. r \in Seq(Byte) /\ Frame(r) \in Seq(Byte) /\ down' = Frame(r)
      BY <2>1, <3>2, Sizes, FrameTyped, ConcatEmptySeq DEF Sent
    <3>7. /\ Last(replies') = r /\ replies' # <<>> /\ Len(replies') = Len(asked)
      <4>1. /\ Last(Append(replies, r)) = r /\ Len(Append(replies, r)) = Len(replies) + 1
            /\ Append(replies, r) # <<>>
        BY <1>0, AppendedLast
      <4>2. Len(asked) = Len(forwarded) + 1 /\ Len(replies) = Len(forwarded)
        BY <1>0, <3>2, <3>3, AppendedLast DEF Sent
      <4> QED BY <2>1, <4>1, <4>2
    <3>8. Upto(<<>>, Frame(r), Frame(r))
      BY <3>6, NothingRead
    <3>9. pc' = "len" /\ got' = <<>> /\ asked' = asked
      BY <2>1, <3>2 DEF Sent
    <3>10. Upto(got, down, Frame(Last(replies)))'
      BY <3>6, <3>7, <3>8, <3>9 DEF Upto
    <3>11. Answered'
      BY <3>5, <3>7, <3>9, <3>10 DEF Answered
    <3> QED BY <3>11 DEF Aligned
  <2> QED BY <2>1, <2>2 DEF Aligned
<1>13. CASE BridgeGone
  <2>1. PICK k \in 0 .. Len(down) : down' = SubSeq(down, 1, k)
    BY <1>13 DEF BridgeGone
  <2>2. UNCHANGED <<pc, got, need, outcome, up, asked, forwarded, replies, cut>>
    BY <1>13 DEF BridgeGone, client, history
  <2>3. CASE cut = "no" /\ down = <<>>
    <3>1. k = 0
      BY <1>0, <2>1, <2>3
    <3>2. down' \in Seq(Byte) /\ Len(down') = 0
      BY <1>0, <2>1, <3>1, CutInTwo
    <3>3. down' = down
      BY <2>3, <3>2
    <3> QED BY <1>10, <1>13, <3>3 DEF BridgeGone
  <2>4. CASE cut = "no" /\ Answered
    <3>1. Last(replies) \in Seq(Byte) /\ Frame(Last(replies)) \in Seq(Byte)
      <4>1. Last(replies) \in RApdus
        BY <1>0, <2>4 DEF Answered, Last
      <4> QED BY <4>1, Sizes, FrameTyped
    <3>2. ASSUME NEW t \in Seq(Byte), Upto(got, down, t) PROVE Upto(got', down', t)
      BY <1>0, <2>1, <2>2, <3>2, LessToCome
    <3> DEFINE r == Last(replies)
    <3>3. Last(replies)' = r /\ Frame(Last(replies))' = Frame(r)
      BY <2>2
    <3>4. CASE pc = "len" /\ Upto(got, down, Frame(r))
      <4>1. Upto(got', down', Frame(r))
        BY <3>1, <3>2, <3>4
      <4>2. Upto(got, down, Frame(Last(replies)))'
        BY <3>3, <4>1 DEF Upto
      <4> QED BY <2>2, <2>4, <3>4, <4>2 DEF Answered, Aligned
    <3>5. CASE pc = "body" /\ need = Len(r) /\ Upto(got, down, r)
      <4>1. Upto(got', down', r)
        BY <3>1, <3>2, <3>5
      <4>2. Upto(got, down, Last(replies))'
        BY <3>3, <4>1 DEF Upto
      <4> QED BY <2>2, <2>4, <3>3, <3>5, <4>2 DEF Answered, Aligned
    <3> QED BY <2>4, <3>4, <3>5 DEF Answered
  <2> QED BY <1>0, <2>2, <2>3, <2>4 DEF Aligned, AtRest, Sent
<1>14. CASE UNCHANGED vars
  BY <1>10, <1>14 DEF vars, wire
<1> QED BY <1>1, <1>2, <1>3, <1>4, <1>5, <1>6, <1>7, <1>8, <1>9, <1>11, <1>12, <1>13, <1>14 DEF Next

------------------------------------------------------------------------------
(***************************************************************************)
(* Theorems                                                                *)
(***************************************************************************)

\* StreamInv is inductive, and holds in every state.
LEMMA StreamInvIsKept == Spec => []StreamInv
<1>1. StreamInv /\ [Next]_vars => StreamInv'
  BY TypesKept, UpStays, WaitsStays, AlignedStays DEF StreamInv
<1> QED BY <1>1, InitAligned, PTL DEF Spec

(***************************************************************************)
(* As long as no call has ended inside a frame, transmit returns the whole *)
(* answer of the card to its command and leaves nothing of it behind, for  *)
(* answers of every length and whatever part of them each read brings.     *)
(***************************************************************************)
THEOREM AnswersAreWhole == Spec => []AnswerIsWhole
<1>1. StreamInv => AnswerIsWhole
  BY DEF StreamInv, Types, Aligned, AtRest, Answered, Sent, AnswerIsWhole
<1> QED BY <1>1, StreamInvIsKept, PTL

(***************************************************************************)
(* A link that is_connected reports as up, and on which no answer was      *)
(* refused for its length, holds no byte of an earlier call in either      *)
(* direction, and the card was given exactly the commands sent: fail       *)
(* clears `connected` wherever a frame is cut.                             *)
(***************************************************************************)
THEOREM UpIsAligned == Spec => []LinkUpMeansAligned
<1>1. StreamInv => LinkUpMeansAligned
  BY DEF StreamInv, Types, UpSays, Aligned, AtRest, Answered, Sent, LinkUpMeansAligned
<1> QED BY <1>1, StreamInvIsKept, PTL

(***************************************************************************)
(* A call reads no more than the four bytes of a length and RAPDU_MAX      *)
(* more, whatever length it was told, and waits for each of them a timeout *)
(* at most.                                                                *)
(***************************************************************************)
THEOREM WaitsAreBounded == Spec => []WaitBounded
<1>1. ASSUME StreamInv PROVE WaitBounded
  <2>1. /\ need \in Nat /\ HeaderLen \in Nat /\ RapduMax \in Nat
        /\ Len(got) <= need /\ (need = HeaderLen \/ need <= RapduMax)
        /\ waited <= TimeoutTicks * (HeaderLen + RapduMax)
    BY <1>1, Sizes DEF StreamInv, Types, Reading, Waits
  <2>2. need <= Max({HeaderLen, RapduMax})
    BY <2>1, MaxOfTwo
  <2> QED BY <2>1, <2>2 DEF WaitBounded
<1> QED BY <1>1, StreamInvIsKept, PTL
=============================================================================
