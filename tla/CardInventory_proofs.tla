------------------------ MODULE CardInventory_proofs ------------------------
(***************************************************************************)
(* What can be said of an inventory, for every registry, every limit and   *)
(* every way the card cuts its pages.                                      *)
(*                                                                         *)
(* None of the properties is inductive: the lists are filled from a buffer *)
(* they say nothing of.  IInv adds that the buffer is what the card's      *)
(* stream begins with, as far as it has been read, and that its checkpoint *)
(* parses (ReadInv); of which scopes each list may hold entries by now     *)
(* (ListInv); and that a buffer to be stored without truncation is the     *)
(* whole stream (WholeInv).  What a beginning of a stream parses to is the *)
(* first entries of its scope: EntriesBegun, from the bytes of the stream  *)
(* one by one.                                                             *)
(***************************************************************************)
EXTENDS CardInventory, SequenceTheorems, WellFoundedInduction, TLAPS

------------------------------------------------------------------------------
(***************************************************************************)
(* Lists and what is selected from them                                    *)
(***************************************************************************)

\* A set of numbers that is not empty has a least element.
LEMMA LeastNumber ==
  ASSUME NEW T, T \subseteq Nat, T # {}
  PROVE  \E x \in T : \A y \in T : x <= y
<1>1. PICK x \in T : \A y \in T : ~ (<<y, x>> \in OpToRel(<, Nat))
  BY WFMin, NatLessThanWellFounded
<1>2. ASSUME NEW y \in T, y < x PROVE FALSE
  <2>1. <<y, x>> \in OpToRel(<, Nat)
    BY <1>2 DEF OpToRel
  <2> QED BY <2>1, <1>1, <1>2
<1> QED BY <1>2

\* A set of numbers that holds what follows any of its numbers holds them all, up
\* to where that goes: how the recursive definitions below are followed.
LEMMA CountingUp ==
  ASSUME NEW m \in Nat, NEW T, 0 \in T, \A n \in 1 .. m : n - 1 \in T => n \in T
  PROVE  0 .. m \subseteq T
<1> DEFINE missing == {n \in 0 .. m : n \notin T}
<1> SUFFICES ASSUME missing # {} PROVE FALSE
  OBVIOUS
<1>0. missing \subseteq Nat
  OBVIOUS
<1>1. PICK n \in missing : \A k \in missing : n <= k
  BY <1>0, LeastNumber
<1>2. n # 0 /\ n \in 1 .. m /\ n - 1 \in 0 .. m /\ n - 1 \notin missing
  BY <1>1
<1> QED BY <1>2

\* s is what t begins with.
Starts(s, t) == Len(s) <= Len(t) /\ \A i \in 1 .. Len(s) : s[i] = t[i]

\* That is IsPrefix, position by position.
LEMMA PrefixPointwise ==
  ASSUME NEW S, NEW s \in Seq(S), NEW t \in Seq(S), Starts(s, t)
  PROVE  IsPrefix(s, t)
<1>0. Len(s) \in Nat /\ Len(t) \in Nat /\ Len(s) <= Len(t)
  BY DEF Starts
<1>1. SubSeq(s, 1, Len(s)) = s
  BY SubSeqFull
<1>2. /\ SubSeq(t, 1, Len(s)) \in Seq(S)
      /\ Len(SubSeq(t, 1, Len(s))) = IF 1 <= Len(s) THEN Len(s) - 1 + 1 ELSE 0
      /\ \A i \in 1 .. Len(s) - 1 + 1 : SubSeq(t, 1, Len(s))[i] = t[1 + i - 1]
  <2>1. \A i \in 1 .. Len(s) : t[i] \in S
    BY <1>0
  <2> QED BY <1>0, <2>1, SubSeqProperties
<1>3. Len(SubSeq(t, 1, Len(s))) = Len(s)
  BY <1>0, <1>2
<1>4. \A i \in 1 .. Len(s) : s[i] = SubSeq(t, 1, Len(s))[i]
  <2> SUFFICES ASSUME NEW i \in 1 .. Len(s) PROVE s[i] = SubSeq(t, 1, Len(s))[i]
    OBVIOUS
  <2>1. i \in 1 .. Len(s) - 1 + 1 /\ 1 + i - 1 = i
    BY <1>0
  <2> QED BY <1>2, <2>1 DEF Starts
<1>5. s = SubSeq(t, 1, Len(s))
  BY <1>2, <1>3, <1>4, SeqEqual
<1> QED BY <1>0, <1>1, <1>5 DEF IsPrefix

\* What begins with a beginning.
LEMMA StartsTransitive ==
  ASSUME NEW S, NEW s \in Seq(S), NEW t \in Seq(S), NEW u \in Seq(S), Starts(s, t), Starts(t, u)
  PROVE  Starts(s, u)
<1>0. Len(s) \in Nat /\ Len(t) \in Nat /\ Len(u) \in Nat
  OBVIOUS
<1>1. \A i \in 1 .. Len(s) : i \in 1 .. Len(t)
  BY <1>0 DEF Starts
<1> QED BY <1>0, <1>1 DEF Starts

\* The first k of a list.
LEMMA FirstOnes ==
  ASSUME NEW S, NEW t \in Seq(S), NEW k \in 0 .. Len(t)
  PROVE  /\ SubSeq(t, 1, k) \in Seq(S) /\ Len(SubSeq(t, 1, k)) = k
         /\ \A i \in 1 .. k : SubSeq(t, 1, k)[i] = t[i]
         /\ Starts(SubSeq(t, 1, k), t)
<1>0. Len(t) \in Nat /\ k \in Nat /\ k <= Len(t)
  OBVIOUS
<1>1. /\ SubSeq(t, 1, k) \in Seq(S)
      /\ Len(SubSeq(t, 1, k)) = IF 1 <= k THEN k - 1 + 1 ELSE 0
      /\ \A i \in 1 .. k - 1 + 1 : SubSeq(t, 1, k)[i] = t[1 + i - 1]
  <2>1. \A i \in 1 .. k : t[i] \in S
    BY <1>0
  <2> QED BY <1>0, <2>1, SubSeqProperties
<1>2. Len(SubSeq(t, 1, k)) = k
  BY <1>0, <1>1
<1>3. ASSUME NEW i \in 1 .. k PROVE SubSeq(t, 1, k)[i] = t[i]
  <2>1. i \in 1 .. k - 1 + 1 /\ 1 + i - 1 = i
    BY <1>0
  <2> QED BY <1>1, <2>1
<1>4. Starts(SubSeq(t, 1, k), t)
  BY <1>0, <1>2, <1>3 DEF Starts
<1> QED BY <1>1, <1>2, <1>3, <1>4

\* The selection from the first m, as a function of its own.
SelectsUpTo(list, T, g, m) ==
  g = [n \in 0 .. m |-> IF n = 0 THEN <<>>
                        ELSE IF list[n] \in T THEN Append(g[n - 1], list[n])
                        ELSE g[n - 1]]

\* A selection is defined at every place of a list.
LEMMA SelectionDefined ==
  ASSUME NEW S, NEW s \in Seq(S), NEW T
  PROVE  SelectsUpTo(s, T, SelectionUpTo(s, T), Len(s))
<1> DEFINE X == {m \in Nat : \E g : SelectsUpTo(s, T, g, m)}
<1>0. Len(s) \in Nat
  OBVIOUS
<1>1. 0 \in X
  <2>1. SelectsUpTo(s, T, [n \in 0 .. 0 |-> <<>>], 0)
    BY DEF SelectsUpTo
  <2> QED BY <2>1
<1>2. ASSUME NEW m \in 1 .. Len(s), m - 1 \in X PROVE m \in X
  <2>0. m \in Nat
    BY <1>0
  <2>1. PICK g : SelectsUpTo(s, T, g, m - 1)
    BY <1>2
  <2> DEFINE Further(f, n) == IF s[n] \in T THEN Append(f, s[n]) ELSE f
             h == [n \in 0 .. m |-> IF n = m THEN Further(g[m - 1], m) ELSE g[n]]
  <2>2. \A n \in 0 .. m - 1 : g[n] = IF n = 0 THEN <<>> ELSE Further(g[n - 1], n)
    BY <2>1 DEF SelectsUpTo
  <2>3. \A n \in 0 .. m : h[n] = IF n = 0 THEN <<>> ELSE Further(h[n - 1], n)
    <3> HIDE DEF Further
    <3> QED BY <2>0, <2>2
  <2>4. SelectsUpTo(s, T, h, m)
    <3> h = [n \in 0 .. m |-> h[n]]
      OBVIOUS
    <3> HIDE DEF h
    <3> QED BY <2>3 DEF SelectsUpTo
  <2> QED BY <2>0, <2>4
<1>3. Len(s) \in X
  <2> HIDE DEF X
  <2>1. 0 .. Len(s) \subseteq X
    BY <1>0, <1>1, <1>2, CountingUp
  <2> QED BY <1>0, <2>1
<1>4. SelectionUpTo(s, T) = CHOOSE g : SelectsUpTo(s, T, g, Len(s))
  BY DEF SelectionUpTo, SelectsUpTo
<1> QED BY <1>3, <1>4

\* What is known of it along the list.
SelectsAlong(S, s, T, f) ==
  /\ f[0] = <<>> /\ Selection(s, T) = f[Len(s)]
  /\ \A n \in 1 .. Len(s) : f[n] = IF s[n] \in T THEN Append(f[n - 1], s[n]) ELSE f[n - 1]
  /\ \A n \in 0 .. Len(s) : f[n] \in Seq(S \cap T) /\ f[n] \in Seq(S)

\* It goes on with the next member of the set, and holds members of list and set.
LEMMA SelectionStep ==
  ASSUME NEW S, NEW s \in Seq(S), NEW T
  PROVE  SelectsAlong(S, s, T, SelectionUpTo(s, T))
<1>0. Len(s) \in Nat
  OBVIOUS
<1>1. PICK f : f = SelectionUpTo(s, T)
  OBVIOUS
<1>2. SelectsUpTo(s, T, f, Len(s))
  BY <1>1, SelectionDefined
<1>3. \A n \in 0 .. Len(s) :
        f[n] = IF n = 0 THEN <<>> ELSE IF s[n] \in T THEN Append(f[n - 1], s[n]) ELSE f[n - 1]
  BY <1>2 DEF SelectsUpTo
<1>4. f[0] = <<>> /\ Selection(s, T) = f[Len(s)]
  BY <1>0, <1>1, <1>3 DEF Selection
<1>5. \A n \in 1 .. Len(s) : f[n] = IF s[n] \in T THEN Append(f[n - 1], s[n]) ELSE f[n - 1]
  BY <1>0, <1>3
<1> DEFINE X == {n \in 0 .. Len(s) : f[n] \in Seq(S \cap T)}
<1>6. 0 \in X
  <2>1. <<>> \in Seq(S \cap T)
    OBVIOUS
  <2>2. 0 \in 0 .. Len(s)
    BY <1>0
  <2> QED BY <1>4, <2>1, <2>2
<1>7. ASSUME NEW n \in 1 .. Len(s), n - 1 \in X PROVE n \in X
  <2>1. n \in 0 .. Len(s) /\ f[n - 1] \in Seq(S \cap T) /\ s[n] \in S
    BY <1>0, <1>7
  <2>2. CASE s[n] \in T
    <3>1. Append(f[n - 1], s[n]) \in Seq(S \cap T)
      BY <2>1, <2>2, AppendProperties
    <3> QED BY <1>5, <2>1, <2>2, <3>1
  <2>3. CASE s[n] \notin T
    BY <1>5, <2>1, <2>3
  <2> QED BY <2>2, <2>3
<1>8. 0 .. Len(s) \subseteq X
  <2> HIDE DEF X
  <2> QED BY <1>0, <1>6, <1>7, CountingUp
<1>9. \A n \in 0 .. Len(s) : f[n] \in Seq(S \cap T) /\ f[n] \in Seq(S)
  <2> SUFFICES ASSUME NEW n \in 0 .. Len(s) PROVE f[n] \in Seq(S \cap T) /\ f[n] \in Seq(S)
    OBVIOUS
  <2>1. f[n] \in Seq(S \cap T)
    BY <1>8
  <2>2. f[n] \in Seq(S)
    BY <2>1
  <2> QED BY <2>1, <2>2
<1> QED BY <1>1, <1>4, <1>5, <1>9 DEF SelectsAlong

\* What is selected from a beginning is what the whole list has selected by there.
LEMMA SelectionOfBeginning ==
  ASSUME NEW S, NEW s \in Seq(S), NEW t \in Seq(S), NEW T, Starts(s, t)
  PROVE  Selection(s, T) = SelectionUpTo(t, T)[Len(s)]
<1>0. Len(s) \in Nat /\ Len(t) \in Nat /\ Len(s) <= Len(t)
  BY DEF Starts
<1>1a. PICK f : f = SelectionUpTo(s, T)
  OBVIOUS
<1>1. /\ f = SelectionUpTo(s, T) /\ f[0] = <<>> /\ Selection(s, T) = f[Len(s)]
      /\ \A n \in 1 .. Len(s) :
           f[n] = IF s[n] \in T THEN Append(f[n - 1], s[n]) ELSE f[n - 1]
      /\ \A n \in 0 .. Len(s) : f[n] \in Seq(S \cap T) /\ f[n] \in Seq(S)
  <2>1. SelectsAlong(S, s, T, f)
    BY <1>1a, SelectionStep
  <2> QED BY <1>1a, <2>1 DEF SelectsAlong
<1>2a. PICK g : g = SelectionUpTo(t, T)
  OBVIOUS
<1>2. /\ g = SelectionUpTo(t, T) /\ g[0] = <<>> /\ Selection(t, T) = g[Len(t)]
      /\ \A n \in 1 .. Len(t) :
           g[n] = IF t[n] \in T THEN Append(g[n - 1], t[n]) ELSE g[n - 1]
      /\ \A n \in 0 .. Len(t) : g[n] \in Seq(S \cap T) /\ g[n] \in Seq(S)
  <2>1. SelectsAlong(S, t, T, g)
    BY <1>2a, SelectionStep
  <2> QED BY <1>2a, <2>1 DEF SelectsAlong
<1> DEFINE X == {n \in 0 .. Len(s) : f[n] = g[n]}
<1>3. 0 \in X
  BY <1>0, <1>1, <1>2
<1>4. ASSUME NEW n \in 1 .. Len(s), n - 1 \in X PROVE n \in X
  <2>1. n \in 0 .. Len(s) /\ n \in 1 .. Len(t) /\ s[n] = t[n] /\ f[n - 1] = g[n - 1]
    BY <1>0, <1>4 DEF Starts
  <2> QED BY <1>1, <1>2, <2>1
<1>5. 0 .. Len(s) \subseteq X
  <2> HIDE DEF X
  <2> QED BY <1>0, <1>3, <1>4, CountingUp
<1>6. f[Len(s)] = g[Len(s)]
  BY <1>0, <1>5
<1> QED BY <1>1, <1>2, <1>6

\* The longer the beginning, the longer what is selected.
LEMMA SelectionGrows ==
  ASSUME NEW S, NEW s \in Seq(S), NEW T, NEW m \in 0 .. Len(s)
  PROVE  Starts(SelectionUpTo(s, T)[m], Selection(s, T))
<1>0. Len(s) \in Nat /\ m \in Nat /\ Len(s) - m \in Nat
  OBVIOUS
<1>1a. PICK f : f = SelectionUpTo(s, T)
  OBVIOUS
<1>1. /\ f = SelectionUpTo(s, T) /\ f[0] = <<>> /\ Selection(s, T) = f[Len(s)]
      /\ \A n \in 1 .. Len(s) :
           f[n] = IF s[n] \in T THEN Append(f[n - 1], s[n]) ELSE f[n - 1]
      /\ \A n \in 0 .. Len(s) : f[n] \in Seq(S \cap T) /\ f[n] \in Seq(S)
  <2>1. SelectsAlong(S, s, T, f)
    BY <1>1a, SelectionStep
  <2> QED BY <1>1a, <2>1 DEF SelectsAlong
<1> DEFINE X == {d \in 0 .. Len(s) - m : Starts(f[m], f[m + d])}
<1>2. 0 \in X
  <2>1. f[m] \in Seq(S) /\ m + 0 = m
    BY <1>0, <1>1
  <2>2. Starts(f[m], f[m])
    BY <2>1 DEF Starts
  <2> QED BY <1>0, <2>1, <2>2
<1>3. ASSUME NEW d \in 1 .. Len(s) - m, d - 1 \in X PROVE d \in X
  <2>1. /\ m + d \in 1 .. Len(s) /\ m + d - 1 = m + (d - 1) /\ m + d - 1 \in 0 .. Len(s)
        /\ m + d \in 0 .. Len(s) /\ d \in 0 .. Len(s) - m
    BY <1>0
  <2>2. Starts(f[m], f[m + d - 1])
    BY <1>3, <2>1
  <2>3. f[m] \in Seq(S) /\ f[m + d - 1] \in Seq(S) /\ f[m + d] \in Seq(S) /\ s[m + d] \in S
    BY <1>1, <2>1
  <2>4. CASE s[m + d] \in T
    <3>0. PICK n \in 1 .. Len(s) : n = m + d
      BY <2>1
    <3>a. s[n] \in T
      BY <2>4, <3>0
    <3>b. f[n] = Append(f[n - 1], s[n])
      BY <1>1, <3>a
    <3>1. f[m + d] = Append(f[m + d - 1], s[m + d])
      BY <3>0, <3>b
    <3>2. Starts(f[m + d - 1], f[m + d])
      BY <2>3, <3>1, AppendProperties DEF Starts
    <3>3. Starts(f[m], f[m + d])
      BY <2>2, <2>3, <3>2, StartsTransitive
    <3> QED BY <2>1, <3>3
  <2>5. CASE s[m + d] \notin T
    BY <1>1, <2>1, <2>2, <2>5
  <2> QED BY <2>4, <2>5
<1>4. 0 .. Len(s) - m \subseteq X
  <2> HIDE DEF X
  <2> QED BY <1>0, <1>2, <1>3, CountingUp
<1>5. Len(s) - m \in X /\ m + (Len(s) - m) = Len(s)
  BY <1>0, <1>4
<1> QED BY <1>1, <1>5

LEMMA SelectionsStart ==
  ASSUME NEW S, NEW s \in Seq(S), NEW t \in Seq(S), NEW T, Starts(s, t)
  PROVE  Starts(Selection(s, T), Selection(t, T))
<1>1. Len(s) \in 0 .. Len(t)
  BY DEF Starts
<1> QED BY <1>1, SelectionOfBeginning, SelectionGrows

\* When the members of the set follow one another in the list, they are selected as
\* they are.
LEMMA SelectionOfRun ==
  ASSUME NEW S, NEW s \in Seq(S), NEW T,
         NEW b \in 0 .. Len(s), NEW a \in 0 .. b,
         \A i \in 1 .. Len(s) : s[i] \in T <=> a < i /\ i <= b
  PROVE  /\ Len(Selection(s, T)) = b - a
         /\ \A j \in 1 .. b - a : Selection(s, T)[j] = s[a + j]
<1>0. Len(s) \in Nat /\ a \in Nat /\ b \in Nat /\ a <= b /\ b <= Len(s)
  OBVIOUS
<1>1a. PICK f : f = SelectionUpTo(s, T)
  OBVIOUS
<1>1. /\ f = SelectionUpTo(s, T) /\ f[0] = <<>> /\ Selection(s, T) = f[Len(s)]
      /\ \A n \in 1 .. Len(s) :
           f[n] = IF s[n] \in T THEN Append(f[n - 1], s[n]) ELSE f[n - 1]
      /\ \A n \in 0 .. Len(s) : f[n] \in Seq(S \cap T) /\ f[n] \in Seq(S)
  <2>1. SelectsAlong(S, s, T, f)
    BY <1>1a, SelectionStep
  <2> QED BY <1>1a, <2>1 DEF SelectsAlong
<1> DEFINE taken(n) == IF n <= a THEN 0 ELSE IF n <= b THEN n - a ELSE b - a
           X == {n \in 0 .. Len(s) : /\ Len(f[n]) = taken(n)
                                     /\ \A j \in 1 .. taken(n) : f[n][j] = s[a + j]}
<1>2. 0 \in X
  BY <1>0, <1>1
<1>3. ASSUME NEW n \in 1 .. Len(s), n - 1 \in X PROVE n \in X
  <2>1. /\ n \in 0 .. Len(s) /\ n - 1 \in 0 .. Len(s) /\ f[n - 1] \in Seq(S) /\ s[n] \in S
        /\ Len(f[n - 1]) = taken(n - 1)
        /\ \A j \in 1 .. taken(n - 1) : f[n - 1][j] = s[a + j]
    BY <1>0, <1>1, <1>3
  <2>2. CASE a < n /\ n <= b
    <3>1. f[n] = Append(f[n - 1], s[n])
      BY <1>1, <2>2
    <3>2. taken(n) = n - a /\ taken(n - 1) = n - a - 1 /\ a + (n - a) = n
      BY <1>0, <2>2
    <3> HIDE DEF taken
    <3>3. Len(f[n]) = n - a
      BY <1>0, <2>1, <2>2, <3>1, <3>2, AppendProperties
    <3>4. \A j \in 1 .. n - a : f[n][j] = s[a + j]
      <4> SUFFICES ASSUME NEW j \in 1 .. n - a PROVE f[n][j] = s[a + j]
        OBVIOUS
      <4>1. CASE j = n - a
        BY <1>0, <2>1, <2>2, <3>1, <3>2, <4>1, AppendProperties
      <4>2. CASE j # n - a
        <5>1. j \in 1 .. taken(n - 1)
          BY <1>0, <2>2, <3>2, <4>2
        <5> QED BY <2>1, <3>1, <5>1, AppendProperties
      <4> QED BY <4>1, <4>2
    <3> QED BY <2>1, <3>2, <3>3, <3>4
  <2>3. CASE ~ (a < n /\ n <= b)
    <3>1. f[n] = f[n - 1] /\ taken(n) = taken(n - 1)
      BY <1>0, <1>1, <2>3
    <3> HIDE DEF taken
    <3> QED BY <2>1, <3>1
  <2> QED BY <2>2, <2>3
<1>4. 0 .. Len(s) \subseteq X
  <2> HIDE DEF X
  <2> QED BY <1>0, <1>2, <1>3, CountingUp
<1>5. Len(s) \in X /\ taken(Len(s)) = b - a
  BY <1>0, <1>4
<1> HIDE DEF taken
<1> QED BY <1>1, <1>5

------------------------------------------------------------------------------
(***************************************************************************)
(* The stream of a scope, byte by byte                                     *)
(***************************************************************************)

\* The bytes of each entry of E, and the stream they make.
BytesOf(E) == [n \in DOMAIN E |-> [i \in 1 .. E[n].size |-> [n |-> n, i |-> i]]]
StreamOf(E) == FlattenSeq(BytesOf(E))

\* b holds the bytes of the first n entries of E, each followed by its successor.
Laid(E, n, b) ==
  /\ b \in Seq(Byte) /\ Len(b) >= 1
  /\ b[1] = [n |-> 1, i |-> 1]
  /\ b[Len(b)] = [n |-> n, i |-> E[n].size]
  /\ \A j \in 1 .. Len(b) : b[j].n \in 1 .. n /\ b[j].i \in 1 .. E[b[j].n].size
  /\ \A j \in 1 .. Len(b) - 1 :
       b[j + 1] = IF b[j].i = E[b[j].n].size THEN [n |-> b[j].n + 1, i |-> 1]
                  ELSE [n |-> b[j].n, i |-> b[j].i + 1]

LEMMA EntryBytes ==
  ASSUME NEW E \in Seq(Entry), NEW n \in 1 .. Len(E)
  PROVE  /\ BytesOf(E)[n] \in Seq(Byte) /\ Len(BytesOf(E)[n]) = E[n].size
         /\ E[n].size \in Nat \ {0}
         /\ \A j \in 1 .. E[n].size : BytesOf(E)[n][j] = [n |-> n, i |-> j]
<1>1. E[n] \in Entry /\ n \in DOMAIN E /\ n \in Nat \ {0}
  OBVIOUS
<1>2. E[n].size \in Nat \ {0}
  BY <1>1 DEF Entry
<1>3. BytesOf(E)[n] = [i \in 1 .. E[n].size |-> [n |-> n, i |-> i]]
  BY <1>1 DEF BytesOf
<1>4. \A i \in 1 .. E[n].size : [n |-> n, i |-> i] \in Byte
  BY <1>1, <1>2 DEF Byte
<1>5. BytesOf(E)[n] \in Seq(Byte) /\ Len(BytesOf(E)[n]) = E[n].size
  BY <1>2, <1>3, <1>4
<1> QED BY <1>2, <1>3, <1>5

LEMMA LaidFirst ==
  ASSUME NEW E \in Seq(Entry), Len(E) >= 1
  PROVE  Laid(E, 1, BytesOf(E)[1])
<1>1. 1 \in 1 .. Len(E)
  OBVIOUS
<1>2. PICK b : b = BytesOf(E)[1]
  OBVIOUS
<1>3. /\ b \in Seq(Byte) /\ Len(b) = E[1].size /\ E[1].size \in Nat \ {0}
      /\ \A j \in 1 .. E[1].size : b[j] = [n |-> 1, i |-> j]
  BY <1>1, <1>2, EntryBytes
<1>4. Len(b) \in Nat /\ Len(b) >= 1 /\ 1 \in 1 .. Len(b) /\ Len(b) \in 1 .. Len(b)
  <2>1. PICK z \in Nat \ {0} : z = Len(b)
    BY <1>3
  <2>2. z \in Nat /\ z >= 1 /\ 1 \in 1 .. z /\ z \in 1 .. z
    OBVIOUS
  <2> QED BY <2>1, <2>2
<1>5. ASSUME NEW j \in 1 .. Len(b)
      PROVE  /\ b[j] = [n |-> 1, i |-> j] /\ b[j].n = 1 /\ b[j].i = j /\ j \in 1 .. E[1].size
  <2>1. j \in 1 .. E[1].size
    BY <1>3
  <2>2. b[j] = [n |-> 1, i |-> j]
    BY <1>3, <2>1
  <2> QED BY <2>1, <2>2
<1>6. b[1] = [n |-> 1, i |-> 1] /\ b[Len(b)] = [n |-> 1, i |-> E[1].size]
  BY <1>3, <1>4, <1>5
<1>7. ASSUME NEW j \in 1 .. Len(b) PROVE b[j].n \in 1 .. 1 /\ b[j].i \in 1 .. E[b[j].n].size
  <2>1. b[j].n = 1 /\ b[j].i = j /\ j \in 1 .. E[1].size
    BY <1>5
  <2>2. 1 \in 1 .. 1
    OBVIOUS
  <2> QED BY <2>1, <2>2
<1>8. ASSUME NEW j \in 1 .. Len(b) - 1
      PROVE  b[j + 1] = IF b[j].i = E[b[j].n].size THEN [n |-> b[j].n + 1, i |-> 1]
                        ELSE [n |-> b[j].n, i |-> b[j].i + 1]
  <2>1. j \in 1 .. Len(b) /\ j + 1 \in 1 .. Len(b) /\ j # E[1].size
    BY <1>3, <1>4
  <2>2. b[j].n = 1 /\ b[j].i = j /\ b[j + 1] = [n |-> 1, i |-> j + 1]
    BY <1>5, <2>1
  <2> QED BY <2>1, <2>2
<1>9. Laid(E, 1, b)
  BY <1>3, <1>4, <1>6, <1>7, <1>8 DEF Laid
<1> QED BY <1>2, <1>9

LEMMA LaidFurther ==
  ASSUME NEW E \in Seq(Entry), NEW n \in 2 .. Len(E), NEW b, Laid(E, n - 1, b)
  PROVE  Laid(E, n, b \o BytesOf(E)[n])
<1>1. n \in 1 .. Len(E) /\ n \in Nat /\ Len(E) \in Nat
  OBVIOUS
<1>2. PICK p : p = BytesOf(E)[n]
  OBVIOUS
<1>3. /\ p \in Seq(Byte) /\ Len(p) = E[n].size /\ E[n].size \in Nat \ {0}
      /\ \A j \in 1 .. E[n].size : p[j] = [n |-> n, i |-> j]
  BY <1>1, <1>2, EntryBytes
<1>4. PICK c : c = b \o p
  OBVIOUS
<1>5. /\ b \in Seq(Byte) /\ Len(b) \in Nat /\ Len(b) >= 1 /\ b[1] = [n |-> 1, i |-> 1]
      /\ b[Len(b)] = [n |-> n - 1, i |-> E[n - 1].size]
      /\ \A j \in 1 .. Len(b) : b[j].n \in 1 .. n - 1 /\ b[j].i \in 1 .. E[b[j].n].size
      /\ \A j \in 1 .. Len(b) - 1 :
           b[j + 1] = IF b[j].i = E[b[j].n].size THEN [n |-> b[j].n + 1, i |-> 1]
                      ELSE [n |-> b[j].n, i |-> b[j].i + 1]
  BY DEF Laid
<1>6. /\ c \in Seq(Byte) /\ Len(c) = Len(b) + Len(p)
      /\ \A j \in 1 .. Len(b) + Len(p) : c[j] = IF j <= Len(b) THEN b[j] ELSE p[j - Len(b)]
  BY <1>3, <1>4, <1>5, ConcatProperties
<1>7. \A j \in 1 .. Len(b) : c[j] = b[j]
  <2> SUFFICES ASSUME NEW j \in 1 .. Len(b) PROVE c[j] = b[j]
    OBVIOUS
  <2>1. j \in 1 .. Len(b) + Len(p) /\ j <= Len(b)
    BY <1>3, <1>5
  <2> QED BY <1>6, <2>1
<1>8. \A j \in Len(b) + 1 .. Len(c) : c[j] = [n |-> n, i |-> j - Len(b)]
  <2> SUFFICES ASSUME NEW j \in Len(b) + 1 .. Len(c) PROVE c[j] = [n |-> n, i |-> j - Len(b)]
    OBVIOUS
  <2>1. j \in 1 .. Len(b) + Len(p) /\ ~ (j <= Len(b)) /\ j - Len(b) \in 1 .. E[n].size
    BY <1>3, <1>5, <1>6
  <2> QED BY <1>3, <1>6, <2>1
<1>9. c[1] = [n |-> 1, i |-> 1] /\ c[Len(c)] = [n |-> n, i |-> E[n].size]
  <2>1. 1 \in 1 .. Len(b) /\ Len(c) \in Len(b) + 1 .. Len(c) /\ Len(c) - Len(b) = E[n].size
    BY <1>3, <1>5, <1>6
  <2> QED BY <1>5, <1>7, <1>8, <2>1
<1>10. \A j \in 1 .. Len(c) : c[j].n \in 1 .. n /\ c[j].i \in 1 .. E[c[j].n].size
  <2> SUFFICES ASSUME NEW j \in 1 .. Len(c)
               PROVE  c[j].n \in 1 .. n /\ c[j].i \in 1 .. E[c[j].n].size
    OBVIOUS
  <2>1. CASE j <= Len(b)
    <3>1. j \in 1 .. Len(b)
      BY <1>5, <1>6, <2>1
    <3>2. c[j] = b[j] /\ b[j].n \in 1 .. n - 1 /\ b[j].i \in 1 .. E[b[j].n].size
      BY <1>5, <1>7, <3>1
    <3> QED BY <1>1, <3>2
  <2>2. CASE ~ (j <= Len(b))
    <3>1. j \in Len(b) + 1 .. Len(c) /\ j - Len(b) \in 1 .. E[n].size
      BY <1>3, <1>5, <1>6, <2>2
    <3>2. c[j] = [n |-> n, i |-> j - Len(b)]
      BY <1>8, <3>1
    <3>3. c[j].n = n /\ c[j].i = j - Len(b)
      BY <3>2
    <3> QED BY <1>1, <3>1, <3>3
  <2> QED BY <2>1, <2>2
<1> DEFINE after(x) == IF x.i = E[x.n].size THEN [n |-> x.n + 1, i |-> 1]
                       ELSE [n |-> x.n, i |-> x.i + 1]
<1>11. ASSUME NEW j \in 1 .. Len(c) - 1 PROVE c[j + 1] = after(c[j])
  <2>1. CASE j < Len(b)
    <3>1. j \in 1 .. Len(b) - 1 /\ j \in 1 .. Len(b) /\ j + 1 \in 1 .. Len(b)
      BY <1>5, <1>6, <2>1
    <3>2. c[j] = b[j] /\ c[j + 1] = b[j + 1]
      BY <1>7, <3>1
    <3>3. b[j + 1] = after(b[j])
      BY <1>5, <3>1
    <3> QED BY <3>2, <3>3
  <2>2. CASE j = Len(b)
    <3>1. j \in 1 .. Len(b) /\ j + 1 \in Len(b) + 1 .. Len(c) /\ j + 1 - Len(b) = 1
      BY <1>3, <1>5, <1>6, <2>2
    <3>2. c[j] = [n |-> n - 1, i |-> E[n - 1].size] /\ c[j + 1] = [n |-> n, i |-> 1]
      BY <1>5, <1>7, <1>8, <2>2, <3>1
    <3>3. c[j].n = n - 1 /\ c[j].i = E[n - 1].size /\ n - 1 + 1 = n
      BY <1>1, <3>2
    <3>4. after(c[j]) = [n |-> c[j].n + 1, i |-> 1]
      BY <3>3
    <3> QED BY <3>2, <3>3, <3>4
  <2>3. CASE j > Len(b)
    <3>1. /\ j \in Len(b) + 1 .. Len(c) /\ j + 1 \in Len(b) + 1 .. Len(c)
          /\ j - Len(b) # E[n].size /\ j + 1 - Len(b) = j - Len(b) + 1
      BY <1>3, <1>5, <1>6, <2>3
    <3>2. c[j] = [n |-> n, i |-> j - Len(b)] /\ c[j + 1] = [n |-> n, i |-> j + 1 - Len(b)]
      BY <1>8, <3>1
    <3>3. c[j].n = n /\ c[j].i = j - Len(b)
      BY <3>2
    <3>4. after(c[j]) = [n |-> c[j].n, i |-> c[j].i + 1]
      BY <3>1, <3>3
    <3> QED BY <3>1, <3>2, <3>3, <3>4
  <2>4. j \in Nat
    BY <1>5, <1>6
  <2> QED BY <1>5, <2>1, <2>2, <2>3, <2>4
<1>12. Len(c) >= 1
  BY <1>3, <1>5, <1>6
<1>13. Laid(E, n, c)
  BY <1>6, <1>9, <1>10, <1>11, <1>12 DEF Laid
<1> QED BY <1>2, <1>4, <1>13

\* Flattening the first m lists of s, as a function of its own.
FlattensUpTo(s, g, m) ==
  g = [i \in 1 .. m |-> IF i = 1 THEN s[i] ELSE g[i - 1] \o s[i]]

LEMMA FlatteningDefined ==
  ASSUME NEW s, Len(s) \in Nat
  PROVE  Len(s) # 0 => \E g : FlattensUpTo(s, g, Len(s)) /\ FlattenSeq(s) = g[Len(s)]
<1> DEFINE X == {m \in Nat : \E g : FlattensUpTo(s, g, m)}
<1>1. 0 \in X
  <2>1. FlattensUpTo(s, [i \in 1 .. 0 |-> <<>>], 0)
    BY DEF FlattensUpTo
  <2> QED BY <2>1
<1>2. ASSUME NEW m \in 1 .. Len(s), m - 1 \in X PROVE m \in X
  <2>0. m \in Nat
    OBVIOUS
  <2>1. PICK g : FlattensUpTo(s, g, m - 1)
    BY <1>2
  <2> DEFINE Further(f, i) == f \o s[i]
             h == [i \in 1 .. m |-> IF i = m THEN IF m = 1 THEN s[1] ELSE Further(g[m - 1], m)
                                    ELSE g[i]]
  <2>2. \A i \in 1 .. m - 1 : g[i] = IF i = 1 THEN s[i] ELSE Further(g[i - 1], i)
    BY <2>1 DEF FlattensUpTo
  <2>3. \A i \in 1 .. m : h[i] = IF i = 1 THEN s[i] ELSE Further(h[i - 1], i)
    <3> HIDE DEF Further
    <3> QED BY <2>0, <2>2
  <2>4. FlattensUpTo(s, h, m)
    <3> h = [i \in 1 .. m |-> h[i]]
      OBVIOUS
    <3> HIDE DEF h
    <3> QED BY <2>3 DEF FlattensUpTo
  <2> QED BY <2>0, <2>4
<1>3. Len(s) \in X
  <2> HIDE DEF X
  <2>1. 0 .. Len(s) \subseteq X
    BY <1>1, <1>2, CountingUp
  <2> QED BY <2>1
<1> DEFINE fl == CHOOSE g : FlattensUpTo(s, g, Len(s))
<1>4. FlattensUpTo(s, fl, Len(s))
  BY <1>3
<1>5. Len(s) # 0 => FlattenSeq(s) = fl[Len(s)]
  BY DEF FlattenSeq, FlattensUpTo
<1> QED BY <1>4, <1>5

\* A scope's stream lays out its entries; that of an empty scope is empty.
LEMMA StreamLaid ==
  ASSUME NEW E \in Seq(Entry)
  PROVE  /\ E = <<>> => StreamOf(E) = <<>>
         /\ E # <<>> => Laid(E, Len(E), StreamOf(E))
         /\ StreamOf(E) \in Seq(Byte)
<1>0. Len(E) \in Nat /\ DOMAIN E = 1 .. Len(E) /\ (Len(E) = 0 <=> E = <<>>)
  OBVIOUS
<1>1. DOMAIN BytesOf(E) = 1 .. Len(E)
  BY <1>0 DEF BytesOf
<1>2. Len(BytesOf(E)) = Len(E)
  <2>1. BytesOf(E) = [n \in 1 .. Len(E) |-> BytesOf(E)[n]]
    BY <1>0 DEF BytesOf
  <2>2. \A n \in 1 .. Len(E) : BytesOf(E)[n] \in Seq(Byte)
    BY EntryBytes
  <2>3. BytesOf(E) \in Seq(Seq(Byte))
    BY <1>0, <2>1, <2>2
  <2> QED BY <1>0, <1>1, <2>3
<1>3. CASE E = <<>>
  <2>1. BytesOf(E) = <<>>
    BY <1>0, <1>3 DEF BytesOf
  <2>2. StreamOf(E) = <<>>
    BY <1>0, <1>2, <1>3, <2>1 DEF StreamOf, FlattenSeq
  <2>3. <<>> \in Seq(Byte)
    OBVIOUS
  <2> QED BY <1>3, <2>2, <2>3
<1>4. CASE E # <<>>
  <2>1. PICK g : /\ FlattensUpTo(BytesOf(E), g, Len(E)) /\ StreamOf(E) = g[Len(E)]
    BY <1>0, <1>2, <1>4, FlatteningDefined DEF StreamOf
  <2>2. \A i \in 1 .. Len(E) :
          g[i] = IF i = 1 THEN BytesOf(E)[i] ELSE g[i - 1] \o BytesOf(E)[i]
    BY <2>1 DEF FlattensUpTo
  <2> DEFINE X == {n \in 0 .. Len(E) : n = 0 \/ Laid(E, n, g[n])}
  <2>3. 0 \in X
    BY <1>0
  <2>4. ASSUME NEW n \in 1 .. Len(E), n - 1 \in X PROVE n \in X
    <3>1. CASE n = 1
      <4>1. 1 \in 1 .. Len(E) /\ Len(E) >= 1
        BY <1>0, <1>4
      <4>2. g[1] = BytesOf(E)[1]
        BY <2>2, <4>1
      <4>3. Laid(E, 1, g[1])
        BY <4>1, <4>2, LaidFirst
      <4> QED BY <1>0, <3>1, <4>3
    <3>2. CASE n # 1
      <4>1. n \in 2 .. Len(E) /\ n - 1 # 0
        BY <1>0, <3>2
      <4>2. g[n] = g[n - 1] \o BytesOf(E)[n] /\ Laid(E, n - 1, g[n - 1])
        BY <2>2, <2>4, <3>2, <4>1
      <4>3. Laid(E, n, g[n])
        BY <4>1, <4>2, LaidFurther
      <4> QED BY <1>0, <4>1, <4>3
    <3> QED BY <3>1, <3>2
  <2>5. 0 .. Len(E) \subseteq X
    <3> HIDE DEF X
    <3> QED BY <1>0, <2>3, <2>4, CountingUp
  <2>6. Laid(E, Len(E), g[Len(E)])
    BY <1>0, <1>4, <2>5
  <2> QED BY <1>4, <2>1, <2>6 DEF Laid
<1> QED BY <1>3, <1>4

\* The first bytes of the entries.
FirstBytes == [n : Nat \ {0}, i : {1}]

\* As far as a stream is read, the entries begun are the first ones of the scope, each
\* once and in order: as many as the number of the entry of the last byte.
LEMMA EntriesBegun ==
  ASSUME NEW E \in Seq(Entry), NEW j \in 1 .. Len(StreamOf(E))
  PROVE  LET st == StreamOf(E)
             f == SelectionUpTo(st, FirstBytes)
         IN  /\ Len(f[j]) = st[j].n
             /\ st[j].n \in 1 .. Len(E)
             /\ \A k \in 1 .. st[j].n : f[j][k].n = k
<1>1. PICK st : st = StreamOf(E)
  OBVIOUS
<1>2. st \in Seq(Byte) /\ Len(st) \in Nat /\ j \in 1 .. Len(st) /\ Len(E) \in Nat
  BY <1>1, StreamLaid
<1>3. Laid(E, Len(E), st)
  <2>1. st # <<>>
    BY <1>2
  <2> QED BY <1>1, <2>1, StreamLaid
<1>4. /\ st[1] = [n |-> 1, i |-> 1]
      /\ \A m \in 1 .. Len(st) : st[m].n \in 1 .. Len(E) /\ st[m].i \in 1 .. E[st[m].n].size
      /\ \A m \in 1 .. Len(st) - 1 :
           st[m + 1] = IF st[m].i = E[st[m].n].size THEN [n |-> st[m].n + 1, i |-> 1]
                       ELSE [n |-> st[m].n, i |-> st[m].i + 1]
  BY <1>3 DEF Laid
<1>5. \A m \in 1 .. Len(st) : st[m] \in FirstBytes <=> st[m].i = 1
  <2> SUFFICES ASSUME NEW m \in 1 .. Len(st) PROVE st[m] \in FirstBytes <=> st[m].i = 1
    OBVIOUS
  <2>1. st[m] \in Byte
    BY <1>2
  <2> QED BY <2>1 DEF Byte, FirstBytes
<1>6a. PICK f : f = SelectionUpTo(st, FirstBytes)
  OBVIOUS
<1>6. /\ f[0] = <<>>
      /\ \A n \in 1 .. Len(st) :
           f[n] = IF st[n] \in FirstBytes THEN Append(f[n - 1], st[n]) ELSE f[n - 1]
      /\ \A n \in 0 .. Len(st) : f[n] \in Seq(Byte)
  <2>1. SelectsAlong(Byte, st, FirstBytes, f)
    BY <1>2, <1>6a, SelectionStep
  <2> QED BY <2>1 DEF SelectsAlong
<1> DEFINE Counted(n) == /\ Len(f[n]) = st[n].n
                         /\ \A k \in 1 .. st[n].n : f[n][k].n = k
           X == {n \in 0 .. Len(st) : n = 0 \/ Counted(n)}
<1>7. 0 \in X
  BY <1>2
<1>8. ASSUME NEW n \in 1 .. Len(st), n - 1 \in X PROVE n \in X
  <2>0. n \in 0 .. Len(st) /\ n \in Nat /\ n - 1 \in 0 .. Len(st) /\ f[n - 1] \in Seq(Byte)
    BY <1>2, <1>6
  <2>1. CASE n = 1
    <3>1. 1 \in 1 .. Len(st) /\ 1 - 1 = 0
      BY <1>2
    <3>2. st[1].n = 1 /\ st[1].i = 1 /\ st[1] \in FirstBytes
      BY <1>4, <1>5, <3>1
    <3>3. f[1] = Append(<<>>, st[1])
      BY <1>6, <3>1, <3>2
    <3>4. f[1] = <<st[1]>>
      BY <3>3
    <3>5. Counted(1)
      BY <3>2, <3>4
    <3> QED BY <2>0, <2>1, <3>5
  <2>2. CASE n # 1
    <3>1. /\ n - 1 \in 1 .. Len(st) /\ n - 1 \in 1 .. Len(st) - 1 /\ n - 1 + 1 = n
          /\ Counted(n - 1)
      BY <1>2, <1>8, <2>2
    <3>2. PICK p \in 1 .. Len(st) - 1 : p = n - 1
      BY <3>1
    <3>3. /\ p \in 1 .. Len(st) /\ p + 1 = n /\ st[p].n \in 1 .. Len(E) /\ st[p].i \in Nat \ {0}
          /\ st[p].n \in Nat
      BY <1>2, <1>4, <3>2, <3>1
    <3>4. st[n] = IF st[p].i = E[st[p].n].size THEN [n |-> st[p].n + 1, i |-> 1]
                  ELSE [n |-> st[p].n, i |-> st[p].i + 1]
      BY <1>4, <3>3
    <3>5. Len(f[p]) = st[p].n /\ \A k \in 1 .. st[p].n : f[p][k].n = k
      BY <3>1, <3>2
    <3>6. f[n] = IF st[n] \in FirstBytes THEN Append(f[p], st[n]) ELSE f[p]
      BY <1>6, <3>2
    <3>7. f[p] \in Seq(Byte)
      BY <2>0, <3>2
    <3>8. CASE st[p].i = E[st[p].n].size
      <4>1. st[n].n = st[p].n + 1 /\ st[n].i = 1 /\ st[n] \in FirstBytes /\ st[n] \in Byte
        BY <1>2, <1>5, <3>4, <3>8
      <4>2. f[n] = Append(f[p], st[n])
        BY <3>6, <4>1
      <4>3. /\ Len(f[n]) = Len(f[p]) + 1 /\ f[n][Len(f[p]) + 1] = st[n]
            /\ \A k \in 1 .. Len(f[p]) : f[n][k] = f[p][k]
        BY <3>7, <4>1, <4>2, AppendProperties
      <4>4. ASSUME NEW k \in 1 .. st[n].n PROVE f[n][k].n = k
        <5>1. CASE k = st[n].n
          BY <3>5, <4>1, <4>3, <5>1
        <5>2. CASE k # st[n].n
          <6>1. k \in 1 .. st[p].n
            BY <3>3, <4>1, <5>2
          <6> QED BY <3>5, <4>3, <6>1
        <5> QED BY <5>1, <5>2
      <4>5. Counted(n)
        BY <3>5, <4>1, <4>3, <4>4
      <4> QED BY <2>0, <4>5
    <3>9. CASE st[p].i # E[st[p].n].size
      <4>1. st[n].n = st[p].n /\ st[n].i = st[p].i + 1 /\ st[n].i # 1
        BY <3>3, <3>4, <3>9
      <4>2. f[n] = f[p]
        BY <1>5, <3>6, <4>1
      <4>3. Counted(n)
        BY <3>5, <4>1, <4>2
      <4> QED BY <2>0, <4>3
    <3> QED BY <3>8, <3>9
  <2> QED BY <2>1, <2>2
<1>9. 0 .. Len(st) \subseteq X
  <2> HIDE DEF X
  <2> QED BY <1>2, <1>7, <1>8, CountingUp
<1>10. Counted(j)
  BY <1>2, <1>9
<1> QED BY <1>1, <1>2, <1>4, <1>6a, <1>10

\* What a buffer that begins a scope's stream holds: the first entries of the scope,
\* all of them once the stream is complete.
LEMMA HeadsOfBeginning ==
  ASSUME NEW E \in Seq(Entry), NEW bytes \in Seq(Byte), Starts(bytes, StreamOf(E))
  PROVE  /\ Heads(bytes) \in Seq(Byte)
         /\ Len(Heads(bytes)) \in 0 .. Len(E)
         /\ \A k \in 1 .. Len(Heads(bytes)) : Heads(bytes)[k].n = k
         /\ Len(bytes) = Len(StreamOf(E)) => Len(Heads(bytes)) = Len(E)
         /\ bytes # <<>> => Len(Heads(bytes)) # 0
<1>1. PICK st : st = StreamOf(E)
  OBVIOUS
<1>2. st \in Seq(Byte) /\ Len(st) \in Nat /\ Len(bytes) \in Nat /\ Len(bytes) <= Len(st)
  BY <1>1, StreamLaid DEF Starts
<1>3. PICK f : f = SelectionUpTo(st, FirstBytes)
  OBVIOUS
<1>4. PICK h : h = Heads(bytes)
  OBVIOUS
<1>5. f[0] = <<>> /\ \A n \in 0 .. Len(st) : f[n] \in Seq(Byte)
  <2>1. SelectsAlong(Byte, st, FirstBytes, f)
    BY <1>2, <1>3, SelectionStep
  <2> QED BY <2>1 DEF SelectsAlong
<1>6. h = f[Len(bytes)]
  <2>1. Heads(bytes) = Selection(bytes, FirstBytes)
    BY DEF Heads, FirstBytes
  <2>2. Selection(bytes, FirstBytes) = SelectionUpTo(st, FirstBytes)[Len(bytes)]
    BY <1>1, <1>2, SelectionOfBeginning
  <2> QED BY <1>3, <1>4, <2>1, <2>2
<1>7. h \in Seq(Byte)
  BY <1>2, <1>5, <1>6
<1>8. CASE bytes = <<>>
  <2>1. Len(bytes) = 0 /\ h = <<>> /\ Len(h) = 0
    BY <1>5, <1>6, <1>8
  <2>2. ASSUME Len(bytes) = Len(st) PROVE Len(E) = 0
    <3>1. st = <<>>
      BY <1>2, <2>1, <2>2
    <3>2. ASSUME E # <<>> PROVE FALSE
      <4>1. Laid(E, Len(E), st)
        BY <1>1, <3>2, StreamLaid
      <4> QED BY <3>1, <4>1 DEF Laid
    <3> QED BY <3>2
  <2>3. Len(E) \in Nat
    OBVIOUS
  <2> QED BY <1>1, <1>4, <1>7, <1>8, <2>1, <2>2, <2>3
<1>9. CASE bytes # <<>>
  <2>1. PICK j \in 1 .. Len(st) : j = Len(bytes)
    BY <1>2, <1>9
  <2>2. /\ Len(f[j]) = st[j].n /\ st[j].n \in 1 .. Len(E)
        /\ \A k \in 1 .. st[j].n : f[j][k].n = k
    BY <1>1, <1>3, EntriesBegun
  <2>3. /\ Len(h) = st[j].n /\ Len(h) \in 0 .. Len(E) /\ Len(h) # 0
        /\ \A k \in 1 .. Len(h) : h[k].n = k
    BY <1>6, <2>1, <2>2
  <2>4. ASSUME Len(bytes) = Len(st) PROVE Len(h) = Len(E)
    <3>1. E # <<>>
      BY <2>2
    <3>2. Laid(E, Len(E), st)
      BY <1>1, <3>1, StreamLaid
    <3>3. st[Len(st)] = [n |-> Len(E), i |-> E[Len(E)].size]
      BY <3>2 DEF Laid
    <3>4. st[j].n = Len(E)
      BY <2>1, <2>4, <3>3
    <3> QED BY <2>3, <3>4
  <2> QED BY <1>1, <1>4, <1>7, <1>9, <2>3, <2>4
<1> QED BY <1>8, <1>9

\* A page continues the buffer where it ends: still a beginning of the stream.
LEMMA PageContinues ==
  ASSUME NEW st \in Seq(Byte), NEW b \in Seq(Byte), Starts(b, st),
         NEW k \in Nat, k <= Len(st) - Len(b)
  PROVE  LET all == b \o SubSeq(st, Len(b) + 1, Len(b) + k)
         IN  /\ all \in Seq(Byte) /\ Len(all) = Len(b) + k /\ Starts(all, st)
             /\ \A g \in 0 .. Len(b) : SubSeq(all, 1, g) = SubSeq(b, 1, g)
<1>1. Len(st) \in Nat /\ Len(b) \in Nat /\ Len(b) <= Len(st)
  BY DEF Starts
<1> DEFINE first == Len(b) + 1
           last == Len(b) + k
<1>2. /\ first \in Nat /\ last \in Nat /\ first >= 1 /\ last <= Len(st) /\ last - first + 1 = k
      /\ (first <= last <=> k # 0) /\ \A j \in 1 .. k : first + j - 1 = Len(b) + j
  BY <1>1
<1>3. PICK p : p = SubSeq(st, first, last)
  OBVIOUS
<1>4. p \in Seq(Byte) /\ Len(p) = k /\ \A j \in 1 .. k : p[j] = st[Len(b) + j]
  <2>1. \A i \in first .. last : st[i] \in Byte
    BY <1>1, <1>2
  <2> HIDE DEF first, last
  <2>2. /\ SubSeq(st, first, last) \in Seq(Byte)
        /\ Len(SubSeq(st, first, last)) = IF first <= last THEN last - first + 1 ELSE 0
        /\ \A i \in 1 .. last - first + 1 : SubSeq(st, first, last)[i] = st[first + i - 1]
    BY <1>2, <2>1, SubSeqProperties
  <2>3. Len(p) = k
    BY <1>2, <1>3, <2>2
  <2>4. ASSUME NEW j \in 1 .. k PROVE p[j] = st[Len(b) + j]
    <3>1. j \in 1 .. last - first + 1 /\ first + j - 1 = Len(b) + j
      BY <1>2
    <3> QED BY <1>3, <2>2, <3>1
  <2> QED BY <1>3, <2>2, <2>3, <2>4
<1>5. PICK all : all = b \o p
  OBVIOUS
<1>6. /\ all \in Seq(Byte) /\ Len(all) = Len(b) + k
      /\ \A i \in 1 .. Len(b) + k : all[i] = IF i <= Len(b) THEN b[i] ELSE p[i - Len(b)]
  BY <1>4, <1>5, ConcatProperties
<1>7. ASSUME NEW i \in 1 .. Len(all) PROVE all[i] = st[i]
  <2>1. CASE i <= Len(b)
    <3>1. i \in 1 .. Len(b) /\ i \in 1 .. Len(b) + k
      BY <1>1, <1>6, <2>1
    <3> QED BY <1>6, <2>1, <3>1 DEF Starts
  <2>2. CASE ~ (i <= Len(b))
    <3>1. i - Len(b) \in 1 .. k /\ i \in 1 .. Len(b) + k /\ Len(b) + (i - Len(b)) = i
      BY <1>1, <1>6, <2>2
    <3>2. all[i] = p[i - Len(b)]
      BY <1>6, <2>2, <3>1
    <3>3. p[i - Len(b)] = st[Len(b) + (i - Len(b))]
      BY <1>4, <3>1
    <3> QED BY <3>1, <3>2, <3>3
  <2> QED BY <2>1, <2>2
<1>8. Starts(all, st)
  BY <1>1, <1>2, <1>6, <1>7 DEF Starts
<1>9. ASSUME NEW g \in 0 .. Len(b) PROVE SubSeq(all, 1, g) = SubSeq(b, 1, g)
  <2>1. g \in 0 .. Len(all)
    BY <1>1, <1>6
  <2>2. /\ SubSeq(all, 1, g) \in Seq(Byte) /\ Len(SubSeq(all, 1, g)) = g
        /\ \A i \in 1 .. g : SubSeq(all, 1, g)[i] = all[i]
    BY <1>6, <2>1, FirstOnes
  <2>3. /\ SubSeq(b, 1, g) \in Seq(Byte) /\ Len(SubSeq(b, 1, g)) = g
        /\ \A i \in 1 .. g : SubSeq(b, 1, g)[i] = b[i]
    BY FirstOnes
  <2>4. \A i \in 1 .. g : all[i] = b[i]
    BY <1>1, <1>6
  <2> QED BY <2>2, <2>3, <2>4, SeqEqual
<1> HIDE DEF first, last
<1>10. SubSeq(st, Len(b) + 1, Len(b) + k) = p
  BY <1>3 DEF first, last
<1> QED BY <1>5, <1>6, <1>8, <1>9, <1>10

------------------------------------------------------------------------------
(***************************************************************************)
(* What the workflow says of entries, as a function of the registry        *)
(***************************************************************************)

\* The first m entries of a scope, by name; and all of them.
NamesUpTo(s, m) == [n \in 1 .. m |-> <<s, n>>]
Names(E, s) == NamesUpTo(s, Len(E))

\* The entries of one sort that collect_scope keeps.
KindIn(reg, e) == reg[e[1]][e[2]].kind
SortIn(reg, e) ==
  CASE e[1] = "elf" -> "elf"
    [] e[1] = "isd" \/ (e[1] = "app" /\ KindIn(reg, e) \in {"isd", "sd"}) -> "sd"
    [] OTHER -> "applet"
SkippedIn(reg, giv, e) ==
  \/ e[1] # "isd" /\ KindIn(reg, e) = "no AID"
  \/ e[1] = "app" /\ KindIn(reg, e) = "isd" /\ giv = "full"
KeptOf(reg, giv, sort) == {e \in Named : SortIn(reg, e) = sort /\ ~ SkippedIn(reg, giv, e)}
ExpectedOf(reg, giv, s, sort) == Selection(Names(reg[s], s), KeptOf(reg, giv, sort))

\* tlv::parse of the bytes of the entries E.
ParsedBy(E, bytes) ==
  /\ \A j \in DOMAIN bytes : bytes[j].i > 1 => j > 1 /\ Follows(bytes[j - 1], bytes[j])
  /\ \A j \in DOMAIN bytes :
       ~ (bytes[j].i = E[bytes[j].n].size /\ E[bytes[j].n].kind # "garbage") =>
         j < Len(bytes) /\ Follows(bytes[j], bytes[j + 1])
  /\ Len(Heads(bytes)) <= MaxTlvs

\* An entry that tlv::parse cannot hold or read.
Unreadable(E) == \E n \in DOMAIN E : E[n].kind = "broken" \/ E[n].modules >= MaxTlvs

\* A list that is a beginning of x, then one of y.
TwoBeginnings(list, x, y) ==
  \E a \in 0 .. Len(list) :
    /\ a <= Len(x) /\ Len(list) - a <= Len(y)
    /\ \A i \in 1 .. a : list[i] = x[i]
    /\ \A j \in 1 .. Len(list) - a : list[a + j] = y[j]

------------------------------------------------------------------------------
(***************************************************************************)
(* The inductive invariant                                                 *)
(***************************************************************************)

\* Reading: the buffer begins the stream, and what was kept of it parses.
ReadInv ==
  /\ Starts(buf, StreamOf(registry[scope]))
  /\ pc = "page" => At = Len(buf)
  /\ ParsedBy(registry[scope], SubSeq(buf, 1, good))
  /\ report = "malformed" => Unreadable(registry[scope])
  /\ pc # "done" => report = "pending"

\* What the lists hold of the scopes read so far, and what of that they may lack.
ListInv ==
  LET isdSds == ExpectedOf(registry, given, "isd", "sd")
      appSds == ExpectedOf(registry, given, "app", "sd")
      appApplets == ExpectedOf(registry, given, "app", "applet")
      elfElfs == ExpectedOf(registry, given, "elf", "elf")
  IN  /\ scope = "isd" => sds = <<>>
      /\ scope = "app" => Starts(sds, isdSds)
      /\ scope = "elf" => TwoBeginnings(sds, isdSds, appSds)
      /\ scope # "elf" => applets = <<>>
      /\ scope = "elf" => Starts(applets, appApplets)
      /\ scope # "elf" \/ pc # "done" => elfs = <<>>
      /\ Starts(elfs, elfElfs)

\* Nothing is missing from the lists, nor from the buffer to be stored.
WholeInv ==
  LET isdSds == ExpectedOf(registry, given, "isd", "sd")
      appSds == ExpectedOf(registry, given, "app", "sd")
      appApplets == ExpectedOf(registry, given, "app", "applet")
      elfElfs == ExpectedOf(registry, given, "elf", "elf")
  IN  ~ truncated /\ dropped = {} =>
        /\ pc = "store" => Len(buf) = Len(StreamOf(registry[scope])) /\ good = Len(buf)
        /\ scope = "app" => sds = isdSds
        /\ scope = "elf" => sds = isdSds \o appSds /\ applets = appApplets
        /\ report = "ok" => scope = "elf" /\ elfs = elfElfs

IInv == TypeOK /\ ReadInv /\ ListInv /\ WholeInv

------------------------------------------------------------------------------
(***************************************************************************)
(* The workflow's operators, and the functions above                       *)
(***************************************************************************)

LEMMA StreamIs == \A s : Stream(s) = StreamOf(registry[s])
  BY DEF Stream, StreamOf, BytesOf

LEMMA ParsesIs == \A bytes : Parses(bytes) <=> ParsedBy(registry[scope], bytes)
  BY DEF Parses, ParsedBy, IsLastByte, EntryOf

LEMMA KeepIs ==
  \A entries, sort : Keep(entries, sort) = Selection(entries, KeptOf(registry, given, sort))
  BY DEF Keep, KeptOf, SortOf, SortIn, Skipped, SkippedIn, KindOf, KindIn

LEMMA WholeIs ==
  ASSUME NEW s \in Scopes, registry[s] \in Seq(Entry)
  PROVE  Whole(s) = Names(registry[s], s)
<1>1. DOMAIN registry[s] = 1 .. Len(registry[s])
  OBVIOUS
<1> QED BY <1>1 DEF Whole, Names, NamesUpTo

LEMMA ExpectedIs ==
  ASSUME NEW s \in Scopes, registry[s] \in Seq(Entry), NEW sort
  PROVE  Expected(s, sort) = ExpectedOf(registry, given, s, sort)
BY KeepIs, WholeIs DEF Expected, ExpectedOf

\* What a beginning of the stream parses to is the first entries of the scope.
LEMMA EntriesAre ==
  ASSUME registry[scope] \in Seq(Entry),
         NEW bytes \in Seq(Byte), Starts(bytes, StreamOf(registry[scope]))
  PROVE  /\ EntriesIn(bytes) = NamesUpTo(scope, Len(Heads(bytes)))
         /\ Len(Heads(bytes)) \in 0 .. Len(registry[scope])
         /\ Len(bytes) = Len(StreamOf(registry[scope])) =>
              Len(Heads(bytes)) = Len(registry[scope])
         /\ bytes # <<>> => Len(Heads(bytes)) # 0
<1>1. PICK h : h = Heads(bytes)
  OBVIOUS
<1>2. /\ h \in Seq(Byte) /\ Len(h) \in 0 .. Len(registry[scope])
      /\ \A k \in 1 .. Len(h) : h[k].n = k
      /\ Len(bytes) = Len(StreamOf(registry[scope])) => Len(h) = Len(registry[scope])
      /\ bytes # <<>> => Len(h) # 0
  BY <1>1, HeadsOfBeginning
<1>3. DOMAIN h = 1 .. Len(h)
  BY <1>2
<1>4. EntriesIn(bytes) = [j \in 1 .. Len(h) |-> <<scope, h[j].n>>]
  BY <1>1, <1>3 DEF EntriesIn
<1>5. EntriesIn(bytes) = NamesUpTo(scope, Len(h))
  BY <1>2, <1>4 DEF NamesUpTo
<1> QED BY <1>1, <1>2, <1>5

LEMMA NamesBegin ==
  ASSUME NEW E \in Seq(Entry), NEW s, NEW m \in 0 .. Len(E)
  PROVE  /\ NamesUpTo(s, m) \in Seq({s} \X (1 .. Len(E))) /\ Len(NamesUpTo(s, m)) = m
         /\ \A n \in 1 .. m : NamesUpTo(s, m)[n] = <<s, n>>
         /\ Starts(NamesUpTo(s, m), Names(E, s))
         /\ Names(E, s) \in Seq({s} \X (1 .. Len(E)))
<1>0. Len(E) \in Nat /\ m \in Nat /\ Len(E) \in 0 .. Len(E)
  OBVIOUS
<1>1. ASSUME NEW p \in 0 .. Len(E)
      PROVE  /\ NamesUpTo(s, p) \in Seq({s} \X (1 .. Len(E))) /\ Len(NamesUpTo(s, p)) = p
             /\ \A n \in 1 .. p : NamesUpTo(s, p)[n] = <<s, n>>
  <2>1. p \in Nat /\ \A n \in 1 .. p : <<s, n>> \in {s} \X (1 .. Len(E))
    BY <1>0
  <2> QED BY <2>1 DEF NamesUpTo
<1>2. /\ Names(E, s) \in Seq({s} \X (1 .. Len(E))) /\ Len(Names(E, s)) = Len(E)
      /\ \A n \in 1 .. Len(E) : Names(E, s)[n] = <<s, n>>
  BY <1>0, <1>1 DEF Names
<1>3. Starts(NamesUpTo(s, m), Names(E, s))
  <2>1. PICK a : a = NamesUpTo(s, m)
    OBVIOUS
  <2>2. PICK b : b = Names(E, s)
    OBVIOUS
  <2>3. Len(a) = m /\ Len(b) = Len(E) /\ m <= Len(E)
    BY <1>0, <1>1, <1>2, <2>1, <2>2
  <2>4. ASSUME NEW n \in 1 .. Len(a) PROVE a[n] = b[n]
    <3>1. n \in 1 .. m /\ n \in 1 .. Len(E)
      BY <1>0, <2>3
    <3>2. a[n] = <<s, n>>
      BY <1>1, <2>1, <3>1
    <3>3. b[n] = <<s, n>>
      BY <1>2, <2>2, <3>1
    <3> QED BY <3>2, <3>3
  <2>5. Starts(a, b)
    BY <1>0, <2>3, <2>4 DEF Starts
  <2> QED BY <2>1, <2>2, <2>5
<1> QED BY <1>1, <1>2, <1>3

\* What is kept of the first entries of a scope begins what is expected of it.
LEMMA KeptBegins ==
  ASSUME NEW E \in Seq(Entry), NEW s, NEW m \in 0 .. Len(E), NEW T
  PROVE  /\ Selection(NamesUpTo(s, m), T) \in Seq({s} \X (1 .. Len(E)))
         /\ Selection(Names(E, s), T) \in Seq({s} \X (1 .. Len(E)))
         /\ Starts(Selection(NamesUpTo(s, m), T), Selection(Names(E, s), T))
<1>0. Len(E) \in Nat
  OBVIOUS
<1>1. PICK S : S = {s} \X (1 .. Len(E))
  OBVIOUS
<1>2. PICK a : a = NamesUpTo(s, m)
  OBVIOUS
<1>3. PICK b : b = Names(E, s)
  OBVIOUS
<1>4. a \in Seq(S) /\ b \in Seq(S) /\ Starts(a, b)
  BY <1>1, <1>2, <1>3, NamesBegin
<1>5. ASSUME NEW l \in Seq(S) PROVE Selection(l, T) \in Seq(S)
  <2>1. SelectsAlong(S, l, T, SelectionUpTo(l, T)) /\ Len(l) \in 0 .. Len(l)
    BY SelectionStep
  <2> QED BY <2>1 DEF SelectsAlong
<1>6. Starts(Selection(a, T), Selection(b, T))
  BY <1>4, SelectionsStart
<1> QED BY <1>1, <1>2, <1>3, <1>4, <1>5, <1>6

\* Nothing is selected of a list without a member of the set.
LEMMA NoneSelected ==
  ASSUME NEW S, NEW l \in Seq(S), NEW T, \A e \in S : e \notin T
  PROVE  Selection(l, T) = <<>>
<1>0. Len(l) \in Nat /\ 0 \in 0 .. Len(l) /\ 0 \in 0 .. 0
  OBVIOUS
<1>1. \A i \in 1 .. Len(l) : l[i] \in T <=> 0 < i /\ i <= 0
  OBVIOUS
<1>2. Len(Selection(l, T)) = 0
  <2>1. Len(Selection(l, T)) = 0 - 0
    BY <1>0, <1>1, SelectionOfRun
  <2> QED BY <2>1
<1>3. Selection(l, T) \in Seq(S)
  <2>1. SelectsAlong(S, l, T, SelectionUpTo(l, T)) /\ Len(l) \in 0 .. Len(l)
    BY <1>0, SelectionStep
  <2> QED BY <2>1 DEF SelectsAlong
<1> QED BY <1>2, <1>3

\* Each scope holds entries of its own sorts only.
LEMMA SortsOfScopes ==
  ASSUME NEW E \in Seq(Entry), NEW m \in 0 .. Len(E), NEW reg, NEW giv
  PROVE  /\ Selection(NamesUpTo("isd", m), KeptOf(reg, giv, "applet")) = <<>>
         /\ Selection(NamesUpTo("isd", m), KeptOf(reg, giv, "elf")) = <<>>
         /\ Selection(NamesUpTo("app", m), KeptOf(reg, giv, "elf")) = <<>>
         /\ Selection(NamesUpTo("elf", m), KeptOf(reg, giv, "sd")) = <<>>
         /\ Selection(NamesUpTo("elf", m), KeptOf(reg, giv, "applet")) = <<>>
<1>1. ASSUME NEW s, NEW sort, \A e \in {s} \X (1 .. Len(E)) : SortIn(reg, e) # sort
      PROVE  Selection(NamesUpTo(s, m), KeptOf(reg, giv, sort)) = <<>>
  <2>1. \A e \in {s} \X (1 .. Len(E)) : e \notin KeptOf(reg, giv, sort)
    BY <1>1 DEF KeptOf
  <2>2. NamesUpTo(s, m) \in Seq({s} \X (1 .. Len(E)))
    BY NamesBegin
  <2> QED BY <2>1, <2>2, NoneSelected
<1>2. \A e \in {"isd"} \X (1 .. Len(E)) : SortIn(reg, e) # "applet" /\ SortIn(reg, e) # "elf"
  BY DEF SortIn
<1>3. \A e \in {"app"} \X (1 .. Len(E)) : SortIn(reg, e) # "elf"
  BY DEF SortIn
<1>4. \A e \in {"elf"} \X (1 .. Len(E)) : SortIn(reg, e) # "sd" /\ SortIn(reg, e) # "applet"
  BY DEF SortIn
<1> QED BY <1>1, <1>2, <1>3, <1>4

LEMMA WithinLimit ==
  ASSUME NEW S, NEW l \in Seq(S), NEW max \in Nat
  PROVE  /\ Within(l, max) \in Seq(S) /\ Len(Within(l, max)) <= max
         /\ Starts(Within(l, max), l)
         /\ ~ Overflows(l, max) => Within(l, max) = l
<1> DEFINE k == IF Len(l) < max THEN Len(l) ELSE max
<1>0. Len(l) \in Nat /\ k \in 0 .. Len(l) /\ k <= max /\ (~ (Len(l) > max) => k = Len(l))
  OBVIOUS
<1>1. Within(l, max) = SubSeq(l, 1, k)
  BY DEF Within
<1> HIDE DEF k
<1>2. /\ SubSeq(l, 1, k) \in Seq(S) /\ Len(SubSeq(l, 1, k)) = k
      /\ Starts(SubSeq(l, 1, k), l)
  BY <1>0, FirstOnes
<1>3. SubSeq(l, 1, Len(l)) = l
  BY SubSeqFull
<1> QED BY <1>0, <1>1, <1>2, <1>3 DEF Overflows

\* Beginnings of two lists, one after the other; and a beginning of that.
LEMMA TwoBeginningsMade ==
  ASSUME NEW S, NEW a \in Seq(S), NEW b \in Seq(S), NEW x, NEW y, Starts(a, x), Starts(b, y)
  PROVE  TwoBeginnings(a \o b, x, y)
<1>1. PICK l : l = a \o b
  OBVIOUS
<1>2. /\ Len(a) \in Nat /\ Len(b) \in Nat /\ Len(l) = Len(a) + Len(b)
      /\ \A i \in 1 .. Len(a) + Len(b) : l[i] = IF i <= Len(a) THEN a[i] ELSE b[i - Len(a)]
  BY <1>1, ConcatProperties
<1>3. Len(a) \in 0 .. Len(l) /\ Len(l) - Len(a) = Len(b)
  BY <1>2
<1>4. ASSUME NEW i \in 1 .. Len(a) PROVE l[i] = x[i]
  <2>1. i \in 1 .. Len(a) + Len(b) /\ i <= Len(a)
    BY <1>2
  <2>2. l[i] = a[i]
    BY <1>2, <2>1
  <2> QED BY <2>2 DEF Starts
<1>5. ASSUME NEW j \in 1 .. Len(b) PROVE l[Len(a) + j] = y[j]
  <2>1. /\ Len(a) + j \in 1 .. Len(a) + Len(b) /\ ~ (Len(a) + j <= Len(a))
        /\ Len(a) + j - Len(a) = j
    BY <1>2
  <2>2. l[Len(a) + j] = b[j]
    BY <1>2, <2>1
  <2> QED BY <2>2 DEF Starts
<1>6. Len(a) <= Len(x) /\ Len(b) <= Len(y)
  BY DEF Starts
<1>7. TwoBeginnings(l, x, y)
  BY <1>3, <1>4, <1>5, <1>6 DEF TwoBeginnings
<1> QED BY <1>1, <1>7

LEMMA TwoBeginningsCut ==
  ASSUME NEW S, NEW w \in Seq(S), NEW l \in Seq(S), NEW x \in Seq(S), NEW y \in Seq(S),
         TwoBeginnings(l, x, y), Starts(w, l)
  PROVE  TwoBeginnings(w, x, y)
<1>1. PICK a \in 0 .. Len(l) : /\ a <= Len(x) /\ Len(l) - a <= Len(y)
                               /\ \A i \in 1 .. a : l[i] = x[i]
                               /\ \A j \in 1 .. Len(l) - a : l[a + j] = y[j]
  BY DEF TwoBeginnings
<1>2. /\ Len(w) \in Nat /\ Len(l) \in Nat /\ Len(x) \in Nat /\ Len(y) \in Nat /\ a \in Nat
      /\ Len(w) <= Len(l) /\ a <= Len(l)
      /\ \A i \in 1 .. Len(w) : w[i] = l[i]
  BY DEF Starts
<1>3. CASE a <= Len(w)
  <2>1. /\ a \in 0 .. Len(w) /\ Len(w) - a <= Len(y)
    BY <1>1, <1>2, <1>3
  <2>2. ASSUME NEW i \in 1 .. a PROVE w[i] = x[i]
    <3>1. i \in 1 .. Len(w)
      BY <1>2, <1>3
    <3> QED BY <1>1, <1>2, <3>1
  <2>3. ASSUME NEW j \in 1 .. Len(w) - a PROVE w[a + j] = y[j]
    <3>1. a + j \in 1 .. Len(w) /\ j \in 1 .. Len(l) - a
      BY <1>2, <1>3
    <3> QED BY <1>1, <1>2, <3>1
  <2> QED BY <1>1, <2>1, <2>2, <2>3 DEF TwoBeginnings
<1>4. CASE a > Len(w)
  <2>1. /\ Len(w) \in 0 .. Len(w) /\ Len(w) <= Len(x) /\ Len(w) - Len(w) <= Len(y)
        /\ 1 .. Len(w) - Len(w) = {}
    BY <1>1, <1>2, <1>4
  <2>2. ASSUME NEW i \in 1 .. Len(w) PROVE w[i] = x[i]
    <3>1. i \in 1 .. a
      BY <1>2, <1>4
    <3> QED BY <1>1, <1>2, <3>1
  <2> QED BY <2>1, <2>2 DEF TwoBeginnings
<1> QED BY <1>2, <1>3, <1>4

LEMMA OneIsTwoBeginnings ==
  ASSUME NEW S, NEW l \in Seq(S), NEW x, NEW y \in Seq(S), Starts(l, x)
  PROVE  TwoBeginnings(l, x, y)
<1>1. /\ Len(l) \in 0 .. Len(l) /\ Len(l) <= Len(x) /\ Len(l) - Len(l) <= Len(y)
      /\ 1 .. Len(l) - Len(l) = {} /\ \A i \in 1 .. Len(l) : l[i] = x[i]
  BY DEF Starts
<1> QED BY <1>1 DEF TwoBeginnings

------------------------------------------------------------------------------
(***************************************************************************)
(* The steps of a scan keep the invariant                                  *)
(***************************************************************************)

LEMMA Registered ==
  ASSUME NEW reg \in Registries
  PROVE  \A s \in Scopes : reg[s] \in Seq(Entry)
BY RegistriesAssumption

LEMMA ExpectedTyped ==
  ASSUME NEW reg \in Registries, NEW giv, NEW s \in Scopes, NEW sort
  PROVE  /\ ExpectedOf(reg, giv, s, sort) \in Seq({s} \X (1 .. Len(reg[s])))
         /\ ExpectedOf(reg, giv, s, sort) \in Seq(Named)
<1>1. reg[s] \in Seq(Entry)
  BY Registered
<1>2. PICK E \in Seq(Entry) : E = reg[s]
  BY <1>1
<1>3. 0 \in 0 .. Len(E) /\ Len(E) \in Nat
  OBVIOUS
<1>4. Selection(Names(E, s), KeptOf(reg, giv, sort)) \in Seq({s} \X (1 .. Len(E)))
  BY <1>3, KeptBegins
<1>5. {s} \X (1 .. Len(E)) \subseteq Named
  BY <1>3 DEF Named
<1>6. PICK x : x = Selection(Names(E, s), KeptOf(reg, giv, sort))
  OBVIOUS
<1>7. x \in Seq(Named)
  BY <1>4, <1>5, <1>6
<1> QED BY <1>2, <1>4, <1>6, <1>7 DEF ExpectedOf

\* An empty buffer begins every stream, and parses.
LEMMA EmptyReads ==
  ASSUME NEW E \in Seq(Entry), NEW b \in Seq(Byte)
  PROVE  /\ Starts(<<>>, StreamOf(E)) /\ ParsedBy(E, SubSeq(b, 1, 0))
         /\ ParsedBy(E, SubSeq(<<>>, 1, 0)) /\ <<>> \in Seq(Byte)
<1>1. SubSeq(b, 1, 0) = <<>> /\ SubSeq(<<>>, 1, 0) = <<>>
  BY SubSeqEmpty
<1>2. Len(<<>>) = 0 /\ DOMAIN <<>> = {} /\ <<>> \in Seq(Byte)
  OBVIOUS
<1>3. PICK e \in Seq(Byte) : e = <<>>
  BY <1>2
<1>4. SelectsAlong(Byte, e, FirstBytes, SelectionUpTo(e, FirstBytes)) /\ Len(e) = 0
  BY <1>2, <1>3, SelectionStep
<1>5. Heads(e) = <<>>
  BY <1>4 DEF SelectsAlong, Heads, FirstBytes
<1>6. MaxTlvs \in Nat
  BY LimitsAssumption
<1>7. ParsedBy(E, <<>>)
  BY <1>2, <1>3, <1>5, <1>6 DEF ParsedBy
<1>8. Starts(<<>>, StreamOf(E))
  <2>1. StreamOf(E) \in Seq(Byte)
    BY StreamLaid
  <2>2. Len(StreamOf(E)) \in Nat /\ 1 .. 0 = {}
    BY <2>1
  <2> QED BY <1>2, <2>2 DEF Starts
<1> QED BY <1>1, <1>2, <1>7, <1>8

LEMMA EmptyStarts ==
  ASSUME NEW S, NEW l \in Seq(S)
  PROVE  Starts(<<>>, l)
<1>1. Len(l) \in Nat /\ Len(<<>>) = 0 /\ 1 .. 0 = {}
  OBVIOUS
<1> QED BY <1>1 DEF Starts

LEMMA InitInv == Init => IInv
<1> SUFFICES ASSUME Init PROVE IInv
  OBVIOUS
<1>1. /\ registry \in Registries /\ given \in {"full", "partial"} /\ scope = "isd"
      /\ pc = "page" /\ page = 0 /\ p2 = "first" /\ buf = <<>> /\ good = 0 /\ cursor = 0
      /\ truncated = FALSE /\ sds = <<>> /\ applets = <<>> /\ elfs = <<>> /\ modules = <<>>
      /\ report = "pending" /\ dropped = {}
  BY DEF Init
<1>2. registry["isd"] \in Seq(Entry)
  BY <1>1, Registered DEF Scopes
<1>3. Len(<<>>) = 0 /\ \A S : <<>> \in Seq(S)
  OBVIOUS
<1>4. TypeOK
  <2>1. /\ 0 \in 0 .. MaxStatusPages /\ 0 \in 0 .. 0 /\ 0 \in Nat
        /\ 0 <= MaxSds /\ 0 <= MaxApplets /\ 0 <= MaxElfs
    BY LimitsAssumption
  <2>2. <<>> \in Seq(Byte) /\ <<>> \in Seq(Named) /\ <<>> \in Seq(0 .. MaxModules)
    OBVIOUS
  <2>3. buf \in Seq(Byte) /\ good \in 0 .. Len(buf) /\ Len(modules) = Len(elfs)
    BY <1>1, <1>3, <2>1, <2>2
  <2>4. /\ sds \in Seq(Named) /\ applets \in Seq(Named) /\ elfs \in Seq(Named)
        /\ modules \in Seq(0 .. MaxModules)
        /\ Len(sds) <= MaxSds /\ Len(applets) <= MaxApplets /\ Len(elfs) <= MaxElfs
    BY <1>1, <1>3, <2>1, <2>2
  <2> QED BY <1>1, <2>1, <2>3, <2>4 DEF TypeOK, Scopes
<1>5. ReadInv
  <2>1. At = Len(buf)
    BY <1>1, <1>3 DEF At
  <2>2. Starts(<<>>, StreamOf(registry["isd"])) /\ ParsedBy(registry["isd"], SubSeq(<<>>, 1, 0))
    BY <1>2, <1>3, EmptyReads
  <2> QED BY <1>1, <2>1, <2>2 DEF ReadInv
<1>6. ListInv
  <2>1. ExpectedOf(registry, given, "elf", "elf") \in Seq(Named)
    BY <1>1, ExpectedTyped DEF Scopes
  <2>2. Starts(<<>>, ExpectedOf(registry, given, "elf", "elf"))
    BY <2>1, EmptyStarts
  <2> QED BY <1>1, <2>2 DEF ListInv
<1>7. WholeInv
  BY <1>1 DEF WholeInv
<1> QED BY <1>4, <1>5, <1>6, <1>7 DEF IInv

\* What a list holds does not change while a scope is read.
LEMMA ListsStay ==
  ASSUME IInv, UNCHANGED <<registry, given, scope, lists>>, pc # "done"
  PROVE  ListInv'
BY DEF IInv, ListInv, lists

LEMMA PageKeeps ==
  ASSUME IInv, Page
  PROVE  IInv'
<1>1. /\ registry \in Registries /\ pc = "page" /\ scope \in Scopes /\ page \in 0 .. MaxStatusPages
      /\ page < MaxStatusPages /\ buf \in Seq(Byte) /\ good \in 0 .. Len(buf)
      /\ truncated \in BOOLEAN /\ cursor \in Nat
      /\ page' = page + 1 /\ p2' = "next" /\ At = Len(buf) /\ report = "pending"
      /\ Starts(buf, StreamOf(registry[scope]))
      /\ ParsedBy(registry[scope], SubSeq(buf, 1, good))
  BY DEF IInv, TypeOK, ReadInv, Page, Reading, PageCounted, AskNext
<1>2. UNCHANGED <<registry, given, scope, lists, report, dropped>>
  BY DEF Page
<1>3. PICK st : st = StreamOf(registry[scope])
  OBVIOUS
<1>4. st \in Seq(Byte) /\ Len(st) \in Nat /\ Len(buf) \in Nat /\ Starts(buf, st)
  <2>1. registry[scope] \in Seq(Entry)
    BY <1>1, Registered
  <2> QED BY <1>1, <1>3, <2>1, StreamLaid
<1> DEFINE all(k) == buf \o SubSeq(Stream(scope), At + 1, At + k)
           fits(k) == Len(all(k)) <= MaxScopeBytes
           ok(k) == fits(k) /\ Parses(all(k))
<1>5. PICK k \in 0 .. PageBytes, more \in BOOLEAN :
        /\ k <= Left /\ (~ more => k = Left)
        /\ buf' = IF fits(k) THEN all(k) ELSE buf
        /\ good' = Checkpoint(all(k), ok(k))
        /\ truncated' = (truncated \/ ~ fits(k) \/ (~ more /\ ~ ok(k)))
        /\ pc' = IF more /\ fits(k) THEN "page" ELSE "store"
        /\ cursor' = At + k
  BY DEF Page
<1>6. PICK a : a = all(k)
  OBVIOUS
<1>7. PICK fit \in BOOLEAN : fit <=> fits(k)
  OBVIOUS
<1>8. PICK good1 \in BOOLEAN : good1 <=> ok(k)
  OBVIOUS
<1>9. /\ k \in Nat /\ k <= Len(st) - Len(buf) /\ (~ more => k = Len(st) - Len(buf))
      /\ buf' = (IF fit THEN a ELSE buf)
      /\ good' = (IF good1 THEN Len(a) ELSE good)
      /\ truncated' = (truncated \/ ~ fit \/ (~ more /\ ~ good1))
      /\ pc' = (IF more /\ fit THEN "page" ELSE "store")
      /\ cursor' = Len(buf) + k
      /\ a = buf \o SubSeq(st, Len(buf) + 1, Len(buf) + k)
      /\ good1 => fit /\ ParsedBy(registry[scope], a)
  <2>1. k \in Nat
    BY LimitsAssumption
  <2>2. Left = Len(st) - Len(buf) /\ Stream(scope) = st
    BY <1>1, <1>3, StreamIs DEF Left
  <2>3. good1 => fit /\ ParsedBy(registry[scope], a)
    BY <1>6, <1>7, <1>8, ParsesIs
  <2>4. good' = (IF good1 THEN Len(a) ELSE good)
    BY <1>5, <1>6, <1>8 DEF Checkpoint
  <2>5. a = buf \o SubSeq(st, Len(buf) + 1, Len(buf) + k)
    BY <1>1, <1>6, <2>2
  <2>6. truncated' = (truncated \/ ~ fit \/ (~ more /\ ~ good1))
    BY <1>5, <1>7, <1>8, Zenon
  <2> HIDE DEF all, fits, ok
  <2> QED BY <1>1, <1>5, <1>6, <1>7, <1>8, <2>1, <2>2, <2>3, <2>4, <2>5, <2>6
<1> HIDE DEF all, fits, ok
<1>10. /\ a \in Seq(Byte) /\ Len(a) = Len(buf) + k /\ Starts(a, st)
       /\ \A g \in 0 .. Len(buf) : SubSeq(a, 1, g) = SubSeq(buf, 1, g)
  BY <1>1, <1>4, <1>9, PageContinues
<1>11. SubSeq(a, 1, Len(a)) = a
  BY <1>10, SubSeqFull
<1>12. TypeOK'
  <2>1. /\ buf' \in Seq(Byte) /\ good' \in 0 .. Len(buf') /\ cursor' \in Nat
        /\ page' \in 0 .. MaxStatusPages
    BY <1>1, <1>4, <1>9, <1>10, LimitsAssumption
  <2>2. truncated' \in BOOLEAN
    BY <1>9
  <2>3. pc' \in {"page", "store", "done"} /\ p2' \in {"first", "next"}
    BY <1>1, <1>9
  <2> QED BY <1>2, <2>1, <2>2, <2>3 DEF IInv, TypeOK, lists
<1>13. ReadInv'
  <2>1. Starts(buf', StreamOf(registry'[scope']))
    BY <1>1, <1>2, <1>3, <1>9, <1>10
  <2>2. pc' = "page" => At' = Len(buf')
    BY <1>1, <1>9, <1>10 DEF At
  <2>3. ParsedBy(registry[scope], SubSeq(buf', 1, good'))
    <3>1. CASE good1
      BY <1>9, <1>11, <3>1
    <3>2. CASE ~ good1
      BY <1>1, <1>9, <1>10, <3>2
    <3> QED BY <3>1, <3>2
  <2> QED BY <1>1, <1>2, <2>1, <2>2, <2>3 DEF ReadInv
<1>14. ListInv'
  BY <1>1, <1>2, ListsStay
<1>15. WholeInv'
  <2>1. ASSUME ~ truncated', pc' = "store"
        PROVE  Len(buf') = Len(st) /\ good' = Len(buf')
    <3>1. fit /\ good1
      BY <1>9, <2>1
    <3>2. ~ more
      BY <1>9, <2>1, <3>1
    <3>3. k = Len(st) - Len(buf) /\ buf' = a /\ good' = Len(a)
      BY <1>9, <3>1, <3>2
    <3>4. Len(a) = Len(st)
      BY <1>4, <1>10, <3>3
    <3> QED BY <3>3, <3>4
  <2>2. ~ truncated' => ~ truncated
    BY <1>9
  <2>3. Len(st) = Len(StreamOf(registry'[scope']))
    BY <1>2, <1>3
  <2>4. WholeInv
    BY DEF IInv
  <2> QED BY <1>1, <1>2, <2>1, <2>2, <2>3, <2>4 DEF WholeInv, lists
<1> QED BY <1>12, <1>13, <1>14, <1>15 DEF IInv

LEMMA ScopeEmptyKeeps ==
  ASSUME IInv, ScopeEmpty
  PROVE  IInv'
<1>1. /\ registry \in Registries /\ pc = "page" /\ scope \in Scopes /\ buf \in Seq(Byte)
      /\ At = Len(buf) /\ report = "pending" /\ Starts(buf, StreamOf(registry[scope]))
      /\ dropped' = dropped \cup ToSet(EntriesIn(buf)) /\ dropped \subseteq Named
      /\ buf' = <<>> /\ good' = 0 /\ pc' = "store" /\ Left = 0
  BY DEF IInv, TypeOK, ReadInv, ScopeEmpty, Reading
<1>2. UNCHANGED <<registry, cursor, given, scope, page, p2, truncated, lists, report>>
  BY DEF ScopeEmpty
<1>3. registry[scope] \in Seq(Entry)
  BY <1>1, Registered
<1>4. PICK m \in 0 .. Len(registry[scope]) :
        EntriesIn(buf) = NamesUpTo(scope, m) /\ (buf # <<>> => m # 0)
  BY <1>1, <1>3, EntriesAre
<1>5. ToSet(EntriesIn(buf)) = {<<scope, n>> : n \in 1 .. m}
  <2>1. DOMAIN NamesUpTo(scope, m) = 1 .. m /\ \A n \in 1 .. m : NamesUpTo(scope, m)[n] = <<scope, n>>
    BY DEF NamesUpTo
  <2> QED BY <1>4, <2>1 DEF ToSet
<1>6. TypeOK'
  <2>1. Len(<<>>) = 0 /\ <<>> \in Seq(Byte) /\ 0 \in 0 .. 0
    OBVIOUS
  <2>2. dropped' \subseteq Named
    <3>1. \A n \in 1 .. m : n \in Nat
      OBVIOUS
    <3>2. {<<scope, n>> : n \in 1 .. m} \subseteq Named
      BY <1>1, <3>1 DEF Named
    <3> QED BY <1>1, <1>5, <3>2
  <2> QED BY <1>1, <1>2, <2>1, <2>2 DEF IInv, TypeOK, lists
<1>7. ReadInv'
  <2>1. Starts(<<>>, StreamOf(registry[scope])) /\ ParsedBy(registry[scope], SubSeq(<<>>, 1, 0))
    BY <1>1, <1>3, EmptyReads
  <2> QED BY <1>1, <1>2, <2>1 DEF ReadInv
<1>8. ListInv'
  BY <1>1, <1>2, ListsStay
<1>9. WholeInv'
  <2>1. PICK st : st = StreamOf(registry[scope])
    OBVIOUS
  <2>2. st \in Seq(Byte) /\ Len(st) \in Nat /\ Len(buf) \in Nat /\ Len(buf) <= Len(st)
    BY <1>1, <1>3, <2>1, StreamLaid DEF Starts
  <2>3. Len(st) - Len(buf) = 0
    BY <1>1, <2>1, StreamIs DEF Left
  <2>4. ASSUME dropped' = {} PROVE Len(st) = 0 /\ dropped = {}
    <3>1. m = 0
      <4>1. ASSUME m # 0 PROVE FALSE
        <5>1. 1 \in 1 .. m
          BY <4>1
        <5>2. <<scope, 1>> \in dropped'
          BY <1>1, <1>5, <5>1
        <5> QED BY <2>4, <5>2
      <4> QED BY <4>1
    <3>2. buf = <<>>
      BY <1>4, <3>1
    <3> QED BY <1>1, <2>2, <2>3, <2>4, <3>2
  <2>5. Len(<<>>) = 0
    OBVIOUS
  <2>6. WholeInv
    BY DEF IInv
  <2> QED BY <1>1, <1>2, <2>1, <2>4, <2>5, <2>6 DEF WholeInv, lists
<1> QED BY <1>6, <1>7, <1>8, <1>9 DEF IInv

LEMMA PagesExhaustedKeeps ==
  ASSUME IInv, PagesExhausted
  PROVE  IInv'
<1>1. /\ pc = "page" /\ truncated' = TRUE /\ pc' = "store"
      /\ UNCHANGED <<registry, cursor, given, scope, page, p2, buf, good, lists, report, dropped>>
  BY DEF PagesExhausted
<1>2. TypeOK'
  BY <1>1 DEF IInv, TypeOK, lists
<1>3. ReadInv'
  BY <1>1 DEF IInv, ReadInv
<1>4. ListInv'
  BY <1>1, ListsStay
<1>5. WholeInv'
  BY <1>1 DEF WholeInv
<1> QED BY <1>2, <1>3, <1>4, <1>5 DEF IInv

LEMMA ScanFailsKeeps ==
  ASSUME IInv, ScanFails
  PROVE  IInv'
<1>1. /\ pc = "page" /\ pc' = "done" /\ report' = "error"
      /\ UNCHANGED <<registry, cursor, given, scope, page, p2, buf, good, truncated, lists, dropped>>
  BY DEF ScanFails, Reading
<1>2. TypeOK'
  BY <1>1 DEF IInv, TypeOK, lists
<1>3. ReadInv'
  BY <1>1 DEF IInv, ReadInv
<1>4. ListInv'
  BY <1>1, ListsStay
<1>5. WholeInv'
  BY <1>1 DEF IInv, WholeInv, lists
<1> QED BY <1>2, <1>3, <1>4, <1>5 DEF IInv

\* What a scope adds to a list: what is kept of it, as far as the list has room.
Adds(list, new, reg, giv, s, sort, max, kept) ==
  /\ kept \in Seq(Named)
  /\ Starts(kept, ExpectedOf(reg, giv, s, sort))
  /\ new \in Seq(Named) /\ Len(new) <= max
  /\ Starts(new, list \o kept)

LEMMA StoredLists ==
  ASSUME IInv, StoreScope
  PROVE  \E kSd, kApplet, kElf :
           /\ Adds(sds, sds', registry, given, scope, "sd", MaxSds, kSd)
           /\ Adds(applets, applets', registry, given, scope, "applet", MaxApplets, kApplet)
           /\ Adds(elfs, elfs', registry, given, scope, "elf", MaxElfs, kElf)
           /\ scope = "isd" => kApplet = <<>>
           /\ scope # "elf" => kElf = <<>>
           /\ scope = "elf" => kSd = <<>> /\ kApplet = <<>>
           /\ truncated' \in BOOLEAN
           /\ ~ truncated' => /\ ~ truncated
                              /\ sds' = sds \o kSd /\ applets' = applets \o kApplet
                              /\ elfs' = elfs \o kElf
           /\ ~ truncated /\ dropped = {} =>
                /\ kSd = ExpectedOf(registry, given, scope, "sd")
                /\ kApplet = ExpectedOf(registry, given, scope, "applet")
                /\ kElf = ExpectedOf(registry, given, scope, "elf")
<1>1. /\ registry \in Registries /\ scope \in Scopes /\ buf \in Seq(Byte) /\ good \in 0 .. Len(buf)
      /\ sds \in Seq(Named) /\ applets \in Seq(Named) /\ elfs \in Seq(Named)
      /\ truncated \in BOOLEAN /\ pc = "store"
      /\ Starts(buf, StreamOf(registry[scope]))
  BY DEF IInv, TypeOK, ReadInv, StoreScope
<1>2. PICK E \in Seq(Entry) : E = registry[scope]
  BY <1>1, Registered
<1>3. PICK bytes : bytes = SubSeq(buf, 1, good)
  OBVIOUS
<1>4. bytes \in Seq(Byte) /\ Starts(bytes, StreamOf(E)) /\ Len(bytes) = good
  <2>1. bytes \in Seq(Byte) /\ Starts(bytes, buf) /\ Len(bytes) = good
    BY <1>1, <1>3, FirstOnes
  <2>2. StreamOf(E) \in Seq(Byte)
    BY StreamLaid
  <2>3. Starts(bytes, StreamOf(E))
    BY <1>1, <1>2, <2>1, <2>2, StartsTransitive
  <2> QED BY <2>1, <2>3
<1>5. PICK m \in 0 .. Len(E) :
        /\ Stored = NamesUpTo(scope, m)
        /\ Len(bytes) = Len(StreamOf(E)) => m = Len(E)
  <2>1. /\ EntriesIn(bytes) = NamesUpTo(scope, Len(Heads(bytes)))
        /\ Len(Heads(bytes)) \in 0 .. Len(E)
        /\ Len(bytes) = Len(StreamOf(E)) => Len(Heads(bytes)) = Len(E)
    BY <1>2, <1>4, EntriesAre
  <2> QED BY <1>3, <2>1 DEF Stored
<1>6. ~ truncated /\ dropped = {} => m = Len(E)
  <2>1. ~ truncated /\ dropped = {} => Len(buf) = Len(StreamOf(E)) /\ good = Len(buf)
    BY <1>1, <1>2 DEF IInv, WholeInv
  <2> QED BY <1>4, <1>5, <2>1
<1>7. ASSUME NEW sort
      PROVE  /\ Keep(Stored, sort) \in Seq(Named)
             /\ Starts(Keep(Stored, sort), ExpectedOf(registry, given, scope, sort))
             /\ ~ truncated /\ dropped = {} =>
                  Keep(Stored, sort) = ExpectedOf(registry, given, scope, sort)
             /\ Keep(Stored, sort) =
                  Selection(NamesUpTo(scope, m), KeptOf(registry, given, sort))
  <2>1. Keep(Stored, sort) = Selection(NamesUpTo(scope, m), KeptOf(registry, given, sort))
    BY <1>5, KeepIs
  <2>2. ExpectedOf(registry, given, scope, sort)
          = Selection(Names(E, scope), KeptOf(registry, given, sort))
    BY <1>2 DEF ExpectedOf
  <2>3. PICK k : k = Selection(NamesUpTo(scope, m), KeptOf(registry, given, sort))
    OBVIOUS
  <2>4. /\ k \in Seq({scope} \X (1 .. Len(E)))
        /\ Starts(k, Selection(Names(E, scope), KeptOf(registry, given, sort)))
    BY <2>3, KeptBegins
  <2>5. {scope} \X (1 .. Len(E)) \subseteq Named
    BY <1>1 DEF Named
  <2>6. k \in Seq(Named)
    BY <2>4, <2>5
  <2>7. ~ truncated /\ dropped = {} => k = Selection(Names(E, scope), KeptOf(registry, given, sort))
    BY <1>6, <2>3 DEF Names
  <2> QED BY <2>1, <2>2, <2>3, <2>4, <2>6, <2>7
<1>8. PICK kSd : kSd = Keep(Stored, "sd")
  OBVIOUS
<1>9. PICK kApplet : kApplet = Keep(Stored, "applet")
  OBVIOUS
<1>10. PICK kElf : kElf = Keep(Stored, "elf")
  OBVIOUS
<1>11. /\ sds' = Within(sds \o kSd, MaxSds)
       /\ applets' = Within(applets \o kApplet, MaxApplets)
       /\ elfs' = Within(elfs \o kElf, MaxElfs)
       /\ truncated' = (truncated \/ Overflows(sds \o kSd, MaxSds)
                                  \/ Overflows(applets \o kApplet, MaxApplets)
                                  \/ Overflows(elfs \o kElf, MaxElfs))
  BY <1>8, <1>9, <1>10, Zenon DEF StoreScope
<1>12. ASSUME NEW list \in Seq(Named), NEW sort, NEW max \in Nat, NEW new, NEW kept,
              kept = Keep(Stored, sort), new = Within(list \o kept, max)
       PROVE  /\ Adds(list, new, registry, given, scope, sort, max, kept)
              /\ ~ Overflows(list \o kept, max) => new = list \o kept
  <2>1. kept \in Seq(Named) /\ Starts(kept, ExpectedOf(registry, given, scope, sort))
    BY <1>7, <1>12
  <2>2. list \o kept \in Seq(Named)
    BY <2>1
  <2>3. PICK l \in Seq(Named) : l = list \o kept
    BY <2>2
  <2>4. /\ Within(l, max) \in Seq(Named) /\ Len(Within(l, max)) <= max
        /\ Starts(Within(l, max), l) /\ (~ Overflows(l, max) => Within(l, max) = l)
    BY WithinLimit
  <2> QED BY <1>12, <2>1, <2>3, <2>4 DEF Adds
<1>13. MaxSds \in Nat /\ MaxApplets \in Nat /\ MaxElfs \in Nat
  BY LimitsAssumption
<1>14. /\ Adds(sds, sds', registry, given, scope, "sd", MaxSds, kSd)
       /\ Adds(applets, applets', registry, given, scope, "applet", MaxApplets, kApplet)
       /\ Adds(elfs, elfs', registry, given, scope, "elf", MaxElfs, kElf)
       /\ ~ Overflows(sds \o kSd, MaxSds) => sds' = sds \o kSd
       /\ ~ Overflows(applets \o kApplet, MaxApplets) => applets' = applets \o kApplet
       /\ ~ Overflows(elfs \o kElf, MaxElfs) => elfs' = elfs \o kElf
  BY <1>1, <1>8, <1>9, <1>10, <1>11, <1>12, <1>13
<1>15. truncated' \in BOOLEAN
  BY <1>11
<1>16. ~ truncated' => /\ ~ truncated
                       /\ sds' = sds \o kSd /\ applets' = applets \o kApplet
                       /\ elfs' = elfs \o kElf
  BY <1>11, <1>14, Zenon
<1>17. /\ scope = "isd" => kApplet = <<>>
       /\ scope # "elf" => kElf = <<>>
       /\ scope = "elf" => kSd = <<>> /\ kApplet = <<>>
  <2>1. /\ kSd = Selection(NamesUpTo(scope, m), KeptOf(registry, given, "sd"))
        /\ kApplet = Selection(NamesUpTo(scope, m), KeptOf(registry, given, "applet"))
        /\ kElf = Selection(NamesUpTo(scope, m), KeptOf(registry, given, "elf"))
    BY <1>7, <1>8, <1>9, <1>10
  <2>2. scope = "isd" => kApplet = <<>> /\ kElf = <<>>
    BY <2>1, SortsOfScopes
  <2>3. scope = "app" => kElf = <<>>
    BY <2>1, SortsOfScopes
  <2>4. scope = "elf" => kSd = <<>> /\ kApplet = <<>>
    BY <2>1, SortsOfScopes
  <2> QED BY <1>1, <2>2, <2>3, <2>4 DEF Scopes
<1>18. ~ truncated /\ dropped = {} =>
         /\ kSd = ExpectedOf(registry, given, scope, "sd")
         /\ kApplet = ExpectedOf(registry, given, scope, "applet")
         /\ kElf = ExpectedOf(registry, given, scope, "elf")
  BY <1>7, <1>8, <1>9, <1>10
<1> QED BY <1>14, <1>15, <1>16, <1>17, <1>18

LEMMA StartsNothing ==
  ASSUME NEW S, NEW l \in Seq(S), Starts(l, <<>>)
  PROVE  l = <<>>
<1>1. Len(l) \in Nat /\ Len(<<>>) = 0
  OBVIOUS
<1>2. Len(l) <= 0
  BY <1>1 DEF Starts
<1> QED BY <1>1, <1>2

LEMMA NextScopeIs ==
  NextScope["isd"] = "app" /\ NextScope["app"] = "elf"
BY DEF NextScope

\* The lists of load files and modules go together.
LEMMA ModulesTyped ==
  ASSUME NEW reg \in Registries, reg = registry, NEW list,
         list \in Seq({"elf"} \X (1 .. Len(reg["elf"])))
  PROVE  ModulesListed(list) \in Seq(0 .. MaxModules) /\ Len(ModulesListed(list)) = Len(list)
<1>1. MaxModules \in Nat
  BY LimitsAssumption
<1>2. PICK E \in Seq(Entry) : E = reg["elf"]
  BY Registered DEF Scopes
<1>3. Len(list) \in Nat /\ DOMAIN list = 1 .. Len(list) /\ DOMAIN E = 1 .. Len(E)
  OBVIOUS
<1>4. ASSUME NEW j \in 1 .. Len(list) PROVE Min({ModulesOf(list[j]), MaxModules}) \in 0 .. MaxModules
  <2>1. list[j] \in {"elf"} \X (1 .. Len(E))
    BY <1>2
  <2>2. list[j][1] = "elf" /\ list[j][2] \in 1 .. Len(E)
    BY <2>1
  <2>3. ModulesOf(list[j]) = E[list[j][2]].modules
    BY <1>2, <2>2 DEF ModulesOf
  <2>4. E[list[j][2]] \in Entry
    BY <1>3, <2>2
  <2>5. PICK n \in Nat : n = ModulesOf(list[j])
    BY <2>3, <2>4 DEF Entry
  <2>6. \A x, y \in Nat : Min({x, y}) \in {x, y} /\ Min({x, y}) <= y
    <3> SUFFICES ASSUME NEW x \in Nat, NEW y \in Nat
                 PROVE  Min({x, y}) \in {x, y} /\ Min({x, y}) <= y
      OBVIOUS
    <3>1. \E z \in {x, y} : \A w \in {x, y} : z <= w
      <4>1. CASE x <= y
        BY <4>1
      <4>2. CASE ~ (x <= y)
        BY <4>2
      <4> QED BY <4>1, <4>2
    <3>2. Min({x, y}) \in {x, y} /\ \A w \in {x, y} : Min({x, y}) <= w
      BY <3>1 DEF Min
    <3> QED BY <3>2
  <2>7. Min({n, MaxModules}) \in {n, MaxModules} /\ Min({n, MaxModules}) <= MaxModules
    BY <1>1, <2>6
  <2>8. Min({n, MaxModules}) \in Nat
    BY <1>1, <2>7
  <2> QED BY <1>1, <2>5, <2>7, <2>8
<1>5. ModulesListed(list) = [j \in 1 .. Len(list) |-> Min({ModulesOf(list[j]), MaxModules})]
  BY <1>3 DEF ModulesListed
<1>6. PICK f : f = [j \in 1 .. Len(list) |-> Min({ModulesOf(list[j]), MaxModules})]
  OBVIOUS
<1>7. f \in [1 .. Len(list) -> 0 .. MaxModules]
  BY <1>4, <1>6
<1>8. f \in Seq(0 .. MaxModules) /\ Len(f) = Len(list)
  <2>1. PICK n \in Nat : n = Len(list)
    BY <1>3
  <2>2. PICK R : R = 0 .. MaxModules
    OBVIOUS
  <2>3. f \in [1 .. n -> R]
    BY <1>7, <2>1, <2>2
  <2>4. f \in Seq(R) /\ Len(f) = n
    BY <2>3
  <2> QED BY <2>1, <2>2, <2>4
<1> QED BY <1>5, <1>6, <1>8

LEMMA StoreKeeps ==
  ASSUME IInv, StoreScope
  PROVE  IInv'
<1>1. /\ registry \in Registries /\ given \in {"full", "partial"} /\ scope \in Scopes
      /\ buf \in Seq(Byte) /\ pc = "store" /\ report = "pending"
      /\ sds \in Seq(Named) /\ applets \in Seq(Named) /\ elfs \in Seq(Named)
      /\ cursor \in Nat /\ dropped \subseteq Named
      /\ page \in 0 .. MaxStatusPages /\ p2 \in {"first", "next"} /\ good \in 0 .. Len(buf)
      /\ Starts(buf, StreamOf(registry[scope]))
      /\ ParsedBy(registry[scope], SubSeq(buf, 1, good))
  BY DEF IInv, TypeOK, ReadInv, StoreScope
<1>2. /\ UNCHANGED <<registry, cursor, given, dropped>>
      /\ modules' = ModulesListed(elfs')
      /\ scope = "elf" => /\ pc' = "done" /\ report' = "ok"
                          /\ UNCHANGED <<scope, page, p2, buf, good>>
      /\ scope # "elf" => /\ scope' = NextScope[scope] /\ pc' = "page" /\ page' = 0
                          /\ p2' = "first" /\ buf' = <<>> /\ good' = 0 /\ report' = report
  BY DEF StoreScope, StartScope
<1>3. scope' \in Scopes /\ (scope = "isd" => scope' = "app") /\ (scope = "app" => scope' = "elf")
  BY <1>1, <1>2, NextScopeIs DEF Scopes
<1>4. PICK kSd, kApplet, kElf :
        /\ Adds(sds, sds', registry, given, scope, "sd", MaxSds, kSd)
        /\ Adds(applets, applets', registry, given, scope, "applet", MaxApplets, kApplet)
        /\ Adds(elfs, elfs', registry, given, scope, "elf", MaxElfs, kElf)
        /\ scope = "isd" => kApplet = <<>>
        /\ scope # "elf" => kElf = <<>>
        /\ scope = "elf" => kSd = <<>> /\ kApplet = <<>>
        /\ truncated' \in BOOLEAN
        /\ ~ truncated' => /\ ~ truncated
                           /\ sds' = sds \o kSd /\ applets' = applets \o kApplet
                           /\ elfs' = elfs \o kElf
        /\ ~ truncated /\ dropped = {} =>
             /\ kSd = ExpectedOf(registry, given, scope, "sd")
             /\ kApplet = ExpectedOf(registry, given, scope, "applet")
             /\ kElf = ExpectedOf(registry, given, scope, "elf")
  BY StoredLists
<1>5. /\ kSd \in Seq(Named) /\ kApplet \in Seq(Named) /\ kElf \in Seq(Named)
      /\ sds' \in Seq(Named) /\ applets' \in Seq(Named) /\ elfs' \in Seq(Named)
      /\ Len(sds') <= MaxSds /\ Len(applets') <= MaxApplets /\ Len(elfs') <= MaxElfs
      /\ Starts(sds', sds \o kSd) /\ Starts(applets', applets \o kApplet)
      /\ Starts(elfs', elfs \o kElf)
      /\ Starts(kSd, ExpectedOf(registry, given, scope, "sd"))
      /\ Starts(kApplet, ExpectedOf(registry, given, scope, "applet"))
      /\ Starts(kElf, ExpectedOf(registry, given, scope, "elf"))
  BY <1>4 DEF Adds
<1> DEFINE isdSds == ExpectedOf(registry, given, "isd", "sd")
           appSds == ExpectedOf(registry, given, "app", "sd")
           appApplets == ExpectedOf(registry, given, "app", "applet")
           elfElfs == ExpectedOf(registry, given, "elf", "elf")
<1>6. /\ isdSds \in Seq(Named) /\ appSds \in Seq(Named) /\ appApplets \in Seq(Named)
      /\ elfElfs \in Seq(Named) /\ elfElfs \in Seq({"elf"} \X (1 .. Len(registry["elf"])))
  BY <1>1, ExpectedTyped DEF Scopes
<1>7. /\ scope = "isd" => sds = <<>>
      /\ scope = "app" => Starts(sds, isdSds)
      /\ scope = "elf" => TwoBeginnings(sds, isdSds, appSds)
      /\ scope # "elf" => applets = <<>>
      /\ scope = "elf" => Starts(applets, appApplets)
      /\ elfs = <<>>
      /\ ~ truncated /\ dropped = {} =>
           /\ scope = "app" => sds = isdSds
           /\ scope = "elf" => sds = isdSds \o appSds /\ applets = appApplets
  BY <1>1 DEF IInv, ListInv, WholeInv
<1>8. \A l \in Seq(Named) : <<>> \o l = l /\ l \o <<>> = l
  OBVIOUS
<1>9. /\ Starts(elfs', kElf) /\ (~ truncated' => elfs' = kElf)
      /\ scope # "elf" => elfs' = <<>>
      /\ scope = "elf" => Starts(elfs', elfElfs)
  <2>1. Starts(elfs', kElf) /\ (~ truncated' => elfs' = kElf)
    BY <1>4, <1>5, <1>7, <1>8
  <2>2. scope # "elf" => elfs' = <<>>
    BY <1>4, <1>5, <2>1, StartsNothing
  <2>3. scope = "elf" => Starts(elfs', elfElfs)
    BY <1>5, <1>6, <2>1, StartsTransitive
  <2> QED BY <2>1, <2>2, <2>3
<1>10. Starts(elfs', elfElfs)
  <2>1. scope # "elf" => Starts(elfs', elfElfs)
    BY <1>6, <1>9, EmptyStarts
  <2> QED BY <1>9, <2>1
<1>11. /\ scope = "isd" => Starts(sds', isdSds) /\ applets' = <<>>
       /\ scope = "app" => TwoBeginnings(sds', isdSds, appSds) /\ Starts(applets', appApplets)
       /\ scope = "elf" => TwoBeginnings(sds', isdSds, appSds) /\ Starts(applets', appApplets)
  <2> HIDE DEF isdSds, appSds, appApplets, elfElfs
  <2>1. ASSUME scope = "isd" PROVE Starts(sds', isdSds) /\ applets' = <<>>
    <3>1. Starts(sds', kSd)
      BY <1>5, <1>7, <1>8, <2>1
    <3>2. Starts(kSd, isdSds)
      BY <1>5, <2>1 DEF isdSds
    <3>3. Starts(sds', isdSds)
      BY <1>5, <1>6, <3>1, <3>2, StartsTransitive
    <3>4. Starts(applets', <<>>)
      BY <1>4, <1>5, <1>7, <1>8, <2>1
    <3>5. applets' = <<>>
      BY <1>5, <3>4, StartsNothing
    <3> QED BY <3>3, <3>5
  <2>2. ASSUME scope = "app"
        PROVE  TwoBeginnings(sds', isdSds, appSds) /\ Starts(applets', appApplets)
    <3>1. Starts(kSd, appSds) /\ Starts(kApplet, appApplets)
      BY <1>5, <2>2 DEF appSds, appApplets
    <3>2. TwoBeginnings(sds \o kSd, isdSds, appSds)
      BY <1>1, <1>5, <1>7, <2>2, <3>1, TwoBeginningsMade
    <3>3. sds \o kSd \in Seq(Named)
      BY <1>1, <1>5
    <3>4. TwoBeginnings(sds', isdSds, appSds)
      BY <1>5, <1>6, <3>2, <3>3, TwoBeginningsCut
    <3>5. Starts(applets', kApplet)
      BY <1>5, <1>7, <1>8, <2>2
    <3>6. Starts(applets', appApplets)
      BY <1>5, <1>6, <3>1, <3>5, StartsTransitive
    <3> QED BY <3>4, <3>6
  <2>3. ASSUME scope = "elf"
        PROVE  TwoBeginnings(sds', isdSds, appSds) /\ Starts(applets', appApplets)
    <3>1. Starts(sds', sds) /\ Starts(applets', applets)
      BY <1>1, <1>4, <1>5, <1>8, <2>3
    <3>2. TwoBeginnings(sds', isdSds, appSds)
      BY <1>1, <1>5, <1>6, <1>7, <2>3, <3>1, TwoBeginningsCut
    <3>3. Starts(applets', appApplets)
      BY <1>1, <1>5, <1>6, <1>7, <2>3, <3>1, StartsTransitive
    <3> QED BY <3>2, <3>3
  <2> QED BY <2>1, <2>2, <2>3
<1>12. ListInv'
  <2>1. /\ scope' = "app" => Starts(sds', isdSds) /\ applets' = <<>>
        /\ scope' = "elf" => TwoBeginnings(sds', isdSds, appSds) /\ Starts(applets', appApplets)
        /\ scope' # "isd"
        /\ scope' # "elf" \/ pc' # "done" => elfs' = <<>>
    BY <1>1, <1>2, <1>3, <1>9, <1>11 DEF Scopes
  <2> QED BY <1>2, <1>3, <1>10, <2>1 DEF ListInv, Scopes
<1>13. WholeInv'
  <2> HIDE DEF isdSds, appSds, appApplets, elfElfs
  <2> SUFFICES ASSUME ~ truncated', dropped' = {}
               PROVE  /\ pc' = "store" => FALSE
                      /\ scope' = "app" => sds' = isdSds
                      /\ scope' = "elf" => sds' = isdSds \o appSds /\ applets' = appApplets
                      /\ report' = "ok" => scope' = "elf" /\ elfs' = elfElfs
    <3>1. registry' = registry /\ given' = given
      BY <1>2
    <3> QED BY <3>1 DEF WholeInv, isdSds, appSds, appApplets, elfElfs
  <2>1. /\ ~ truncated /\ dropped = {} /\ sds' = sds \o kSd /\ applets' = applets \o kApplet
        /\ elfs' = kElf
    BY <1>2, <1>4, <1>9
  <2>2. /\ kSd = ExpectedOf(registry, given, scope, "sd")
        /\ kApplet = ExpectedOf(registry, given, scope, "applet")
        /\ kElf = ExpectedOf(registry, given, scope, "elf")
    BY <1>4, <2>1
  <2>3. CASE scope = "isd"
    <3>1. kSd = isdSds
      BY <2>2, <2>3 DEF isdSds
    <3>2. sds' = isdSds
      BY <1>5, <1>7, <1>8, <2>1, <2>3, <3>1
    <3> QED BY <1>1, <1>2, <1>3, <2>3, <3>2
  <2>4. CASE scope = "app"
    <3>1. kSd = appSds /\ kApplet = appApplets
      BY <2>2, <2>4 DEF appSds, appApplets
    <3>2. sds' = isdSds \o appSds /\ applets' = appApplets
      BY <1>5, <1>7, <1>8, <2>1, <2>4, <3>1
    <3> QED BY <1>1, <1>2, <1>3, <2>4, <3>2
  <2>5. CASE scope = "elf"
    <3>1. kElf = elfElfs
      BY <2>2, <2>5 DEF elfElfs
    <3>2. sds' = isdSds \o appSds /\ applets' = appApplets
      BY <1>1, <1>4, <1>7, <1>8, <2>1, <2>5
    <3> QED BY <1>2, <2>1, <2>5, <3>1, <3>2
  <2> QED BY <1>1, <2>3, <2>4, <2>5 DEF Scopes
<1>14. TypeOK'
  <2>1. elfs' \in Seq({"elf"} \X (1 .. Len(registry["elf"])))
    <3>1. PICK S : S = {"elf"} \X (1 .. Len(registry["elf"]))
      OBVIOUS
    <3>2. PICK l : l = elfs'
      OBVIOUS
    <3>3. l \in Seq(Named) /\ Starts(l, elfElfs) /\ elfElfs \in Seq(S)
      BY <1>5, <1>6, <1>10, <3>1, <3>2
    <3> HIDE DEF elfElfs
    <3>4. \A i \in 1 .. Len(l) : l[i] \in S
      BY <3>3 DEF Starts
    <3>5. l \in Seq(S)
      BY <3>3, <3>4
    <3> QED BY <3>1, <3>2, <3>5
  <2>2. modules' \in Seq(0 .. MaxModules) /\ Len(modules') = Len(elfs')
    BY <1>1, <1>2, <2>1, ModulesTyped
  <2>3. /\ page' \in 0 .. MaxStatusPages /\ p2' \in {"first", "next"}
        /\ buf' \in Seq(Byte) /\ good' \in 0 .. Len(buf')
    <3>1. 0 \in 0 .. MaxStatusPages /\ <<>> \in Seq(Byte) /\ 0 \in 0 .. Len(<<>>)
      BY LimitsAssumption
    <3>2. CASE scope = "elf"
      BY <1>1, <1>2, <3>2
    <3>3. CASE scope # "elf"
      BY <1>2, <3>1, <3>3
    <3> QED BY <3>2, <3>3
  <2>4. /\ pc' \in {"page", "store", "done"}
        /\ report' \in {"pending", "ok", "malformed", "error"}
    BY <1>1, <1>2
  <2>5. /\ registry' \in Registries /\ given' \in {"full", "partial"} /\ cursor' \in Nat
        /\ dropped' \subseteq Named
    BY <1>1, <1>2
  <2> QED BY <1>3, <1>4, <1>5, <2>2, <2>3, <2>4, <2>5 DEF TypeOK
<1>15. ReadInv'
  <2>1. CASE scope = "elf"
    BY <1>1, <1>2, <2>1 DEF ReadInv
  <2>2. CASE scope # "elf"
    <3>1. registry[scope'] \in Seq(Entry)
      BY <1>1, <1>3, Registered
    <3>2. PICK E \in Seq(Entry) : E = registry[scope']
      BY <3>1
    <3>3. Starts(<<>>, StreamOf(E)) /\ ParsedBy(E, SubSeq(<<>>, 1, 0)) /\ Len(<<>>) = 0
      BY <1>1, EmptyReads
    <3>4. At' = Len(buf')
      BY <1>2, <2>2, <3>3 DEF At
    <3> QED BY <1>1, <1>2, <2>2, <3>2, <3>3, <3>4 DEF ReadInv
  <2> QED BY <2>1, <2>2
<1> QED BY <1>12, <1>13, <1>14, <1>15 DEF IInv

LEMMA MalformedKeeps ==
  ASSUME IInv, ScopeMalformed
  PROVE  IInv'
<1>1. /\ pc = "store" /\ pc' = "done" /\ report' = "malformed"
      /\ ~ (Parses(SubSeq(buf, 1, good)) /\ Decodes)
      /\ UNCHANGED <<registry, cursor, given, scope, page, p2, buf, good, truncated, lists, dropped>>
  BY DEF ScopeMalformed
<1>2. /\ registry \in Registries /\ scope \in Scopes /\ buf \in Seq(Byte) /\ good \in 0 .. Len(buf)
      /\ Starts(buf, StreamOf(registry[scope]))
      /\ ParsedBy(registry[scope], SubSeq(buf, 1, good))
  BY DEF IInv, TypeOK, ReadInv
<1>3. TypeOK'
  BY <1>1 DEF IInv, TypeOK, lists
<1>4. Unreadable(registry[scope])
  <2>1. ~ Decodes
    BY <1>1, <1>2, ParsesIs
  <2>2. PICK E \in Seq(Entry) : E = registry[scope]
    BY <1>2, Registered
  <2>3. PICK bytes : bytes = SubSeq(buf, 1, good)
    OBVIOUS
  <2>4. bytes \in Seq(Byte) /\ Starts(bytes, StreamOf(E))
    <3>1. bytes \in Seq(Byte) /\ Starts(bytes, buf)
      BY <1>2, <2>3, FirstOnes
    <3>2. StreamOf(E) \in Seq(Byte)
      BY StreamLaid
    <3> QED BY <1>2, <2>2, <3>1, <3>2, StartsTransitive
  <2>5. PICK m \in 0 .. Len(E) : Stored = NamesUpTo(scope, m)
    BY <2>2, <2>3, <2>4, EntriesAre DEF Stored
  <2>6. PICK j \in 1 .. m :
          ~ (KindOf(<<scope, j>>) # "broken" /\ 1 + ModulesOf(<<scope, j>>) <= MaxTlvs)
    <3>1. DOMAIN NamesUpTo(scope, m) = 1 .. m /\ \A n \in 1 .. m : NamesUpTo(scope, m)[n] = <<scope, n>>
      BY DEF NamesUpTo
    <3> QED BY <2>1, <2>5, <3>1 DEF Decodes
  <2>7. j \in DOMAIN E /\ E[j] \in Entry
    BY <2>5, <2>6
  <2>8. KindOf(<<scope, j>>) = E[j].kind /\ ModulesOf(<<scope, j>>) = E[j].modules
    BY <2>2 DEF KindOf, ModulesOf
  <2>9. PICK n \in Nat : n = E[j].modules
    BY <2>7 DEF Entry
  <2>10. E[j].kind # "broken" => n >= MaxTlvs
    <3>1. ~ (1 + n <= MaxTlvs) => n >= MaxTlvs
      BY LimitsAssumption
    <3> QED BY <2>6, <2>8, <2>9, <3>1
  <2> QED BY <2>2, <2>7, <2>9, <2>10 DEF Unreadable
<1>5. ReadInv'
  BY <1>1, <1>2, <1>4 DEF ReadInv
<1>6. ListInv'
  BY <1>1, ListsStay
<1>7. WholeInv'
  BY <1>1 DEF IInv, WholeInv, lists
<1> QED BY <1>3, <1>5, <1>6, <1>7 DEF IInv

LEMMA AskAgainKeeps ==
  ASSUME IInv, AskAgain
  PROVE  IInv'
<1>1. /\ registry \in Registries /\ registry' = registry
      /\ given \in {"full", "partial"} /\ given' = given
  BY DEF IInv, TypeOK, AskAgain
<1>2. /\ scope' = "isd" /\ pc' = "page" /\ page' = 0 /\ p2' = "first"
      /\ buf' = <<>> /\ good' = 0 /\ cursor' = 0
      /\ truncated' = FALSE /\ sds' = <<>> /\ applets' = <<>> /\ elfs' = <<>> /\ modules' = <<>>
      /\ report' = "pending" /\ dropped' = {}
  BY DEF AskAgain, StartScope
<1>3. registry["isd"] \in Seq(Entry)
  BY <1>1, Registered DEF Scopes
<1>4. Len(<<>>) = 0 /\ \A S : <<>> \in Seq(S)
  OBVIOUS
<1>5. TypeOK'
  <2>1. /\ 0 \in 0 .. MaxStatusPages /\ 0 \in 0 .. 0 /\ 0 \in Nat
        /\ 0 <= MaxSds /\ 0 <= MaxApplets /\ 0 <= MaxElfs
    BY LimitsAssumption
  <2>2. <<>> \in Seq(Byte) /\ <<>> \in Seq(Named) /\ <<>> \in Seq(0 .. MaxModules)
    OBVIOUS
  <2>3. buf' \in Seq(Byte) /\ good' \in 0 .. Len(buf') /\ Len(modules') = Len(elfs')
    BY <1>2, <1>4, <2>1, <2>2
  <2>4. /\ sds' \in Seq(Named) /\ applets' \in Seq(Named) /\ elfs' \in Seq(Named)
        /\ modules' \in Seq(0 .. MaxModules)
        /\ Len(sds') <= MaxSds /\ Len(applets') <= MaxApplets /\ Len(elfs') <= MaxElfs
    BY <1>2, <1>4, <2>1, <2>2
  <2> QED BY <1>1, <1>2, <2>1, <2>3, <2>4 DEF TypeOK, Scopes
<1>6. ReadInv'
  <2>1. At' = Len(buf')
    BY <1>2, <1>4 DEF At
  <2>2. Starts(<<>>, StreamOf(registry["isd"])) /\ ParsedBy(registry["isd"], SubSeq(<<>>, 1, 0))
    BY <1>3, <1>4, EmptyReads
  <2> QED BY <1>1, <1>2, <2>1, <2>2 DEF ReadInv
<1>7. ListInv'
  <2>1. ExpectedOf(registry, given, "elf", "elf") \in Seq(Named)
    BY <1>1, ExpectedTyped DEF Scopes
  <2>2. Starts(<<>>, ExpectedOf(registry, given, "elf", "elf"))
    BY <2>1, EmptyStarts
  <2> QED BY <1>1, <1>2, <2>2 DEF ListInv
<1>8. WholeInv'
  BY <1>2 DEF WholeInv
<1> QED BY <1>5, <1>6, <1>7, <1>8 DEF IInv

LEMMA StutterKeeps ==
  ASSUME IInv, UNCHANGED vars
  PROVE  IInv'
<1>1. UNCHANGED <<registry, cursor, given, pc, scope, page, p2, buf, good, truncated,
                  sds, applets, elfs, modules, report, dropped>>
  BY DEF vars
<1>2. TypeOK'
  BY <1>1 DEF IInv, TypeOK
<1>3. ReadInv'
  BY <1>1 DEF IInv, ReadInv, At
<1>4. ListInv'
  BY <1>1 DEF IInv, ListInv
<1>5. WholeInv'
  BY <1>1 DEF IInv, WholeInv
<1> QED BY <1>2, <1>3, <1>4, <1>5 DEF IInv

LEMMA StepInv == IInv /\ [Next]_vars => IInv'
<1> SUFFICES ASSUME IInv, [Next]_vars PROVE IInv'
  OBVIOUS
<1>1. CASE Page
  BY <1>1, PageKeeps
<1>2. CASE ScopeEmpty
  BY <1>2, ScopeEmptyKeeps
<1>3. CASE PagesExhausted
  BY <1>3, PagesExhaustedKeeps
<1>4. CASE ScanFails
  BY <1>4, ScanFailsKeeps
<1>5. CASE StoreScope
  BY <1>5, StoreKeeps
<1>6. CASE ScopeMalformed
  BY <1>6, MalformedKeeps
<1>7. CASE AskAgain
  BY <1>7, AskAgainKeeps
<1>8. CASE UNCHANGED vars
  BY <1>8, StutterKeeps
<1> QED BY <1>1, <1>2, <1>3, <1>4, <1>5, <1>6, <1>7, <1>8 DEF Next, ScanNext

------------------------------------------------------------------------------
(***************************************************************************)
(* What the invariant says of the report                                   *)
(***************************************************************************)

LEMMA PrefixesFromInv == IInv => ListsArePrefixes
<1> SUFFICES ASSUME IInv PROVE ListsArePrefixes
  OBVIOUS
<1> DEFINE isdSds == ExpectedOf(registry, given, "isd", "sd")
           appSds == ExpectedOf(registry, given, "app", "sd")
           appApplets == ExpectedOf(registry, given, "app", "applet")
           elfElfs == ExpectedOf(registry, given, "elf", "elf")
<1>1. /\ registry \in Registries /\ scope \in Scopes
      /\ sds \in Seq(Named) /\ applets \in Seq(Named) /\ elfs \in Seq(Named)
  BY DEF IInv, TypeOK
<1>2. /\ isdSds \in Seq(Named) /\ appSds \in Seq(Named) /\ appApplets \in Seq(Named)
      /\ elfElfs \in Seq(Named)
      /\ isdSds \in Seq({"isd"} \X (1 .. Len(registry["isd"])))
      /\ appSds \in Seq({"app"} \X (1 .. Len(registry["app"])))
  BY <1>1, ExpectedTyped DEF Scopes
<1>3. /\ Expected("isd", "sd") = isdSds /\ Expected("app", "sd") = appSds
      /\ Expected("app", "applet") = appApplets /\ Expected("elf", "elf") = elfElfs
  BY <1>1, Registered, ExpectedIs DEF Scopes
<1>4. /\ scope = "isd" => sds = <<>>
      /\ scope = "app" => Starts(sds, isdSds)
      /\ scope = "elf" => TwoBeginnings(sds, isdSds, appSds)
      /\ scope # "elf" => applets = <<>>
      /\ scope = "elf" => Starts(applets, appApplets)
      /\ Starts(elfs, elfElfs)
  BY DEF IInv, ListInv
<1> HIDE DEF isdSds, appSds, appApplets, elfElfs
<1>5. IsPrefix(elfs, elfElfs)
  BY <1>1, <1>2, <1>4, PrefixPointwise
<1>6. IsPrefix(applets, appApplets)
  <2>1. Starts(applets, appApplets)
    BY <1>2, <1>4, EmptyStarts
  <2> QED BY <1>1, <1>2, <2>1, PrefixPointwise
<1>7. TwoBeginnings(sds, isdSds, appSds)
  <2>1. scope \in {"isd", "app"} => Starts(sds, isdSds)
    BY <1>2, <1>4, EmptyStarts
  <2> QED BY <1>1, <1>2, <1>4, <2>1, OneIsTwoBeginnings DEF Scopes
<1>8. PICK a \in 0 .. Len(sds) :
        /\ a <= Len(isdSds) /\ Len(sds) - a <= Len(appSds)
        /\ \A i \in 1 .. a : sds[i] = isdSds[i]
        /\ \A j \in 1 .. Len(sds) - a : sds[a + j] = appSds[j]
  BY <1>7 DEF TwoBeginnings
<1>9. /\ Len(sds) \in Nat /\ a \in Nat /\ a <= Len(sds) /\ Len(isdSds) \in Nat
      /\ Len(appSds) \in Nat
  BY <1>1, <1>2
<1>10. ASSUME NEW i \in 1 .. Len(sds)
       PROVE  sds[i] \in Named /\ (i <= a => sds[i][1] = "isd") /\ (a < i => sds[i][1] = "app")
  <2>1. CASE i <= a
    <3>1. i \in 1 .. a /\ i \in 1 .. Len(isdSds)
      BY <1>8, <1>9, <2>1
    <3>2. isdSds[i] \in {"isd"} \X (1 .. Len(registry["isd"]))
      BY <1>2, <3>1
    <3>3. sds[i] \in {"isd"} \X (1 .. Len(registry["isd"]))
      BY <1>8, <3>1, <3>2
    <3>4. sds[i][1] = "isd"
      BY <3>3
    <3>5. sds[i] \in Named /\ ~ (a < i)
      BY <1>1, <1>9, <2>1
    <3> QED BY <3>4, <3>5
  <2>2. CASE a < i
    <3>1. i - a \in 1 .. Len(sds) - a /\ i - a \in 1 .. Len(appSds) /\ a + (i - a) = i
      BY <1>8, <1>9, <2>2
    <3>2. sds[a + (i - a)] = appSds[i - a]
      BY <1>8, <3>1
    <3>3. appSds[i - a] \in {"app"} \X (1 .. Len(registry["app"]))
      BY <1>2, <3>1
    <3>4. sds[i] \in {"app"} \X (1 .. Len(registry["app"]))
      BY <3>1, <3>2, <3>3
    <3>5. sds[i][1] = "app"
      BY <3>4
    <3>6. sds[i] \in Named /\ ~ (i <= a)
      BY <1>1, <1>9, <2>2
    <3> QED BY <3>5, <3>6
  <2>3. i \in Nat
    OBVIOUS
  <2> QED BY <1>9, <2>1, <2>2, <2>3
<1>11. ASSUME NEW s, NEW i \in 1 .. Len(sds)
       PROVE  sds[i] \in {s} \X Nat <=> sds[i][1] = s
  <2>1. sds[i] \in Scopes \X Nat
    BY <1>10 DEF Named
  <2> QED BY <2>1
<1>12. ASSUME NEW s \in {"isd", "app"}
       PROVE  FromScope(sds, s) = Selection(sds, {s} \X Nat) /\ FromScope(sds, s) \in Seq(Named)
  <2>1. SelectsAlong(Named, sds, {s} \X Nat, SelectionUpTo(sds, {s} \X Nat))
        /\ Len(sds) \in 0 .. Len(sds)
    BY <1>1, <1>9, SelectionStep
  <2> QED BY <2>1 DEF SelectsAlong, FromScope
<1>13. IsPrefix(FromScope(sds, "isd"), isdSds)
  <2>1. PICK l \in Seq(Named) : l = Selection(sds, {"isd"} \X Nat) /\ l = FromScope(sds, "isd")
    BY <1>12
  <2>2. \A i \in 1 .. Len(sds) : sds[i] \in {"isd"} \X Nat <=> 0 < i /\ i <= a
    <3> SUFFICES ASSUME NEW i \in 1 .. Len(sds)
                 PROVE  sds[i] \in {"isd"} \X Nat <=> 0 < i /\ i <= a
      OBVIOUS
    <3>1. i \in Nat /\ 0 < i /\ (i <= a \/ a < i)
      BY <1>9
    <3> QED BY <1>10, <1>11, <3>1
  <2>3. 0 \in 0 .. a
    BY <1>9
  <2>a. PICK T : T = {"isd"} \X Nat
    OBVIOUS
  <2>b. \A i \in 1 .. Len(sds) : sds[i] \in T <=> 0 < i /\ i <= a
    BY <2>2, <2>a
  <2>c. /\ Len(Selection(sds, T)) = a - 0
        /\ \A j \in 1 .. a - 0 : Selection(sds, T)[j] = sds[0 + j]
    <3>1. sds \in Seq(Named) /\ a \in 0 .. Len(sds)
      BY <1>1
    <3> QED BY <2>3, <2>b, <3>1, SelectionOfRun
  <2>4. Len(l) = a - 0 /\ \A j \in 1 .. a - 0 : l[j] = sds[0 + j]
    BY <2>1, <2>a, <2>c
  <2>5. Len(l) = a /\ \A j \in 1 .. a : l[j] = isdSds[j]
    <3>1. a - 0 = a /\ \A j \in 1 .. a : 0 + j = j
      BY <1>9
    <3> QED BY <1>8, <2>4, <3>1
  <2>6. Starts(l, isdSds)
    BY <1>8, <2>5 DEF Starts
  <2> QED BY <1>2, <2>1, <2>6, PrefixPointwise
<1>14. IsPrefix(FromScope(sds, "app"), appSds)
  <2>1. PICK l \in Seq(Named) : l = Selection(sds, {"app"} \X Nat) /\ l = FromScope(sds, "app")
    BY <1>12
  <2>2. \A i \in 1 .. Len(sds) : sds[i] \in {"app"} \X Nat <=> a < i /\ i <= Len(sds)
    <3> SUFFICES ASSUME NEW i \in 1 .. Len(sds)
                 PROVE  sds[i] \in {"app"} \X Nat <=> a < i /\ i <= Len(sds)
      OBVIOUS
    <3>1. i \in Nat /\ i <= Len(sds) /\ (i <= a \/ a < i)
      BY <1>9
    <3> QED BY <1>10, <1>11, <3>1
  <2>3. Len(sds) \in 0 .. Len(sds) /\ a \in 0 .. Len(sds)
    BY <1>9
  <2>a. PICK T : T = {"app"} \X Nat
    OBVIOUS
  <2>b. \A i \in 1 .. Len(sds) : sds[i] \in T <=> a < i /\ i <= Len(sds)
    BY <2>2, <2>a
  <2>c. PICK b \in 0 .. Len(sds) : b = Len(sds) /\ a \in 0 .. b
    BY <2>3
  <2>d. /\ Len(Selection(sds, T)) = b - a
        /\ \A j \in 1 .. b - a : Selection(sds, T)[j] = sds[a + j]
    <3>1. sds \in Seq(Named)
      BY <1>1
    <3>2. \A i \in 1 .. Len(sds) : sds[i] \in T <=> a < i /\ i <= b
      BY <2>b, <2>c
    <3>3. b \in 0 .. Len(sds) /\ a \in 0 .. b
      BY <2>c
    <3> QED BY <3>1, <3>2, <3>3, SelectionOfRun
  <2>4. Len(l) = Len(sds) - a /\ \A j \in 1 .. Len(sds) - a : l[j] = sds[a + j]
    BY <2>1, <2>a, <2>c, <2>d
  <2>5. Starts(l, appSds)
    BY <1>8, <2>4 DEF Starts
  <2> QED BY <1>2, <2>1, <2>5, PrefixPointwise
<1> QED BY <1>3, <1>5, <1>6, <1>13, <1>14 DEF ListsArePrefixes

LEMMA NothingMissingFromInv == IInv => NothingMissingSilently
<1> SUFFICES ASSUME IInv PROVE NothingMissingSilently
  OBVIOUS
<1>1. registry \in Registries
  BY DEF IInv, TypeOK
<1>2. /\ Expected("isd", "sd") = ExpectedOf(registry, given, "isd", "sd")
      /\ Expected("app", "sd") = ExpectedOf(registry, given, "app", "sd")
      /\ Expected("app", "applet") = ExpectedOf(registry, given, "app", "applet")
      /\ Expected("elf", "elf") = ExpectedOf(registry, given, "elf", "elf")
  BY <1>1, Registered, ExpectedIs DEF Scopes
<1>3. WholeInv
  BY DEF IInv
<1> QED BY <1>2, <1>3 DEF NothingMissingSilently, WholeInv

LEMMA MalformedFromInv == IInv => LimitsAreNoErrors
BY DEF IInv, ReadInv, LimitsAreNoErrors, Unreadable

LEMMA InvHolds == Spec => []IInv
BY InitInv, StepInv, PTL DEF Spec

------------------------------------------------------------------------------
(***************************************************************************)
(* The lists stay within their capacities, and name entries of the card:   *)
(* the bounded collections of CardInventory (card_status.rs).              *)
(***************************************************************************)
THEOREM InventoryTypes == Spec => []TypeOK
<1>1. IInv => TypeOK
  BY DEF IInv
<1> QED BY InvHolds, <1>1, PTL

(***************************************************************************)
(* "A valid prefix, never an error": wherever a page is cut and whatever   *)
(* limit bites, the lists are prefixes of what the registry holds, scope by*)
(* scope and sort by sort (get_card_inventory, collect_scope).             *)
(***************************************************************************)
THEOREM PrefixesAlways == Spec => []ListsArePrefixes
BY InvHolds, PrefixesFromInv, PTL

(***************************************************************************)
(* Without InventoryTruncated nothing the card was asked for is missing:   *)
(* every limit that drops an entry says so (collect_scope's `truncated').  *)
(***************************************************************************)
THEOREM ReportIsWhole == Spec => []NothingMissingSilently
BY InvHolds, NothingMissingFromInv, PTL

(***************************************************************************)
(* No limit on pages, bytes or lists turns into MalformedResponse: that is *)
(* kept for an entry tlv::parse cannot read or hold.                       *)
(***************************************************************************)
THEOREM MalformedIsTheCards == Spec => []LimitsAreNoErrors
BY InvHolds, MalformedFromInv, PTL
=============================================================================
