------------------------- MODULE LoadPackage_proofs -------------------------
(***************************************************************************)
(* What a load gives the card, for every set of CAP files, every window    *)
(* and block size, every block the card refuses and every exchange lost.   *)
(*                                                                         *)
(* The streamer cuts three kinds of sources into blocks: bytes the parser  *)
(* kept, stored entries and a decompressor behind a ring.  LoadInv counts  *)
(* them together: wherever they come from, the block being filled starts   *)
(* at a multiple of BLOCK_BYTES of what has been handed out (Covered), so  *)
(* that it is the number of whole blocks before it, and the size check of  *)
(* load_package bounds that number.  It holds whatever the directory says  *)
(* of the sizes.                                                           *)
(*                                                                         *)
(* TransferKept is about a well-formed CAP: what is handed out is then its *)
(* load file, position by position (LaidOut), so that the card always has  *)
(* a beginning of it and the block goes on where the card is.              *)
(*                                                                         *)
(* Sums, the walk of the directory and the load file are recursive         *)
(* functions.  That they are defined at every component, and what holds    *)
(* there, follows from 0 and from each to the next by CountingUp: a set    *)
(* without one of the numbers has a least one missing.                     *)
(***************************************************************************)
EXTENDS LoadPackage, SequenceTheorems, WellFoundedInduction, TLAPS

\* Where a name is in COMPONENT_NAMES, and 0 before the first.
Ranks == 0 .. Len(COMPONENT_NAMES)

------------------------------------------------------------------------------
(***************************************************************************)
(* Operators of the model                                                  *)
(***************************************************************************)

\* A set of numbers that is not empty has a least element.
LEMMA LeastNumber ==
  ASSUME NEW T, T \subseteq Nat, T # {}
  PROVE  \E x \in T : \A y \in T : x <= y
<1>1. PICK x \in T : \A y \in T : ~ (<<y, x>> \in OpToRel(<, Nat))
  BY WFMin, NatLessThanWellFounded
<1>2. ASSUME NEW y \in T, y < x PROVE FALSE
  <2>1. <<y, x>> \in OpToRel(<, Nat)
    BY <1>2 DEF OpToRel
  <2> QED BY <2>1, <1>1, <1>2
<1> QED BY <1>2

\* A set of numbers that holds what follows any of its numbers holds them all, up
\* to where that goes: how the recursive definitions below are followed.
LEMMA CountingUp ==
  ASSUME NEW m \in Nat, NEW T, 0 \in T, \A n \in 1 .. m : n - 1 \in T => n \in T
  PROVE  0 .. m \subseteq T
<1> DEFINE missing == {n \in 0 .. m : n \notin T}
<1> SUFFICES ASSUME missing # {} PROVE FALSE
  OBVIOUS
<1>0. missing \subseteq Nat
  OBVIOUS
<1>1. PICK n \in missing : \A k \in missing : n <= k
  BY <1>0, LeastNumber
<1>2. n # 0 /\ n \in 1 .. m /\ n - 1 \in 0 .. m /\ n - 1 \notin missing
  BY <1>1
<1> QED BY <1>2

\* The smallest of three lengths is one of them and at most each.
LEMMA MinOfThree ==
  ASSUME NEW a \in Nat, NEW b \in Nat, NEW c \in Nat
  PROVE  LET m == Min({a, b, c}) IN m \in Nat /\ m <= a /\ m <= b /\ m <= c /\ m \in {a, b, c}
<1>1. \E x \in {a, b, c} : \A y \in {a, b, c} : x =< y
  BY LeastNumber
<1>2. Min({a, b, c}) \in {a, b, c} /\ \A y \in {a, b, c} : Min({a, b, c}) =< y
  BY <1>1 DEF Min
<1> QED BY <1>2

\* As is the smaller of two.
LEMMA MinOfTwo ==
  ASSUME NEW a \in Nat, NEW b \in Nat
  PROVE  LET m == Min({a, b}) IN m \in Nat /\ m <= a /\ m <= b /\ m \in {a, b}
<1>1. \E x \in {a, b} : \A y \in {a, b} : x =< y
  BY LeastNumber
<1>2. Min({a, b}) \in {a, b} /\ \A y \in {a, b} : Min({a, b}) =< y
  BY <1>1 DEF Min
<1> QED BY <1>2

\* walk_zip keeps the first entry of a name, which is in the directory.
LEMMA FirstIsNamed ==
  ASSUME NEW z \in Archive, NEW r, Named(z, r) # {}
  PROVE  FirstNamed(z, r) \in Named(z, r) /\ FirstNamed(z, r) \in DOMAIN z.entries
<1>1. Named(z, r) \subseteq DOMAIN z.entries
  BY DEF Named
<1>2. Named(z, r) \subseteq Nat
  BY <1>1 DEF Archive
<1>3. \E x \in Named(z, r) : \A y \in Named(z, r) : x =< y
  BY <1>2, LeastNumber
<1> QED BY <1>1, <1>3 DEF FirstNamed, Min

\* The last of the numbers up to a bound.
LEMMA GreatestIsIn ==
  ASSUME NEW m \in Nat, NEW S, S \subseteq 1 .. m, S # {}
  PROVE  Max(S) \in S
<1> DEFINE T == {m - i : i \in S}
<1>0. ASSUME NEW i \in S PROVE i \in Nat /\ i <= m /\ m - i \in Nat
  OBVIOUS
<1>1. T \subseteq Nat /\ T # {}
  BY <1>0
<1>2. PICK t \in T : \A u \in T : t <= u
  BY <1>1, LeastNumber
<1>3. PICK i \in S : t = m - i
  BY <1>2
<1>4. ASSUME NEW j \in S PROVE i >= j
  <2>1. m - j \in T
    OBVIOUS
  <2> QED BY <2>1, <1>2, <1>3, <1>0
<1> QED BY <1>4 DEF Max
------------------------------------------------------------------------------
(***************************************************************************)
(* What the directory declares                                             *)
(***************************************************************************)

\* The sum up to component m, as a function of its own.
SumsUpTo(c, g, m) == g = [n \in 0 .. m |-> IF n = 0 THEN 0 ELSE g[n - 1] + c[n].declared]

\* The running sum of content_len is defined, at every component of the table.
LEMMA SumDefined ==
  ASSUME NEW c \in Seq(Location)
  PROVE  SumsUpTo(c, DeclaredUpTo(c), Len(c))
<1> DEFINE T == {m \in Nat : \E g : SumsUpTo(c, g, m)}
<1>0. Len(c) \in Nat
  OBVIOUS
<1>1. 0 \in T
  <2>1. SumsUpTo(c, [n \in 0 .. 0 |-> 0], 0)
    BY DEF SumsUpTo
  <2> QED BY <2>1
<1>2. ASSUME NEW m \in 1 .. Len(c), m - 1 \in T PROVE m \in T
  <2>1. PICK g : SumsUpTo(c, g, m - 1)
    BY <1>2
  <2> DEFINE h == [n \in 0 .. m |-> IF n = m THEN g[m - 1] + c[m].declared ELSE g[n]]
  <2>2. \A n \in 0 .. m - 1 : g[n] = IF n = 0 THEN 0 ELSE g[n - 1] + c[n].declared
    BY <2>1 DEF SumsUpTo
  <2>3. \A n \in 0 .. m : h[n] = IF n = 0 THEN 0 ELSE h[n - 1] + c[n].declared
    BY <2>2
  <2>4. SumsUpTo(c, h, m)
    <3> h = [n \in 0 .. m |-> h[n]]
      OBVIOUS
    <3> HIDE DEF h
    <3> QED BY <2>3 DEF SumsUpTo
  <2> QED BY <2>4
<1>3. Len(c) \in T
  <2> HIDE DEF T
  <2>1. 0 .. Len(c) \subseteq T
    BY <1>0, <1>1, <1>2, CountingUp
  <2> QED BY <1>0, <2>1
<1>4. DeclaredUpTo(c) = CHOOSE g : SumsUpTo(c, g, Len(c))
  BY DEF DeclaredUpTo, SumsUpTo
<1> QED BY <1>3, <1>4

\* It starts at nothing, grows by what a component declares and never shrinks.
LEMMA SumGrows ==
  ASSUME NEW c \in Seq(Location)
  PROVE  /\ DeclaredUpTo(c)[0] = 0
         /\ \A n \in 0 .. Len(c) : DeclaredUpTo(c)[n] \in Nat
         /\ \A n \in 1 .. Len(c) :
               DeclaredUpTo(c)[n] = DeclaredUpTo(c)[n - 1] + c[n].declared
<1> DEFINE sum == DeclaredUpTo(c)
<1>1. \A n \in 0 .. Len(c) : sum[n] = IF n = 0 THEN 0 ELSE sum[n - 1] + c[n].declared
  BY SumDefined DEF SumsUpTo
<1> HIDE DEF sum
<1>0. Len(c) \in Nat /\ \A n \in 1 .. Len(c) : c[n] \in Location
  OBVIOUS
<1>2. \A n \in 1 .. Len(c) : c[n].declared \in Nat
  BY <1>0 DEF Location
<1> DEFINE T == {n \in 0 .. Len(c) : sum[n] \in Nat}
<1>3. 0 .. Len(c) \subseteq T
  <2>1. 0 \in T
    BY <1>0, <1>1
  <2>2. ASSUME NEW n \in 1 .. Len(c), n - 1 \in T PROVE n \in T
    BY <1>0, <1>1, <1>2, <2>2
  <2> HIDE DEF T
  <2> QED BY <1>0, <2>1, <2>2, CountingUp
<1> QED BY <1>1, <1>3 DEF sum

\* content_len is a number, whatever the directory says.
LEMMA TotalIsNat ==
  ASSUME NEW c \in Seq(Location)
  PROVE  /\ Total(c) \in Nat /\ Total(c) >= HeaderBytes
         /\ Total(c) = HeaderBytes + DeclaredUpTo(c)[Len(c)]
BY SumGrows, SizesAssumption DEF Total

\* The sum over a table depends on its first components only.
LEMMA SumOfAppend ==
  ASSUME NEW c \in Seq(Location), NEW loc \in Location, NEW n \in 0 .. Len(c)
  PROVE  DeclaredUpTo(Append(c, loc))[n] = DeclaredUpTo(c)[n]
<1> DEFINE d == Append(c, loc)
<1>1. Len(c) \in Nat /\ d \in Seq(Location) /\ Len(d) = Len(c) + 1 /\ \A k \in 1 .. Len(c) : d[k] = c[k]
  OBVIOUS
<1> HIDE DEF d
<1> DEFINE T == {k \in 0 .. Len(c) : DeclaredUpTo(d)[k] = DeclaredUpTo(c)[k]}
<1>2. 0 \in T
  BY <1>1, SumGrows
<1>3. ASSUME NEW k \in 1 .. Len(c), k - 1 \in T PROVE k \in T
  <2>1. DeclaredUpTo(d)[k] = DeclaredUpTo(d)[k - 1] + d[k].declared
    BY <1>1, SumGrows
  <2>2. DeclaredUpTo(c)[k] = DeclaredUpTo(c)[k - 1] + c[k].declared
    BY SumGrows
  <2> QED BY <1>1, <1>3, <2>1, <2>2
<1> HIDE DEF T
<1>4. 0 .. Len(c) \subseteq T
  BY <1>1, <1>2, <1>3, CountingUp
<1> QED BY <1>4 DEF T, d

------------------------------------------------------------------------------
(***************************************************************************)
(* What the walk finds                                                     *)
(***************************************************************************)

\* The walk up to the m-th name, as a function of its own.
FindsUpTo(z, g, m) ==
  g = [r \in 0 .. m |-> IF r = 0 THEN <<>>
                        ELSE IF Named(z, r) = {} THEN g[r - 1]
                        ELSE Append(g[r - 1], CompLoc(z, FirstNamed(z, r)))]

\* The walk has found what it has of the first names, for each of them.
LEMMA WalkDefined ==
  ASSUME NEW z
  PROVE  FindsUpTo(z, WalkUpTo(z), Len(COMPONENT_NAMES))
<1> DEFINE T == {m \in Nat : \E g : FindsUpTo(z, g, m)}
           top == Len(COMPONENT_NAMES)
<1>0. top \in Nat
  BY DEF COMPONENT_NAMES
<1>1. 0 \in T
  <2>1. FindsUpTo(z, [r \in 0 .. 0 |-> <<>>], 0)
    BY DEF FindsUpTo
  <2> QED BY <2>1
<1>2. ASSUME NEW m \in 1 .. top, m - 1 \in T PROVE m \in T
  <2>1. PICK g : FindsUpTo(z, g, m - 1)
    BY <1>2
  <2> DEFINE Further(f, r) == IF Named(z, r) = {} THEN f
                              ELSE Append(f, CompLoc(z, FirstNamed(z, r)))
  <2> DEFINE h == [r \in 0 .. m |-> IF r = m THEN Further(g[m - 1], m) ELSE g[r]]
  <2>2. \A r \in 0 .. m - 1 : g[r] = IF r = 0 THEN <<>> ELSE Further(g[r - 1], r)
    BY <2>1 DEF FindsUpTo
  <2>3. \A r \in 0 .. m : h[r] = IF r = 0 THEN <<>> ELSE Further(h[r - 1], r)
    <3> HIDE DEF Further
    <3> QED BY <1>0, <2>2
  <2>4. FindsUpTo(z, h, m)
    <3> h = [r \in 0 .. m |-> h[r]]
      OBVIOUS
    <3> HIDE DEF h
    <3> QED BY <2>3 DEF FindsUpTo
  <2> QED BY <1>0, <2>4
<1>3. top \in T
  <2> HIDE DEF T, top
  <2>1. 0 .. top \subseteq T
    BY <1>0, <1>1, <1>2, CountingUp
  <2> QED BY <1>0, <2>1
<1>4. WalkUpTo(z) = CHOOSE g : FindsUpTo(z, g, top)
  BY DEF WalkUpTo, FindsUpTo
<1> QED BY <1>3, <1>4

\* An entry's place in the directory and what it holds make a component.
LEMMA CompLocIsLocation ==
  ASSUME NEW z \in Archive, NEW k \in DOMAIN z.entries
  PROVE  CompLoc(z, k) \in Location
<1>1. z.entries[k] \in Entry /\ k \in Nat
  BY DEF Archive
<1>2. z.entries[k].file \in Component
  BY <1>1 DEF Entry
<1> QED BY <1>1, <1>2 DEF CompLoc, Component, Location

\* It finds at most one component of each name, so at most eleven.
LEMMA WalkTyped ==
  ASSUME NEW z \in Archive
  PROVE  /\ WalkUpTo(z)[0] = <<>>
         /\ \A r \in Ranks : WalkUpTo(z)[r] \in Seq(Location) /\ Len(WalkUpTo(z)[r]) <= r
         /\ \A r \in 1 .. Len(COMPONENT_NAMES) :
              WalkUpTo(z)[r] = IF Named(z, r) = {} THEN WalkUpTo(z)[r - 1]
                               ELSE Append(WalkUpTo(z)[r - 1], CompLoc(z, FirstNamed(z, r)))
<1> DEFINE found == WalkUpTo(z)
           top == Len(COMPONENT_NAMES)
<1>0. top \in Nat
  BY DEF COMPONENT_NAMES
<1>1. /\ found[0] = <<>>
      /\ \A r \in 1 .. top :
           found[r] = IF Named(z, r) = {} THEN found[r - 1]
                      ELSE Append(found[r - 1], CompLoc(z, FirstNamed(z, r)))
  <2> DEFINE Further(f, r) == IF Named(z, r) = {} THEN f
                              ELSE Append(f, CompLoc(z, FirstNamed(z, r)))
  <2>1. found = [r \in 0 .. top |-> IF r = 0 THEN <<>> ELSE Further(found[r - 1], r)]
    BY WalkDefined DEF FindsUpTo
  <2> HIDE DEF found, top, Further
  <2>2. \A r \in 0 .. top : found[r] = IF r = 0 THEN <<>> ELSE Further(found[r - 1], r)
    BY <2>1
  <2>3. found[0] = <<>> /\ \A r \in 1 .. top : found[r] = Further(found[r - 1], r)
    BY <1>0, <2>2
  <2> QED BY <2>3 DEF Further
<1> HIDE DEF found, top
<1>2. \A r \in 1 .. top : Named(z, r) # {} => CompLoc(z, FirstNamed(z, r)) \in Location
  BY FirstIsNamed, CompLocIsLocation
<1> DEFINE T == {r \in Ranks : found[r] \in Seq(Location) /\ Len(found[r]) <= r}
<1>3. 0 \in T
  <2>1. 0 \in Ranks
    BY <1>0 DEF Ranks, top
  <2>2. <<>> \in Seq(Location) /\ Len(<<>>) <= 0
    OBVIOUS
  <2> QED BY <1>1, <2>1, <2>2
<1>4. ASSUME NEW r \in 1 .. top, r - 1 \in T PROVE r \in T
  <2>1. found[r - 1] \in Seq(Location) /\ Len(found[r - 1]) <= r - 1
    BY <1>4
  <2>2. r \in Ranks /\ r \in Nat
    BY <1>0 DEF Ranks, top
  <2>3. CASE Named(z, r) = {}
    BY <1>1, <2>1, <2>2, <2>3
  <2>4. CASE Named(z, r) # {}
    <3>1. CompLoc(z, FirstNamed(z, r)) \in Location
      BY <1>2, <2>4
    <3>2. found[r] = Append(found[r - 1], CompLoc(z, FirstNamed(z, r)))
      BY <1>1, <2>4
    <3>3. found[r] \in Seq(Location) /\ Len(found[r]) = Len(found[r - 1]) + 1
      BY <2>1, <3>1, <3>2, AppendProperties
    <3> QED BY <2>1, <2>2, <3>3
  <2> QED BY <2>3, <2>4
<1> HIDE DEF T
<1>5. 0 .. top \subseteq T
  BY <1>0, <1>3, <1>4, CountingUp
<1> QED BY <1>1, <1>5 DEF T, found, top, Ranks

\* What parse leaves in the working set.
LEMMA WalkIsTable ==
  ASSUME NEW z \in Archive
  PROVE  walk_zip(z) \in Seq(Location) /\ Len(walk_zip(z)) <= Len(COMPONENT_NAMES)
<1>1. Len(COMPONENT_NAMES) \in Ranks
  BY DEF Ranks, COMPONENT_NAMES
<1> QED BY <1>1, WalkTyped DEF walk_zip
------------------------------------------------------------------------------
(***************************************************************************)
(* Places in the ring and numbers of blocks                                *)
(***************************************************************************)

\* Where the ring is written and read is in the ring.
LEMMA ModRange ==
  ASSUME NEW w \in Nat \ {0}, NEW p \in Nat
  PROVE  (p % w) \in 0 .. w - 1
OBVIOUS

\* Whole and rest of a number, in a ring or in blocks of b.
LEMMA DivMod ==
  ASSUME NEW w \in Nat \ {0}, NEW p \in Nat
  PROVE  p = (p \div w) * w + (p % w) /\ (p \div w) \in Nat
OBVIOUS

\* They are the only ones.
LEMMA DivModUnique ==
  ASSUME NEW w \in Nat \ {0}, NEW p \in Nat, NEW q \in Nat, NEW r \in 0 .. w - 1, p = q * w + r
  PROVE  p % w = r /\ p \div w = q
OBVIOUS

\* Short of the ring's end, to go on in the data is to go on in the ring.
LEMMA ModAdd ==
  ASSUME NEW w \in Nat \ {0}, NEW p \in Nat, NEW d \in Nat, (p % w) + d < w
  PROVE  (p + d) % w = (p % w) + d
<1> DEFINE q == p \div w
<1>1. p = q * w + (p % w) /\ q \in Nat /\ (p % w) \in 0 .. w - 1
  BY DivMod, ModRange
<1> HIDE DEF q
<1>2. p + d = q * w + ((p % w) + d) /\ (p % w) + d \in 0 .. w - 1 /\ p + d \in Nat
  BY <1>1
<1> QED BY <1>1, <1>2, DivModUnique

\* Fewer bytes in whole blocks are fewer blocks.
LEMMA FewerBlocks ==
  ASSUME NEW a \in Nat, NEW b \in Nat, NEW size \in Nat, a * size < b * size
  PROVE  a < b
OBVIOUS

\* A load file that reaches into the block after k is k + 1 blocks long.
LEMMA BlocksNeeded ==
  ASSUME NEW size \in Nat \ {0}, NEW k \in Nat, NEW t \in Nat, k * size < t, t <= k * size + size
  PROVE  (t + size - 1) \div size = k + 1
<1> DEFINE r == t - 1 - k * size
<1>1. k * size \in Nat /\ (k + 1) * size = k * size + size
  OBVIOUS
<1>2. /\ r \in 0 .. size - 1 /\ t + size - 1 = (k + 1) * size + r
      /\ t + size - 1 \in Nat /\ k + 1 \in Nat
  BY <1>1
<1> HIDE DEF r
<1> QED BY <1>2, DivModUnique

------------------------------------------------------------------------------
(***************************************************************************)
(* The inductive invariant                                                 *)
(***************************************************************************)

\* Between INSTALL [for load] and the end of the LOAD loop.
Streaming == pc \in {"fill", "send"}

\* What the directory declares of what has been handed out so far.
Covered == HeaderBytes + DeclaredUpTo(cap)[comp - 1] + emitted

\* In a component that is over before the size it announces: nothing more comes.
Stuck ==
  /\ comp \in DOMAIN cap /\ emitted < Current.declared
  /\ IF Current.method = "deflate" THEN started /\ ended /\ Pending = 0
                                   ELSE emitted = Current.left

\* The progress within a component.  What is pending ends before the ring does.
Inflating ==
  /\ emitted <= produced /\ produced <= Current.own
  /\ (emitted % Window) + Pending <= Window
  /\ ~ started => produced = 0 /\ ~ ended
  /\ ended => produced = Current.own
  /\ started => inflating = comp

\* A stored entry has no decompressor.
Copying ==
  /\ emitted <= Current.declared /\ emitted <= Current.left
  /\ produced = 0 /\ ~ ended /\ ~ started

\* The counters are those of the component the streamer is in.
StreamerKept ==
  /\ comp \notin DOMAIN cap => emitted = 0 /\ produced = 0 /\ ~ ended /\ ~ started
  /\ comp \in DOMAIN cap => IF Current.method = "deflate" THEN Inflating ELSE Copying

\* Nothing of a call is left when the next one begins.
Fresh ==
  /\ pc \in {"parse", "install"} =>
       comp = 0 /\ out = <<>> /\ sent = 0 /\ blockNo = 0 /\ blocksSent = 0
  /\ pc = "parse" => cap = <<>>
  /\ cap = <<>> \/ cap = walk_zip(zip)

(***************************************************************************)
(* Every block but the last is full, unless a component ended early; then  *)
(* no other follows.  The bytes handed out are at least those the size     *)
(* check counted, so that the last block is known for it in time.          *)
(***************************************************************************)
BlocksCounted ==
  Streaming =>
    /\ Fits(Total(cap))
    /\ comp = 0 => pc = "fill" /\ sent = 0 /\ blocksSent = 0 /\ out = <<>>
    /\ comp > 0 => Covered <= sent + Len(out)
    /\ \/ sent = blocksSent * BlockBytes /\ sent < Total(cap)
       \/ Stuck /\ out = <<>>
    /\ pc = "send" /\ out # <<>> => Len(out) = BlockBytes \/ comp > Len(cap) \/ Stuck

\* The inductive invariant, whatever the CAP.
LoadInv == TypeOK /\ StreamerKept /\ Fresh /\ BlocksCounted /\ RingKeepsPending

\* The sizes are counts of bytes, and a block holds the header.
LEMMA Sizes ==
  /\ HeaderBytes \in Nat \ {0} /\ BlockBytes \in Nat \ {0} /\ HeaderBytes <= BlockBytes
  /\ MaxBlocks \in Nat \ {0} /\ Window \in Nat \ {0}
BY SizesAssumption, CapLimitsAssumption

\* The component being emitted, and the block, as numbers.
LEMMA CurrentTyped ==
  ASSUME TypeOK
  PROVE  /\ Len(cap) \in Nat /\ DOMAIN cap = 1 .. Len(cap) /\ comp \in Nat /\ comp <= Len(cap) + 1
         /\ Len(out) \in Nat /\ Room \in Nat /\ Len(out) = BlockBytes - Room
         /\ comp \in DOMAIN cap => /\ Current \in Location
                                   /\ Current.declared \in Nat /\ Current.own \in Nat
                                   /\ Current.left \in Nat /\ Current.entry \in Nat
<1>0. /\ cap \in Seq(Location) /\ out \in Seq(Place)
      /\ comp \in 0 .. Len(cap) + 1 /\ Len(out) <= BlockBytes
  BY Zenon DEF TypeOK
<1>1. Len(cap) \in Nat /\ DOMAIN cap = 1 .. Len(cap) /\ Len(out) \in Nat /\ Len(out) <= BlockBytes
  BY <1>0
<1>2. comp \in DOMAIN cap => Current \in Location
  BY <1>0, <1>1 DEF Current
<1>3. comp \in Nat /\ comp <= Len(cap) + 1
  BY <1>0, <1>1
<1>4. Room \in Nat /\ Len(out) = BlockBytes - Room
  BY <1>1, Sizes DEF Room
<1> QED BY <1>1, <1>2, <1>3, <1>4 DEF Location

\* What a stored component is copied by.
StoredTake == Min({Current.declared - emitted, Room, Current.left - emitted})

\* A stored entry gives no more than the block has room for and the entry holds.
LEMMA StoredTakeBounds ==
  ASSUME TypeOK, StreamerKept, Filling, Current.method # "deflate"
  PROVE  /\ StoredTake \in Nat /\ StoredTake <= Room
         /\ emitted + StoredTake <= Current.declared /\ emitted + StoredTake <= Current.left
         /\ StoredTake = 0 => emitted = Current.declared \/ emitted = Current.left
<1>1. Copying /\ emitted \in Nat /\ Room \in Nat /\ Room > 0
  BY CurrentTyped DEF StreamerKept, Filling, TypeOK
<1>2. Current.declared \in Nat /\ Current.left \in Nat
  BY CurrentTyped DEF Filling
<1> DEFINE a == Current.declared - emitted
           b == Current.left - emitted
<1>3. a \in Nat /\ b \in Nat
  BY <1>1, <1>2 DEF Copying
<1>4. StoredTake = Min({a, Room, b})
  BY DEF StoredTake
<1>5. /\ StoredTake \in Nat /\ StoredTake <= a /\ StoredTake <= Room /\ StoredTake <= b
      /\ StoredTake \in {a, Room, b}
  <2> HIDE DEF a, b
  <2> QED BY <1>1, <1>3, <1>4, MinOfThree
<1> QED BY <1>1, <1>2, <1>5

\* A run of the decompressor writes up to the end of its stream or of the ring.
LEMMA PumpBounds ==
  ASSUME TypeOK, StreamerKept, Pumping
  PROVE  /\ emitted = produced /\ Reach \in Nat /\ produced <= Reach /\ Reach <= Current.own
         /\ RingPos \in 0 .. Window - 1 /\ RingPos + (Reach - produced) <= Window
<1>1. Inflating /\ produced \in Nat /\ emitted \in Nat /\ Current.own \in Nat
  BY CurrentTyped DEF StreamerKept, Pumping, Filling, TypeOK
<1>2. RingPos \in 0 .. Window - 1
  BY <1>1, ModRange, Sizes DEF RingPos
<1> DEFINE a == Window - RingPos
           b == Current.own - produced
<1>3. a \in Nat /\ b \in Nat
  BY <1>1, <1>2, Sizes DEF Inflating
<1>4. Min({a, b}) \in Nat /\ Min({a, b}) <= a /\ Min({a, b}) <= b
  <2> HIDE DEF a, b
  <2> QED BY <1>3, MinOfTwo
<1>5. Reach = produced + Min({a, b})
  BY DEF Reach
<1>6. emitted = produced
  BY <1>1 DEF Pumping, Pending
<1> QED BY <1>1, <1>2, <1>4, <1>5, <1>6, Sizes

\* What is copied is pending, fits in the block and lies in one piece in the ring.
LEMMA CopyBounds ==
  ASSUME TypeOK, StreamerKept, Filling, Current.method = "deflate", Pending > 0
  PROVE  /\ CopyLength \in Nat /\ CopyLength > 0 /\ CopyLength <= Room
         /\ emitted + CopyLength <= produced
         /\ (emitted % Window) \in 0 .. Window - 1
         /\ (emitted % Window) + CopyLength <= Window
         /\ (emitted % Window) + Pending <= Window
<1>1. Inflating /\ produced \in Nat /\ emitted \in Nat /\ Room \in Nat /\ Room > 0
  BY CurrentTyped DEF StreamerKept, Filling, TypeOK
<1> DEFINE a == Window - (emitted % Window)
<1>2. (emitted % Window) \in 0 .. Window - 1 /\ a \in Nat /\ a > 0
  BY <1>1, ModRange, Sizes
<1>3. Pending \in Nat
  BY <1>1 DEF Inflating, Pending
<1>4. CopyLength = Min({Pending, Room, a})
  BY DEF CopyLength
<1>5. /\ CopyLength \in Nat /\ CopyLength <= Pending /\ CopyLength <= Room /\ CopyLength <= a
      /\ CopyLength \in {Pending, Room, a}
  <2> HIDE DEF a
  <2> QED BY <1>1, <1>2, <1>3, <1>4, MinOfThree
<1>6. emitted + CopyLength <= produced
  BY <1>1, <1>5 DEF Pending
<1>7. (emitted % Window) + CopyLength <= Window
  BY <1>2, <1>5, Sizes
<1> QED BY <1>1, <1>2, <1>5, <1>6, <1>7 DEF Inflating

\* No block number is used twice: it is the number of whole blocks before it.
LEMMA CountedAreFresh ==
  ASSUME TypeOK, BlocksCounted
  PROVE  BlockNumbersAreFresh
<1> SUFFICES ASSUME pc = "send", out # <<>> PROVE blocksSent < MaxBlocks
  BY DEF BlockNumbersAreFresh
<1>1. sent = blocksSent * BlockBytes /\ sent < Total(cap) /\ Total(cap) <= MaxBlocks * BlockBytes
  BY DEF BlocksCounted, Streaming, Fits
<1>0. blocksSent \in 0 .. MaxBlocks /\ cap \in Seq(Location)
  BY Zenon DEF TypeOK
<1>2. blocksSent \in Nat /\ Total(cap) \in Nat
  BY <1>0, TotalIsNat, Sizes
<1>3. blocksSent * BlockBytes \in Nat /\ MaxBlocks * BlockBytes \in Nat
  BY <1>2, Sizes
<1>4. blocksSent * BlockBytes < MaxBlocks * BlockBytes
  BY <1>1, <1>2, <1>3
<1> QED BY <1>2, <1>4, Sizes, FewerBlocks
\* The bytes put into a block are bytes of entries, as many as were taken.
LEMMA CopiedBytes ==
  ASSUME TypeOK, comp \in DOMAIN cap, NEW take \in Nat
  PROVE  /\ [i \in 1 .. take |-> ByteOf(comp, emitted + i)] \in Seq(Place)
         /\ Len([i \in 1 .. take |-> ByteOf(comp, emitted + i)]) = take
<1>1. Current.entry \in Nat /\ emitted \in Nat
  BY CurrentTyped DEF TypeOK
<1>2. \A i \in 1 .. take : ByteOf(comp, emitted + i) \in Place
  BY <1>1 DEF ByteOf, Place, Current
<1> QED BY <1>2

\* And so do those the decompressor writes.
LEMMA InflatedBytes ==
  ASSUME TypeOK, NEW from \in Nat, NEW take \in Nat, from + take <= Window
  PROVE  /\ [i \in 1 .. take |-> ring[from + i - 1]] \in Seq(Place)
         /\ Len([i \in 1 .. take |-> ring[from + i - 1]]) = take
<1>1. ring \in [0 .. Window - 1 -> Place]
  BY DEF TypeOK
<1>2. \A i \in 1 .. take : from + i - 1 \in 0 .. Window - 1
  BY Sizes
<1>3. \A i \in 1 .. take : ring[from + i - 1] \in Place
  BY <1>1, <1>2
<1> QED BY <1>3

\* The C4 header is the bytes of entry 0, the ring one of such bytes.
LEMMA HeaderBytesTyped ==
  /\ [i \in 1 .. HeaderBytes |-> <<0, i>>] \in Seq(Place)
  /\ Len([i \in 1 .. HeaderBytes |-> <<0, i>>]) = HeaderBytes
<1>1. \A i \in 1 .. HeaderBytes : <<0, i>> \in Place
  BY DEF Place
<1> QED BY <1>1, Sizes

\* What the metadata leave in the window are bytes of theirs.
LEMMA WindowTyped ==
  ASSUME TypeOK, NEW locs \in Seq(Location)
  PROVE  WindowAfter(locs) \in [0 .. Window - 1 -> Place]
<1>1. ring \in [0 .. Window - 1 -> Place]
  BY DEF TypeOK
<1> DEFINE Over(p) == {n \in DOMAIN locs : Materialised(zip, locs[n]) /\ locs[n].own > p}
<1>2. ASSUME NEW p \in 0 .. Window - 1, Over(p) # {} PROVE <<locs[Max(Over(p))].entry, p + 1>> \in Place
  <2>1. Over(p) \subseteq 1 .. Len(locs) /\ Len(locs) \in Nat
    OBVIOUS
  <2>2. Max(Over(p)) \in 1 .. Len(locs)
    <3> HIDE DEF Over
    <3> QED BY <1>2, <2>1, GreatestIsIn
  <2>3. locs[Max(Over(p))] \in Location
    BY <2>1, <2>2
  <2>4. locs[Max(Over(p))].entry \in Nat /\ p + 1 \in Nat
    BY <2>3 DEF Location
  <2> QED BY <2>4 DEF Place
<1>3. WindowAfter(locs) = [p \in 0 .. Window - 1 |->
                             IF Over(p) = {} THEN ring[p] ELSE <<locs[Max(Over(p))].entry, p + 1>>]
  BY <1>1 DEF WindowAfter
<1> HIDE DEF Over
<1> QED BY <1>1, <1>2, <1>3

\* The card counts blocks as the caller does.
CardType == [file : Seq(Place), next : 0 .. MaxBlocks - 1, state : {"idle", "loading", "loaded"}]

\* The LOAD handler of the card keeps what it received as a file, of MaxBlocks blocks.
LEMMA CardTakesTyped ==
  ASSUME card \in CardType, out \in Seq(Place), NEW last
  PROVE  /\ Takes(last) \in CardType
         /\ [NoLoad EXCEPT !.state = "loading"] \in CardType /\ NoLoad \in CardType
<1>1. card.file \in Seq(Place) /\ card.next \in Nat
  BY DEF CardType
<1>2. card.file \o out \in Seq(Place)
  BY <1>1
<1>3. (card.next + 1) % MaxBlocks \in 0 .. MaxBlocks - 1
  <2>1. card.next + 1 \in Nat
    BY <1>1
  <2> QED BY <2>1, ModRange, Sizes
<1>4. 0 \in 0 .. MaxBlocks - 1 /\ <<>> \in Seq(Place)
  BY Sizes
<1>5. (IF last THEN "loaded" ELSE "loading") \in {"idle", "loading", "loaded"}
  OBVIOUS
<1>6. Takes(last) \in CardType
  BY <1>2, <1>3, <1>5 DEF Takes, CardType
<1> QED BY <1>4, <1>6 DEF CardType, NoLoad

------------------------------------------------------------------------------
(***************************************************************************)
(* Its steps: types                                                        *)
(***************************************************************************)

\* The call that has not started satisfies the invariant.
LEMMA InitTyped ==
  ASSUME Init
  PROVE  LoadInv
<1>1. zip \in Archive /\ cap \in Seq(Location) /\ Len(cap) = 0 /\ Window \in Nat \ {0} /\ MaxBlocks \in Nat \ {0}
  BY ZipsAssumption, Sizes DEF Init
<1>2. <<0, 0>> \in Place
  BY DEF Place
<1>3. card \in CardType
  BY <1>1 DEF Init, CardType, NoLoad
<1>4. TypeOK
  BY <1>1, <1>2, <1>3, Sizes DEF Init, TypeOK, CardType, COMPONENT_NAMES
<1>5. StreamerKept /\ Fresh /\ BlocksCounted /\ RingKeepsPending
  BY <1>1 DEF Init, StreamerKept, Fresh, BlocksCounted, Streaming, RingKeepsPending
<1> QED BY <1>4, <1>5 DEF LoadInv

\* Every step keeps the types: one step of the proof per phase of the call.
LEMMA TypeKept ==
  ASSUME LoadInv, BlockNumbersAreFresh, [Next]_vars
  PROVE  TypeOK'
<1> USE DEF LoadInv
<1>0. /\ zip \in Archive /\ cap \in Seq(Location) /\ out \in Seq(Place) /\ card \in CardType
      /\ emitted \in Nat /\ produced \in Nat /\ sent \in Nat /\ blocksSent \in 0 .. MaxBlocks
      /\ blockNo \in 0 .. MaxBlocks - 1 /\ inflating \in 0 .. Len(COMPONENT_NAMES)
      /\ ring \in [0 .. Window - 1 -> Place]
  BY Zenon DEF TypeOK, CardType
<1>1. Len(cap) <= Len(COMPONENT_NAMES) /\ Len(COMPONENT_NAMES) \in Nat
  BY <1>0, WalkIsTable DEF Fresh, COMPONENT_NAMES
<1>2. CASE CapRejected
  BY <1>2 DEF CapRejected, Finish, TypeOK, streamer, infl, loader
<1>3. CASE CapParsed
  <2>1. cap' = walk_zip(zip) /\ ring' = WindowAfter(walk_zip(zip))
    BY <1>3 DEF CapParsed
  <2>2. cap' \in Seq(Location) /\ ring' \in [0 .. Window - 1 -> Place]
    BY <1>0, <2>1, WalkIsTable, WindowTyped
  <2>3. comp' \in 0 .. Len(cap') + 1
    BY <1>3, <2>2 DEF CapParsed, streamer, Fresh
  <2>4. inflating' \in 0 .. Len(COMPONENT_NAMES) /\ pc' = "install"
    BY <1>1, <1>3 DEF CapParsed
  <2>5. UNCHANGED <<zip, streamer, loader, report, card>>
    BY <1>3 DEF CapParsed
  <2> QED BY <2>2, <2>3, <2>4, <2>5 DEF TypeOK, streamer, loader
<1>4. CASE LoadTooLarge
  BY <1>4 DEF LoadTooLarge, Finish, TypeOK, streamer, infl, loader
<1>5. CASE InstallForLoad
  <2>1. card' \in CardType
    BY <1>0, <1>5, CardTakesTyped DEF InstallForLoad
  <2>2. /\ inflating' \in 0 .. Len(COMPONENT_NAMES)
        /\ pc' \in {"fill", "done"} /\ report' \in {report, "exists"}
    BY <1>0, <1>1, <1>5 DEF InstallForLoad, Finish, infl
  <2>3. UNCHANGED <<zip, cap, streamer, loader, ring>>
    BY <1>5 DEF InstallForLoad, infl
  <2> QED BY <2>1, <2>2, <2>3 DEF TypeOK, streamer, loader, CardType
<1>6. CASE InstallFails
  <2>1. card' \in CardType
    BY <1>0, <1>6, CardTakesTyped DEF InstallFails
  <2> QED BY <1>0, <1>6, <2>1 DEF InstallFails, Finish, TypeOK, streamer, infl, loader, CardType
<1>7. CASE EmitHeader
  <2>1. out' \in Seq(Place) /\ Len(out') <= BlockBytes
    BY <1>7, HeaderBytesTyped, Sizes DEF EmitHeader
  <2>2. comp' \in 0 .. Len(cap') + 1
    BY <1>0, <1>7 DEF EmitHeader, Advance
  <2> QED BY <1>0, <1>7, <2>1, <2>2 DEF EmitHeader, Advance, TypeOK, infl
<1>8. CASE EmitStored
  <2> DEFINE bytes == [i \in 1 .. StoredTake |-> ByteOf(comp, emitted + i)]
  <2>1. /\ StoredTake \in Nat /\ StoredTake <= Room /\ comp \in DOMAIN cap
        /\ out' = out \o bytes
    BY <1>8, StoredTakeBounds DEF EmitStored, StoredTake, Filling
  <2>2. bytes \in Seq(Place) /\ Len(bytes) = StoredTake
    BY <2>1, CopiedBytes
  <2> HIDE DEF bytes
  <2>3. out' \in Seq(Place) /\ Len(out') <= BlockBytes
    BY <1>0, <2>1, <2>2, CurrentTyped, Sizes
  <2>5. comp' \in 0 .. Len(cap') + 1
    BY <1>8, <2>1, CurrentTyped DEF EmitStored, Advance
  <2>6. CASE Advance /\ UNCHANGED pc
    BY <1>0, <1>8, <2>3, <2>5, <2>6 DEF EmitStored, Advance, TypeOK, infl
  <2>7. CASE /\ emitted' = emitted + StoredTake /\ UNCHANGED <<comp, produced, ended, started>>
             /\ pc' = IF StoredTake = 0 THEN "send" ELSE "fill"
    <3>1. emitted' \in Nat
      BY <1>0, <2>1, <2>7
    <3> QED BY <1>0, <1>8, <2>3, <2>5, <2>7, <3>1 DEF EmitStored, TypeOK, infl
  <2> QED BY <1>8, <2>6, <2>7 DEF EmitStored, StoredTake
<1>9. CASE Pump
  <2>1. /\ Reach \in Nat /\ RingPos \in 0 .. Window - 1 /\ comp \in DOMAIN cap
        /\ produced <= Reach
    BY <1>9, PumpBounds DEF Pump, Pumping, Filling
  <2>2. comp \in 0 .. Len(COMPONENT_NAMES)
    BY <1>1, <2>1, CurrentTyped
  <2>3. ring' \in [0 .. Window - 1 -> Place]
    <3>1. Current.entry \in Nat
      BY <2>1, CurrentTyped
    <3>2. ASSUME NEW p \in RingPos .. RingPos + (Reach - produced) - 1
          PROVE  ByteOf(comp, produced + (p - RingPos) + 1) \in Place
      BY <1>0, <2>1, <3>1 DEF ByteOf, Place, Current
    <3> QED BY <1>0, <1>9, <3>2 DEF Pump
  <2>4. ended' \in BOOLEAN
    BY <1>9 DEF Pump
  <2> QED BY <1>0, <1>9, <2>1, <2>2, <2>3, <2>4 DEF Pump, TypeOK, loader
<1>10. CASE PumpFails
  BY <1>10 DEF PumpFails, Finish, TypeOK, streamer, infl, loader
<1>11. CASE CopyOut
  <2> DEFINE from == emitted % Window
             bytes == [i \in 1 .. CopyLength |-> ring[from + i - 1]]
  <2>1. /\ CopyLength \in Nat /\ CopyLength <= Room /\ from \in 0 .. Window - 1
        /\ from + CopyLength <= Window
    BY <1>11, CopyBounds DEF CopyOut
  <2>2. out' = out \o bytes
    BY <1>11 DEF CopyOut
  <2>3. bytes \in Seq(Place) /\ Len(bytes) = CopyLength
    <3>1. from \in Nat
      BY <2>1, Sizes
    <3> HIDE DEF from
    <3> QED BY <2>1, <3>1, InflatedBytes
  <2> HIDE DEF bytes, from
  <2>4. out' \in Seq(Place) /\ Len(out') <= BlockBytes
    BY <1>0, <2>1, <2>2, <2>3, CurrentTyped, Sizes
  <2>5. emitted' \in Nat
    BY <1>0, <1>11, <2>1 DEF CopyOut
  <2> QED BY <1>0, <1>11, <2>4, <2>5 DEF CopyOut, TypeOK, infl
<1>12. CASE DeflateReturns
  <2>1. comp' \in 0 .. Len(cap') + 1
    <3>1. comp \in DOMAIN cap /\ cap' = cap
      BY <1>12 DEF DeflateReturns
    <3>2. comp' = comp \/ comp' = comp + 1
      BY Zenon, <1>12 DEF DeflateReturns, Advance, streamer
    <3> QED BY <3>1, <3>2, CurrentTyped
  <2>2. CASE UNCHANGED streamer
    BY <1>0, <1>12, <2>1, <2>2 DEF DeflateReturns, TypeOK, streamer, infl, loader
  <2>3. CASE Advance /\ UNCHANGED pc
    BY <1>0, <1>12, <2>1, <2>3 DEF DeflateReturns, Advance, TypeOK, infl, loader
  <2> QED BY Zenon, <1>12, <2>2, <2>3 DEF DeflateReturns
<1>13. CASE BlockFilled
  BY <1>13 DEF BlockFilled, TypeOK, streamer, infl, loader
<1>14. CASE NothingLeft
  BY <1>14 DEF NothingLeft, Finish, TypeOK, streamer, infl, loader
<1>15. CASE BlockAccepted
  <2>1. card' \in CardType
    BY <1>0, <1>15, CardTakesTyped DEF BlockAccepted
  <2>2. blocksSent' \in 0 .. MaxBlocks
    BY <1>0, <1>15, Sizes DEF BlockAccepted, BlockNumbersAreFresh
  <2>3. blockNo' \in 0 .. MaxBlocks - 1
    <3>1. blockNo + 1 \in Nat
      BY <1>0
    <3> QED BY <1>15, <3>1, ModRange, Sizes DEF BlockAccepted, NextNumber
  <2>4. out' \in Seq(Place) /\ Len(out') <= BlockBytes /\ sent' \in Nat
    BY <1>0, <1>15, Sizes DEF BlockAccepted
  <2>5. pc' \in {"fill", "done"} /\ report' \in {report, "ok"}
    BY <1>15 DEF BlockAccepted, Finish
  <2> QED BY <1>0, <1>15, <2>1, <2>2, <2>3, <2>4, <2>5 DEF BlockAccepted, TypeOK, streamer, infl, CardType
<1>16. CASE BlockFails
  <2>1. card' \in CardType
    BY <1>0, <1>16, CardTakesTyped DEF BlockFails
  <2>2. sent' \in Nat
    BY <1>0, <1>16 DEF BlockFails
  <2> QED BY <1>0, <1>16, <2>1, <2>2 DEF BlockFails, Finish, TypeOK, streamer, infl, CardType
<1>17. CASE LoadAgain
  <2>1. /\ cap' \in Seq(Location) /\ out' \in Seq(Place) /\ Len(out') <= BlockBytes
        /\ comp' \in 0 .. Len(cap') + 1 /\ blockNo' \in 0 .. MaxBlocks - 1
        /\ blocksSent' \in 0 .. MaxBlocks
    BY <1>17, Sizes DEF LoadAgain
  <2> QED BY <1>17, <2>1 DEF LoadAgain, TypeOK, infl
<1>18. CASE UNCHANGED vars
  BY <1>18 DEF vars, streamer, infl, loader, TypeOK
<1> QED BY <1>2, <1>3, <1>4, <1>5, <1>6, <1>7, <1>8, <1>9, <1>10, <1>11, <1>12, <1>13, <1>14,
           <1>15, <1>16, <1>17, <1>18 DEF Next, LoadNext
------------------------------------------------------------------------------
(***************************************************************************)
(* Its steps: the ring                                                     *)
(***************************************************************************)

\* Every component of the table has sizes.
LEMMA TableTyped ==
  ASSUME TypeOK, NEW n \in DOMAIN cap
  PROVE  /\ n \in Nat /\ cap[n] \in Location
         /\ cap[n].declared \in Nat /\ cap[n].own \in Nat /\ cap[n].left \in Nat
<1>1. cap \in Seq(Location)
  BY Zenon DEF TypeOK
<1>2. n \in Nat /\ cap[n] \in Location
  BY <1>1
<1> QED BY <1>2 DEF Location

\* The next component begins with nothing done.
LEMMA AdvanceStreamer ==
  ASSUME TypeOK, Advance, UNCHANGED cap
  PROVE  StreamerKept'
<1>1. emitted' = 0 /\ produced' = 0 /\ ended' = FALSE /\ started' = FALSE /\ cap' = cap
  BY DEF Advance
<1>2. 0 % Window = 0 /\ Window \in Nat /\ 0 <= Window
  <2>1. 0 = 0 * Window + 0 /\ 0 \in 0 .. Window - 1
    BY Sizes
  <2> QED BY <2>1, Sizes, DivModUnique
<1>3. ASSUME comp' \in DOMAIN cap PROVE Copying' /\ Inflating'
  <2>1. cap[comp'].declared \in Nat /\ cap[comp'].own \in Nat /\ cap[comp'].left \in Nat
    BY <1>3, TableTyped
  <2>2. Copying'
    BY <1>1, <2>1 DEF Copying, Current
  <2>3. (emitted' % Window) + Pending' <= Window
    BY <1>1, <1>2 DEF Pending
  <2>4. Inflating'
    BY <1>1, <2>1, <2>3 DEF Inflating, Current
  <2> QED BY <2>2, <2>4
<1> QED BY <1>1, <1>3 DEF StreamerKept

\* Out of any component there is nothing to keep.
LEMMA NoComponent ==
  ASSUME emitted = 0, produced = 0, ~ ended, ~ started, comp = 0, cap \in Seq(Location)
  PROVE  StreamerKept
BY DEF StreamerKept

\* Every step keeps the streamer's counters within the component it hands out.
LEMMA StreamerStays ==
  ASSUME LoadInv, [Next]_vars
  PROVE  StreamerKept'
<1> USE DEF LoadInv
<1>0. zip \in Archive /\ cap \in Seq(Location) /\ emitted \in Nat /\ produced \in Nat
  BY Zenon DEF TypeOK
<1>1. ASSUME UNCHANGED <<cap, streamer, inflating>> PROVE StreamerKept'
  <2>1. /\ cap' = cap /\ comp' = comp /\ emitted' = emitted /\ produced' = produced
        /\ ended' = ended /\ started' = started /\ inflating' = inflating
    BY <1>1 DEF streamer
  <2>2. Inflating' = Inflating /\ Copying' = Copying
    BY <2>1 DEF Inflating, Copying, Pending, Current
  <2> QED BY <2>1, <2>2 DEF StreamerKept, Current
<1>2. CASE CapRejected \/ LoadTooLarge \/ InstallFails \/ PumpFails \/ BlockFilled \/ NothingLeft
           \/ BlockAccepted \/ BlockFails \/ UNCHANGED vars
  BY <1>1, <1>2 DEF CapRejected, LoadTooLarge, InstallFails, PumpFails, BlockFilled, NothingLeft,
     BlockAccepted, BlockFails, vars, infl
<1>3. CASE CapParsed \/ InstallForLoad \/ LoadAgain
  <2>1. comp' = 0 /\ emitted' = 0 /\ produced' = 0 /\ ~ ended' /\ ~ started'
    <3>1. CASE LoadAgain
      BY <3>1 DEF LoadAgain
    <3>2. CASE CapParsed \/ InstallForLoad
      <4>1. comp = 0 /\ emitted = 0 /\ produced = 0 /\ ~ ended /\ ~ started
        BY <1>0, <3>2 DEF Fresh, StreamerKept, CapParsed, InstallForLoad
      <4>2. UNCHANGED streamer
        BY <3>2 DEF CapParsed, InstallForLoad
      <4> QED BY <4>1, <4>2 DEF streamer
    <3> QED BY <1>3, <3>1, <3>2
  <2>2. cap' \in Seq(Location)
    <3>1. cap' \in {cap, <<>>, walk_zip(zip)}
      BY <1>3 DEF CapParsed, InstallForLoad, LoadAgain
    <3>2. <<>> \in Seq(Location) /\ walk_zip(zip) \in Seq(Location)
      BY <1>0, WalkIsTable
    <3> QED BY <1>0, <3>1, <3>2
  <2> QED BY <2>1, <2>2 DEF StreamerKept
<1>4. CASE EmitHeader
  BY <1>4, AdvanceStreamer DEF EmitHeader
<1>5. CASE EmitStored
  <2>1. CASE Advance
    BY <1>5, <2>1, AdvanceStreamer DEF EmitStored
  <2>2. CASE emitted' = emitted + StoredTake /\ UNCHANGED <<comp, produced, ended, started>>
    <3>1. /\ StoredTake \in Nat /\ emitted + StoredTake <= Current.declared
          /\ emitted + StoredTake <= Current.left /\ comp \in DOMAIN cap /\ cap' = cap
          /\ Current.method # "deflate" /\ Copying
      BY <1>5, StoredTakeBounds DEF EmitStored, Filling, StreamerKept
    <3>2. Copying' /\ Current' = Current
      BY <1>0, <2>2, <3>1 DEF Copying, Current
    <3> QED BY <2>2, <3>1, <3>2 DEF StreamerKept
  <2> QED BY <1>5, <2>1, <2>2 DEF EmitStored, StoredTake
<1>6. CASE Pump
  <2>1. /\ emitted = produced /\ Reach \in Nat /\ produced <= Reach /\ Reach <= Current.own
        /\ RingPos \in 0 .. Window - 1 /\ RingPos + (Reach - produced) <= Window
        /\ comp \in DOMAIN cap /\ Current.method = "deflate"
    BY <1>6, PumpBounds DEF Pump, Pumping, Filling
  <2>2. /\ cap' = cap /\ comp' = comp /\ emitted' = emitted /\ produced' = Reach
        /\ started' = TRUE /\ inflating' = comp
    BY <1>6 DEF Pump
  <2>3. ended' => Reach = Current.own
    BY <1>6 DEF Pump
  <2>4. (emitted' % Window) + Pending' <= Window
    BY <2>1, <2>2 DEF RingPos, Pending
  <2>5. Inflating' /\ Current' = Current
    BY <1>0, <2>1, <2>2, <2>3, <2>4 DEF Inflating, Current
  <2> QED BY <2>1, <2>2, <2>5 DEF StreamerKept
<1>7. CASE CopyOut
  <2>1. /\ CopyLength \in Nat /\ CopyLength > 0 /\ emitted + CopyLength <= produced
        /\ (emitted % Window) \in 0 .. Window - 1 /\ (emitted % Window) + CopyLength <= Window
        /\ (emitted % Window) + Pending <= Window
        /\ comp \in DOMAIN cap /\ Current.method = "deflate" /\ Inflating
    BY <1>7, CopyBounds DEF CopyOut, Filling, StreamerKept
  <2>2. /\ cap' = cap /\ comp' = comp /\ emitted' = emitted + CopyLength /\ produced' = produced
        /\ ended' = ended /\ started' = started /\ inflating' = inflating
    BY <1>7 DEF CopyOut, infl
  <2>3. (emitted' % Window) + Pending' <= Window
    <3>1. CASE (emitted % Window) + CopyLength < Window
      <4>1. (emitted + CopyLength) % Window = (emitted % Window) + CopyLength
        BY <1>0, <2>1, <3>1, Sizes, ModAdd
      <4> QED BY <1>0, <2>1, <2>2, <4>1, Sizes DEF Pending
    <3>2. CASE (emitted % Window) + CopyLength = Window
      <4>1. Pending' = 0
        BY <1>0, <2>1, <2>2, <3>2, Sizes DEF Pending
      <4>2. (emitted + CopyLength) % Window \in 0 .. Window - 1
        <5>1. emitted + CopyLength \in Nat
          BY <1>0, <2>1
        <5> QED BY <5>1, ModRange, Sizes
      <4> QED BY <2>2, <4>1, <4>2, Sizes
    <3> QED BY <2>1, <3>1, <3>2, Sizes
  <2>4. Inflating' /\ Current' = Current
    BY <1>0, <2>1, <2>2, <2>3 DEF Inflating, Current
  <2> QED BY <2>1, <2>2, <2>4 DEF StreamerKept
<1>8. CASE DeflateReturns
  <2>1. CASE Advance
    BY <1>8, <2>1, AdvanceStreamer DEF DeflateReturns
  <2>2. CASE UNCHANGED streamer
    BY <1>1, <1>8, <2>2 DEF DeflateReturns, infl
  <2> QED BY Zenon, <1>8, <2>1, <2>2 DEF DeflateReturns
<1> QED BY <1>2, <1>3, <1>4, <1>5, <1>6, <1>7, <1>8 DEF Next, LoadNext

\* Dropping the first bytes of what waits moves its start and keeps its end.
LEMMA LaterStart ==
  ASSUME NEW a \in Nat, NEW b \in Nat, NEW c \in Nat, a <= b
  PROVE  b + 1 .. c \subseteq a + 1 .. c
OBVIOUS

\* With the ring as it was, what still waits in it waited before.
LEMMA FewerWait ==
  ASSUME RingKeepsPending, emitted \in Nat, produced \in Nat, emitted' \in Nat,
         emitted <= emitted', cap' = cap, ring' = ring, comp' = comp, produced' = produced
  PROVE  RingKeepsPending'
<1>1. emitted' + 1 .. produced \subseteq emitted + 1 .. produced
  BY LaterStart
<1>2. \A i \in emitted' + 1 .. produced : ring[(i - 1) % Window] = ByteOf(comp, i)
  BY <1>1 DEF RingKeepsPending
<1> QED BY <1>2 DEF RingKeepsPending, ByteOf

\* Only a run of the decompressor writes into the ring, when nothing waits there.
LEMMA RingStays ==
  ASSUME LoadInv, [Next]_vars
  PROVE  RingKeepsPending'
<1> USE DEF LoadInv
<1>0. cap \in Seq(Location) /\ emitted \in Nat /\ produced \in Nat /\ ring \in [0 .. Window - 1 -> Place]
  BY Zenon DEF TypeOK
<1>1. ASSUME UNCHANGED <<cap, ring, comp, produced>>, emitted' \in Nat, emitted <= emitted'
      PROVE  RingKeepsPending'
  BY <1>0, <1>1, FewerWait
<1>2. ASSUME emitted' = 0, produced' = 0 PROVE RingKeepsPending'
  BY <1>2 DEF RingKeepsPending
<1>3. CASE CapRejected \/ LoadTooLarge \/ InstallFails \/ PumpFails \/ BlockFilled \/ NothingLeft
           \/ BlockAccepted \/ BlockFails \/ UNCHANGED vars
  <2>1. UNCHANGED <<cap, ring, streamer>>
    BY <1>3 DEF CapRejected, LoadTooLarge, InstallFails, PumpFails, BlockFilled, NothingLeft,
       BlockAccepted, BlockFails, vars, infl
  <2> QED BY <1>0, <1>1, <2>1 DEF streamer
<1>4. CASE CapParsed \/ InstallForLoad \/ LoadAgain
  <2>1. CASE LoadAgain
    BY <1>2, <2>1 DEF LoadAgain
  <2>2. CASE CapParsed \/ InstallForLoad
    <3>1. emitted = 0 /\ produced = 0
      BY <1>0, <2>2 DEF Fresh, StreamerKept, CapParsed, InstallForLoad
    <3>2. UNCHANGED streamer
      BY <2>2 DEF CapParsed, InstallForLoad
    <3> QED BY <1>2, <3>1, <3>2 DEF streamer
  <2> QED BY <1>4, <2>1, <2>2
<1>5. CASE EmitHeader
  BY <1>2, <1>5 DEF EmitHeader, Advance
<1>6. CASE EmitStored
  <2>1. CASE Advance
    BY <1>2, <2>1 DEF Advance
  <2>2. CASE emitted' = emitted + StoredTake /\ UNCHANGED <<comp, produced, ended, started>>
    <3>1. StoredTake \in Nat /\ UNCHANGED <<cap, ring>>
      BY <1>6, StoredTakeBounds DEF EmitStored, infl
    <3> QED BY <1>0, <1>1, <2>2, <3>1
  <2> QED BY <1>6, <2>1, <2>2 DEF EmitStored, StoredTake
<1>7. CASE Pump
  <2>1. /\ emitted = produced /\ Reach \in Nat /\ produced <= Reach
        /\ RingPos \in 0 .. Window - 1 /\ RingPos + (Reach - produced) <= Window
    BY <1>7, PumpBounds DEF Pump
  <2>2. /\ cap' = cap /\ comp' = comp /\ emitted' = emitted /\ produced' = Reach
        /\ ring' = [p \in DOMAIN ring |->
                      IF p \in RingPos .. RingPos + (Reach - produced) - 1
                        THEN ByteOf(comp, produced + (p - RingPos) + 1) ELSE ring[p]]
    BY <1>7 DEF Pump
  <2>3. ASSUME NEW i \in emitted + 1 .. Reach
        PROVE  ring'[(i - 1) % Window] = ByteOf(comp, i)
    <3> DEFINE d == i - 1 - produced
    <3>1. d \in Nat /\ d < Reach - produced /\ RingPos + d < Window /\ i - 1 = produced + d
      BY <1>0, <2>1, <2>3, Sizes
    <3> HIDE DEF d
    <3>2. (i - 1) % Window = RingPos + d
      <4>1. (produced + d) % Window = (produced % Window) + d
        BY <1>0, <3>1, ModAdd, Sizes DEF RingPos
      <4> QED BY <3>1, <4>1 DEF RingPos
    <3>3. RingPos + d \in DOMAIN ring /\ RingPos + d \in RingPos .. RingPos + (Reach - produced) - 1
      BY <1>0, <2>1, <3>1, Sizes
    <3>4. produced + ((RingPos + d) - RingPos) + 1 = i
      BY <1>0, <2>1, <3>1
    <3> QED BY <2>2, <3>2, <3>3, <3>4
  <2> QED BY <2>2, <2>3 DEF RingKeepsPending, ByteOf
<1>8. CASE CopyOut
  <2>1. CopyLength \in Nat
    BY <1>8, CopyBounds DEF CopyOut
  <2>2. emitted' = emitted + CopyLength /\ UNCHANGED <<cap, ring, comp, produced>>
    BY <1>8 DEF CopyOut, infl
  <2> QED BY <1>0, <1>1, <2>1, <2>2
<1>9. CASE DeflateReturns
  <2>1. CASE Advance
    BY <1>2, <2>1 DEF Advance
  <2>2. CASE UNCHANGED streamer
    BY <1>0, <1>1, <1>9, <2>2 DEF DeflateReturns, infl, streamer
  <2> QED BY Zenon, <1>9, <2>1, <2>2 DEF DeflateReturns
<1> QED BY <1>3, <1>4, <1>5, <1>6, <1>7, <1>8, <1>9 DEF Next, LoadNext
------------------------------------------------------------------------------
(***************************************************************************)
(* Its steps: blocks and bytes                                             *)
(***************************************************************************)

\* Every step keeps the block numbers apart: a block is sent at the count of those
\* before it, which the cutting has moved past.
LEMMA FreshStays ==
  ASSUME LoadInv, [Next]_vars
  PROVE  Fresh'
<1>1. CASE CapParsed
  BY <1>1 DEF CapParsed, LoadInv, Fresh, streamer, loader
<1>2. CASE LoadAgain
  BY <1>2 DEF LoadAgain, Fresh
<1>3. CASE UNCHANGED vars
  BY <1>3 DEF LoadInv, Fresh, vars, streamer, loader
<1>4. ASSUME LoadNext, ~ CapParsed PROVE cap' = cap /\ zip' = zip /\ pc' \in {"fill", "send", "done"}
  <2>1. CASE CapRejected \/ LoadTooLarge \/ InstallFails \/ PumpFails \/ NothingLeft \/ BlockFails
    BY <2>1 DEF CapRejected, LoadTooLarge, InstallFails, PumpFails, NothingLeft, BlockFails, Finish
  <2>2. CASE InstallForLoad \/ BlockFilled \/ BlockAccepted
    BY <2>2 DEF InstallForLoad, BlockFilled, BlockAccepted, Finish
  <2>3. CASE EmitHeader \/ Pump \/ CopyOut \/ DeflateReturns
    BY <2>3 DEF EmitHeader, Pump, CopyOut, DeflateReturns, Pumping, Filling
  <2>4. CASE EmitStored
    BY <2>4 DEF EmitStored, Filling
  <2> QED BY <1>4, <2>1, <2>2, <2>3, <2>4 DEF LoadNext
<1>5. CASE LoadNext /\ ~ CapParsed
  BY <1>4, <1>5 DEF LoadInv, Fresh
<1> QED BY <1>1, <1>2, <1>3, <1>5 DEF Next

\* To hand out a component that has what it declares is to cover it.
LEMMA CoveredByAdvance ==
  ASSUME TypeOK, comp \in DOMAIN cap, Advance, cap' = cap, NEW n \in Nat,
         Current.declared <= emitted + n, Covered <= sent + Len(out)
  PROVE  comp' # 0 /\ Covered' <= sent + Len(out) + n
<1>0. cap \in Seq(Location) /\ emitted \in Nat /\ sent \in Nat /\ out \in Seq(Place)
  BY Zenon DEF TypeOK
<1>1. comp \in 1 .. Len(cap) /\ comp \in Nat /\ Len(cap) \in Nat /\ Len(out) \in Nat
  BY <1>0, CurrentTyped
<1>2. /\ DeclaredUpTo(cap)[comp] = DeclaredUpTo(cap)[comp - 1] + Current.declared
      /\ DeclaredUpTo(cap)[comp - 1] \in Nat /\ Current.declared \in Nat
  <2>1. DeclaredUpTo(cap)[comp] = DeclaredUpTo(cap)[comp - 1] + cap[comp].declared
    BY <1>0, <1>1, SumGrows
  <2>2. comp - 1 \in 0 .. Len(cap)
    BY <1>1
  <2>3. DeclaredUpTo(cap)[comp - 1] \in Nat
    BY <1>0, <2>2, SumGrows
  <2> QED BY <2>1, <2>3, CurrentTyped DEF Current
<1>3. Covered' = HeaderBytes + DeclaredUpTo(cap)[comp] + 0
  <2>1. comp' - 1 = comp
    BY <1>1 DEF Advance
  <2> QED BY <2>1 DEF Covered, Advance
<1>4. Covered = HeaderBytes + DeclaredUpTo(cap)[comp - 1] + emitted
  BY DEF Covered
<1>5. comp' # 0
  BY <1>1 DEF Advance
<1> DEFINE before == DeclaredUpTo(cap)[comp - 1]
           size == Current.declared
<1>6. Covered' = HeaderBytes + (before + size) /\ HeaderBytes + before + emitted <= sent + Len(out)
  BY <1>2, <1>3, <1>4, Sizes
<1>7. before \in Nat /\ size \in Nat /\ size <= emitted + n
  BY <1>2
<1> HIDE DEF before, size
<1>8. Covered' <= sent + Len(out) + n
  BY <1>0, <1>1, <1>6, <1>7, Sizes
<1> QED BY <1>5, <1>8

\* Handing out the rest of a component covers as much more as it hands out.
LEMMA CoveredByEmission ==
  ASSUME TypeOK, comp \in DOMAIN cap, NEW n \in Nat, emitted' = emitted + n, cap' = cap, comp' = comp
  PROVE  Covered \in Nat /\ Covered' = Covered + n
<1>0. cap \in Seq(Location) /\ emitted \in Nat
  BY Zenon DEF TypeOK
<1>1. comp - 1 \in 0 .. Len(cap)
  BY <1>0, CurrentTyped
<1>2. DeclaredUpTo(cap)[comp - 1] \in Nat
  BY <1>0, <1>1, SumGrows
<1> QED BY <1>0, <1>2, Sizes DEF Covered

\* When every component has been handed out, the whole load file is covered.
LEMMA CoveredAtTheEnd ==
  ASSUME TypeOK, StreamerKept, comp > Len(cap)
  PROVE  Covered = Total(cap)
<1>0. cap \in Seq(Location)
  BY Zenon DEF TypeOK
<1>1. comp - 1 = Len(cap) /\ emitted = 0
  BY <1>0, CurrentTyped DEF StreamerKept
<1>2. DeclaredUpTo(cap)[Len(cap)] \in Nat
  BY <1>0, SumGrows
<1> QED BY <1>0, <1>1, <1>2, TotalIsNat, Sizes DEF Covered

\* Every step keeps the number of the block equal to the whole blocks handed out.
LEMMA BlocksStayCounted ==
  ASSUME LoadInv, [Next]_vars
  PROVE  BlocksCounted'
<1>0. /\ TypeOK /\ StreamerKept /\ Fresh /\ BlocksCounted
      /\ cap \in Seq(Location) /\ emitted \in Nat /\ sent \in Nat /\ blocksSent \in Nat
      /\ out \in Seq(Place) /\ Len(out) \in Nat /\ Total(cap) \in Nat /\ Total(cap) >= HeaderBytes
  <2>1. /\ cap \in Seq(Location) /\ emitted \in Nat /\ sent \in Nat
        /\ blocksSent \in 0 .. MaxBlocks /\ out \in Seq(Place)
    BY Zenon DEF TypeOK, LoadInv
  <2> QED BY <2>1, TotalIsNat, Sizes DEF LoadInv
<1>1. ASSUME pc' \notin {"fill", "send"} PROVE BlocksCounted'
  BY <1>1 DEF BlocksCounted, Streaming
<1>2. CASE CapRejected \/ CapParsed \/ LoadTooLarge \/ InstallFails \/ PumpFails \/ NothingLeft
           \/ BlockFails \/ LoadAgain
  BY <1>1, <1>2 DEF CapRejected, CapParsed, LoadTooLarge, InstallFails, PumpFails, NothingLeft,
     BlockFails, LoadAgain, Finish
<1>3. CASE InstallForLoad
  <2>1. CASE pc' = "fill"
    <3>1. comp' = 0 /\ out' = <<>> /\ sent' = 0 /\ blocksSent' = 0 /\ cap' = cap /\ Fits(Total(cap))
      BY <1>0, <1>3, <2>1 DEF InstallForLoad, Fresh, streamer, loader, Finish
    <3>2. sent' = blocksSent' * BlockBytes /\ sent' < Total(cap')
      BY <1>0, <3>1, Sizes
    <3> QED BY <2>1, <3>1, <3>2 DEF BlocksCounted
  <2>2. CASE pc' = "done"
    BY <1>1, <2>2
  <2> QED BY <1>3, <2>1, <2>2 DEF InstallForLoad, Finish
<1>4. CASE EmitHeader
  <2>1. /\ pc' = "fill" /\ comp' = 1 /\ emitted' = 0 /\ cap' = cap /\ UNCHANGED <<sent, blocksSent>>
        /\ Len(out') = HeaderBytes /\ comp = 0 /\ Streaming
    <3>1. Len(out') = HeaderBytes
      BY <1>4, HeaderBytesTyped DEF EmitHeader
    <3>2. comp' = 1 /\ emitted' = 0
      BY <1>4 DEF EmitHeader, Advance
    <3> QED BY <1>4, <3>1, <3>2 DEF EmitHeader, Streaming
  <2>2. /\ Fits(Total(cap)) /\ sent = 0 /\ blocksSent = 0
    BY <1>0, <2>1 DEF BlocksCounted
  <2>3. Covered' = HeaderBytes
    <3>1. DeclaredUpTo(cap)[0] = 0
      BY <1>0, SumGrows
    <3> QED BY <2>1, <3>1, Sizes DEF Covered
  <2>4. sent' = blocksSent' * BlockBytes /\ sent' < Total(cap')
    BY <1>0, <2>1, <2>2, Sizes
  <2> QED BY <2>1, <2>2, <2>3, <2>4, Sizes DEF BlocksCounted
<1> DEFINE Sofar == \/ sent = blocksSent * BlockBytes /\ sent < Total(cap)
                    \/ Stuck /\ out = <<>>
<1>5. ASSUME Streaming, comp \in DOMAIN cap
      PROVE  Fits(Total(cap)) /\ Covered <= sent + Len(out) /\ Sofar /\ comp > 0
  BY <1>0, <1>5 DEF BlocksCounted
<1>6. CASE EmitStored
  <2>1. /\ Streaming /\ comp \in DOMAIN cap /\ Room > 0 /\ Current.method # "deflate" /\ cap' = cap
        /\ UNCHANGED <<sent, blocksSent>>
        /\ out' = out \o [i \in 1 .. StoredTake |-> ByteOf(comp, emitted + i)]
    BY <1>6 DEF EmitStored, StoredTake, Filling, Streaming
  <2>2. /\ StoredTake \in Nat /\ emitted + StoredTake <= Current.declared
        /\ emitted + StoredTake <= Current.left
        /\ StoredTake = 0 => emitted = Current.declared \/ emitted = Current.left
    BY <1>0, <1>6, StoredTakeBounds DEF EmitStored
  <2>3. Len(out') = Len(out) + StoredTake /\ (StoredTake = 0 => out' = out)
    <3> DEFINE bytes == [i \in 1 .. StoredTake |-> ByteOf(comp, emitted + i)]
    <3>1. bytes \in Seq(Place) /\ Len(bytes) = StoredTake
      BY <1>0, <2>1, <2>2, CopiedBytes
    <3> HIDE DEF bytes
    <3>2. Len(bytes) = 0 => bytes = <<>>
      BY <3>1
    <3> QED BY <1>0, <2>1, <3>1, <3>2
  <2>4. Stuck => StoredTake = 0 /\ ~ Exhausted(emitted + StoredTake)
    <3>1. Stuck => emitted < Current.declared /\ emitted = Current.left
      BY <2>1 DEF Stuck
    <3> QED BY <1>0, <2>1, <2>2, <3>1, CurrentTyped DEF Exhausted
  <2>5. CASE Exhausted(emitted + StoredTake)
    <3>1. Advance /\ pc' = "fill"
      BY <1>6, <2>5 DEF EmitStored, StoredTake, Filling
    <3>2. comp' # 0 /\ Covered' <= sent + Len(out) + StoredTake
      BY <1>0, <1>5, <2>1, <2>2, <2>5, <3>1, CoveredByAdvance DEF Exhausted
    <3>3. sent' = blocksSent' * BlockBytes /\ sent' < Total(cap')
      BY <1>5, <2>1, <2>4, <2>5
    <3>4. Covered' <= sent' + Len(out')
      BY <1>0, <2>1, <2>2, <2>3, <3>2
    <3> QED BY <1>5, <2>1, <3>1, <3>2, <3>3, <3>4 DEF BlocksCounted
  <2>6. CASE ~ Exhausted(emitted + StoredTake)
    <3>1. /\ emitted' = emitted + StoredTake /\ comp' = comp
          /\ pc' = IF StoredTake = 0 THEN "send" ELSE "fill"
      BY <1>6, <2>6 DEF EmitStored, StoredTake
    <3>2. Covered' <= sent' + Len(out')
      <4>1. Covered \in Nat /\ Covered' = Covered + StoredTake
        BY <1>0, <2>1, <2>2, <3>1, CoveredByEmission
      <4> QED BY <1>0, <1>5, <2>1, <2>2, <2>3, <4>1
    <3>3. StoredTake = 0 => Stuck'
      <4> SUFFICES ASSUME StoredTake = 0 PROVE Stuck'
        OBVIOUS
      <4>1. emitted < Current.declared /\ emitted = Current.left
        BY <1>0, <2>1, <2>2, <2>6, CurrentTyped DEF Exhausted
      <4>2. emitted' = emitted /\ Current' = Current
        BY <1>0, <2>1, <3>1 DEF Current
      <4> QED BY <2>1, <3>1, <4>1, <4>2 DEF Stuck
    <3>4. Sofar'
      BY <1>5, <2>1, <2>3, <2>4, <3>3
    <3>5. comp' # 0 /\ Fits(Total(cap'))
      BY <1>5, <2>1, <3>1
    <3> QED BY <3>1, <3>2, <3>3, <3>4, <3>5 DEF BlocksCounted
  <2> QED BY <2>5, <2>6
<1>7. CASE Pump
  <2>1. /\ Streaming /\ comp \in DOMAIN cap /\ Current.method = "deflate" /\ ~ ended
        /\ cap' = cap /\ comp' = comp /\ emitted' = emitted /\ sent' = sent /\ out' = out
        /\ blocksSent' = blocksSent /\ pc' = pc /\ pc = "fill"
    BY <1>7 DEF Pump, Pumping, Filling, Streaming, loader
  <2>2. ~ Stuck
    BY <2>1 DEF Stuck
  <2>3. Covered' = Covered
    BY <2>1 DEF Covered
  <2> QED BY <1>5, <2>1, <2>2, <2>3 DEF BlocksCounted
<1>8. CASE CopyOut
  <2>1. /\ Streaming /\ comp \in DOMAIN cap /\ Current.method = "deflate" /\ Pending > 0 /\ pc' = "fill"
        /\ cap' = cap /\ comp' = comp /\ emitted' = emitted + CopyLength /\ sent' = sent
        /\ blocksSent' = blocksSent
        /\ out' = out \o [i \in 1 .. CopyLength |-> ring[(emitted % Window) + i - 1]]
    BY <1>8 DEF CopyOut, Filling, Streaming
  <2>2. CopyLength \in Nat /\ Len(out') = Len(out) + CopyLength
    <3> DEFINE from == emitted % Window
               bytes == [i \in 1 .. CopyLength |-> ring[from + i - 1]]
    <3>1. CopyLength \in Nat /\ from \in 0 .. Window - 1 /\ from + CopyLength <= Window
      BY <1>0, <1>8, CopyBounds DEF CopyOut
    <3>2. from \in Nat
      BY <3>1, Sizes
    <3>3. bytes \in Seq(Place) /\ Len(bytes) = CopyLength
      <4> HIDE DEF from
      <4> QED BY <1>0, <3>1, <3>2, InflatedBytes
    <3>4. out' = out \o bytes
      BY <2>1
    <3> HIDE DEF bytes, from
    <3>5. Len(out \o bytes) = Len(out) + Len(bytes)
      BY <1>0, <3>3, ConcatProperties
    <3> QED BY <3>1, <3>3, <3>4, <3>5
  <2>3. ~ Stuck
    BY <2>1 DEF Stuck
  <2>4. Covered \in Nat /\ Covered' = Covered + CopyLength
    BY <1>0, <2>1, <2>2, CoveredByEmission
  <2>5. Covered' <= sent' + Len(out')
    BY <1>0, <1>5, <2>1, <2>2, <2>4
  <2>6. /\ Fits(Total(cap')) /\ comp' # 0 /\ pc' = "fill"
        /\ sent' = blocksSent' * BlockBytes /\ sent' < Total(cap')
    BY <1>5, <2>1, <2>3
  <2> QED BY <2>5, <2>6 DEF BlocksCounted
<1>9. CASE DeflateReturns
  <2>1. /\ Streaming /\ comp \in DOMAIN cap /\ Current.method = "deflate" /\ started /\ ReturnsNow
        /\ cap' = cap /\ sent' = sent /\ blocksSent' = blocksSent /\ out' = out
    BY <1>9 DEF DeflateReturns, Streaming, loader
  <2>2. CASE Exhausted(emitted)
    <3>1. Advance /\ pc' = "fill"
      BY <1>9, <2>2 DEF DeflateReturns
    <3>2. ~ Stuck
      BY <1>0, <2>1, <2>2, CurrentTyped DEF Stuck, Exhausted
    <3>3. comp' # 0 /\ Covered' <= sent + Len(out) + 0
      <4>1. Current.declared <= emitted + 0
        BY <1>0, <2>1, <2>2, CurrentTyped DEF Exhausted
      <4> QED BY <1>0, <1>5, <2>1, <3>1, <4>1, CoveredByAdvance
    <3>4. Covered' <= sent' + Len(out')
      BY <1>0, <2>1, <3>3
    <3> QED BY <1>5, <2>1, <3>1, <3>2, <3>3, <3>4 DEF BlocksCounted
  <2>3. CASE ~ Exhausted(emitted)
    <3>1. UNCHANGED streamer /\ pc' = "send"
      BY <1>9, <2>3 DEF DeflateReturns
    <3>2. /\ comp' = comp /\ emitted' = emitted /\ produced' = produced /\ ended' = ended
          /\ started' = started
      BY <3>1 DEF streamer
    <3>3. Covered' = Covered /\ Stuck' = Stuck
      BY <2>1, <3>2 DEF Covered, Stuck, Pending, Current
    <3>4. Len(out) = BlockBytes \/ Stuck
      <4>1. CASE Room = 0
        BY <1>0, <4>1, CurrentTyped, Sizes
      <4>2. CASE ended /\ Pending = 0
        <5>1. emitted < Current.declared
          BY <1>0, <2>1, <2>3, CurrentTyped DEF Exhausted
        <5> QED BY <2>1, <4>2, <5>1 DEF Stuck
      <4> QED BY <2>1, <4>1, <4>2 DEF ReturnsNow
    <3> QED BY <1>5, <2>1, <3>1, <3>2, <3>3, <3>4 DEF BlocksCounted
  <2> QED BY <2>2, <2>3
<1>10. ASSUME UNCHANGED <<cap, streamer, loader>>
       PROVE  /\ cap' = cap /\ comp' = comp /\ sent' = sent /\ out' = out /\ blocksSent' = blocksSent
              /\ Covered' = Covered /\ Stuck' = Stuck
  BY <1>10 DEF streamer, loader, Covered, Stuck, Pending, Current
<1>11. CASE BlockFilled
  <2>1. pc = "fill" /\ comp > 0 /\ pc' = "send" /\ UNCHANGED <<cap, streamer, loader>>
    BY <1>11 DEF BlockFilled
  <2>2. comp > Len(cap) \/ Len(out) = BlockBytes
    BY <1>0, <1>11, CurrentTyped, Sizes DEF BlockFilled
  <2> QED BY <1>0, <1>10, <2>1, <2>2 DEF BlocksCounted, Streaming
<1>12. CASE BlockAccepted
  <2>1. /\ pc = "send" /\ out # <<>> /\ sent' = sent + Len(out) /\ out' = <<>> /\ cap' = cap
        /\ blocksSent' = blocksSent + 1 /\ UNCHANGED streamer
    BY <1>12 DEF BlockAccepted
  <2>2. CASE IsLast(sent')
    BY <1>1, <1>12, <2>2 DEF BlockAccepted, Finish
  <2>3. CASE ~ IsLast(sent')
    <3>1. pc' = "fill"
      BY <1>12, <2>3 DEF BlockAccepted
    <3>2. sent' < Total(cap)
      BY <1>0, <2>1, <2>3 DEF IsLast
    <3>3. /\ comp > 0 /\ Fits(Total(cap)) /\ Covered <= sent + Len(out)
          /\ sent = blocksSent * BlockBytes
          /\ Len(out) = BlockBytes \/ comp > Len(cap) \/ Stuck
      <4>1. comp # 0 => comp > 0
        BY CurrentTyped, <1>0
      <4>2. Len(out) = BlockBytes \/ comp > Len(cap) \/ Stuck
        BY <1>0, <2>1 DEF BlocksCounted, Streaming
      <4>3. comp # 0 /\ Fits(Total(cap)) /\ sent = blocksSent * BlockBytes
        BY <1>0, <2>1 DEF BlocksCounted, Streaming
      <4>4. Covered <= sent + Len(out)
        BY <1>0, <2>1, <4>1, <4>3 DEF BlocksCounted, Streaming
      <4> QED BY <4>1, <4>2, <4>3, <4>4
    <3>4. ~ (comp > Len(cap))
      BY <1>0, <2>1, <3>2, <3>3, CoveredAtTheEnd
    <3>5. comp' = comp /\ Covered' = Covered /\ Stuck' = Stuck
      BY <2>1 DEF streamer, Covered, Stuck, Pending, Current
    <3>6. Len(out) = BlockBytes => sent' = blocksSent' * BlockBytes
      BY <1>0, <2>1, <3>3, Sizes
    <3>7. Covered' <= sent' + Len(out')
      BY <1>0, <2>1, <3>3, <3>5
    <3> QED BY <2>1, <3>1, <3>2, <3>3, <3>4, <3>5, <3>6, <3>7 DEF BlocksCounted
  <2> QED BY <2>2, <2>3
<1>13. CASE UNCHANGED vars
  <2>1. pc' = pc /\ UNCHANGED <<cap, streamer, loader>>
    BY <1>13 DEF vars
  <2> QED BY <1>0, <1>10, <2>1 DEF BlocksCounted, Streaming
<1> QED BY <1>2, <1>3, <1>4, <1>6, <1>7, <1>8, <1>9, <1>11, <1>12, <1>13 DEF Next, LoadNext

------------------------------------------------------------------------------
(***************************************************************************)
(* A well-formed CAP                                                       *)
(***************************************************************************)

\* A component's rank is that of its name.
LEMMA RankOfName ==
  ASSUME NEW path
  PROVE  /\ Last(path) = "Header" => component_index(path) = IDX_HEADER
         /\ component_index(path) \in DOMAIN COMPONENT_NAMES =>
              Last(path) = COMPONENT_NAMES[component_index(path)]
<1>1. DOMAIN COMPONENT_NAMES = 1 .. 11 /\ COMPONENT_NAMES[1] = "Header"
  BY DEF COMPONENT_NAMES
<1>2. ASSUME Last(path) \in Range(COMPONENT_NAMES)
      PROVE  /\ component_index(path) \in DOMAIN COMPONENT_NAMES
             /\ COMPONENT_NAMES[component_index(path)] = Last(path)
  <2>1. \E r \in DOMAIN COMPONENT_NAMES : COMPONENT_NAMES[r] = Last(path)
    BY <1>2 DEF Range
  <2>2. component_index(path) = CHOOSE r \in DOMAIN COMPONENT_NAMES : COMPONENT_NAMES[r] = Last(path)
    BY <1>2 DEF component_index, Index
  <2> QED BY <2>1, <2>2
<1>3. Last(path) \notin Range(COMPONENT_NAMES) => component_index(path) = 0
  BY DEF component_index, Index
<1>4. ASSUME Last(path) = "Header" PROVE component_index(path) = IDX_HEADER
  <2>1. Last(path) \in Range(COMPONENT_NAMES)
    BY <1>1, <1>4 DEF Range
  <2>2. \A r \in 1 .. 11 : COMPONENT_NAMES[r] = "Header" => r = 1
    BY DEF COMPONENT_NAMES
  <2> QED BY <1>1, <1>2, <1>4, <2>1, <2>2 DEF IDX_HEADER
<1> QED BY <1>1, <1>2, <1>3, <1>4

\* Every component the walk finds is an entry of the directory.
LEMMA WalkFindsEntries ==
  ASSUME NEW z \in Archive, NEW n \in DOMAIN walk_zip(z)
  PROVE  \E k \in DOMAIN z.entries : walk_zip(z)[n] = CompLoc(z, k)
<1> DEFINE top == Len(COMPONENT_NAMES)
           found == WalkUpTo(z)
           AreEntries(c) == \A m \in 1 .. Len(c) : \E k \in DOMAIN z.entries : c[m] = CompLoc(z, k)
           T == {r \in Ranks : AreEntries(found[r])}
<1>0. top \in Nat /\ Ranks = 0 .. top
  BY DEF COMPONENT_NAMES, Ranks
<1>1. 0 \in T
  BY <1>0, WalkTyped
<1>2. ASSUME NEW r \in 1 .. top, r - 1 \in T PROVE r \in T
  <2>1. r \in Ranks /\ r - 1 \in Ranks
    BY <1>0
  <2>2. found[r - 1] \in Seq(Location) /\ AreEntries(found[r - 1])
    BY <1>2, <2>1, WalkTyped
  <2>3. CASE Named(z, r) = {}
    BY <2>1, <2>2, <2>3, WalkTyped
  <2>4. CASE Named(z, r) # {}
    <3> DEFINE k == FirstNamed(z, r)
    <3>1. k \in DOMAIN z.entries /\ CompLoc(z, k) \in Location
      BY <2>4, FirstIsNamed, CompLocIsLocation
    <3>2. found[r] = Append(found[r - 1], CompLoc(z, k))
      BY <2>4, WalkTyped
    <3> HIDE DEF k, found
    <3>3. AreEntries(found[r])
      BY <2>2, <3>1, <3>2, AppendProperties
    <3> QED BY <2>1, <3>3
  <2> QED BY <2>3, <2>4
<1> HIDE DEF T
<1>3. 0 .. top \subseteq T
  BY <1>0, <1>1, <1>2, CountingUp
<1>4. AreEntries(walk_zip(z))
  BY <1>0, <1>3 DEF T, walk_zip
<1> QED BY <1>4, WalkIsTable

\* What the directory of a well-formed CAP says of a component is so.
LEMMA WellFormedEntry ==
  ASSUME NEW z \in Archive, WellFormed(z), NEW k \in DOMAIN z.entries
  PROVE  LET loc == CompLoc(z, k)
         IN  /\ loc \in Location /\ loc.entry = k /\ loc.own = z.entries[k].file.own
             /\ loc.own \in Nat /\ loc.left \in Nat
             /\ loc.method \in {"stored", "deflate"} /\ loc.declared = loc.own
             /\ loc.sound = loc.own /\ loc.own <= loc.left
<1> DEFINE file == z.entries[k].file
<1>1. /\ file.method # "other" /\ file.declared = file.own /\ file.sound = file.own
      /\ file.own <= file.left
  BY DEF WellFormed
<1>2. CompLoc(z, k) \in Location
  BY CompLocIsLocation
<1>3. CompLoc(z, k) = [entry |-> k, method |-> file.method, declared |-> file.declared,
                       own |-> file.own, sound |-> file.sound, left |-> file.left]
  BY DEF CompLoc
<1> HIDE DEF file
<1> QED BY <1>1, <1>2, <1>3 DEF Location, file

\* So the table tells each component of a well-formed CAP as it is.
LEMMA WellFormedTable ==
  ASSUME NEW z \in Archive, WellFormed(z), NEW n \in DOMAIN walk_zip(z)
  PROVE  LET loc == walk_zip(z)[n]
         IN  /\ loc.method \in {"stored", "deflate"} /\ loc.declared = loc.own
             /\ loc.own \in Nat /\ loc.left \in Nat
             /\ loc.sound = loc.own /\ loc.own <= loc.left
<1>1. PICK k \in DOMAIN z.entries : walk_zip(z)[n] = CompLoc(z, k)
  BY WalkFindsEntries
<1> QED BY <1>1, WellFormedEntry

\* A well-formed CAP parses: its walk finds a Header, and each of the components that
\* are read fits the window and what the parser has room for.
LEMMA WellFormedParses ==
  ASSUME NEW z \in Archive, WellFormed(z)
  PROVE  parse(z) = "none"
<1>1. WalkError(z) = "none"
  <2>1. ASSUME NEW loc \in Range(walk_zip(z)) PROVE z.entries[loc.entry].lfh
    <3>1. PICK n \in DOMAIN walk_zip(z) : loc = walk_zip(z)[n]
      BY <2>1 DEF Range
    <3>2. PICK k \in DOMAIN z.entries : walk_zip(z)[n] = CompLoc(z, k)
      BY WalkFindsEntries
    <3>3. loc.entry = k
      BY <3>1, <3>2 DEF CompLoc
    <3> QED BY <3>3 DEF WellFormed
  <2>2. z.eocd /\ \A k \in DOMAIN z.entries : z.entries[k].cdh
    BY DEF WellFormed
  <2> QED BY <2>1, <2>2 DEF WalkError
<1>2. ASSUME NEW r \in Metadata PROVE MetadataError(z, r) = "none"
  <2>1. r \in DOMAIN COMPONENT_NAMES /\ r \in {IDX_HEADER, IDX_IMPORT, IDX_APPLET}
    BY DEF Metadata, COMPONENT_NAMES, IDX_HEADER, IDX_IMPORT, IDX_APPLET
  <2>2. CASE Named(z, r) = {}
    <3>1. PICK k \in DOMAIN z.entries : Last(z.entries[k].path) = "Header"
      BY DEF WellFormed
    <3>2. k \in Named(z, IDX_HEADER)
      BY <3>1, RankOfName DEF Named
    <3>3. r # IDX_HEADER
      BY <2>2, <3>2
    <3> QED BY <2>2, <3>3 DEF MetadataError
  <2>3. CASE Named(z, r) # {}
    <3> DEFINE k == FirstNamed(z, r)
               loc == CompLoc(z, k)
    <3>1. k \in DOMAIN z.entries /\ component_index(z.entries[k].path) = r
      BY <2>3, FirstIsNamed DEF Named
    <3>2. Last(z.entries[k].path) = COMPONENT_NAMES[r]
      BY <2>1, <3>1, RankOfName
    <3> DEFINE name == Last(z.entries[k].path)
    <3>3. \/ r = IDX_HEADER /\ name = "Header"
          \/ r = IDX_IMPORT /\ name = "Import"
          \/ r = IDX_APPLET /\ name = "Applet"
      <4>1. /\ COMPONENT_NAMES[1] = "Header" /\ COMPONENT_NAMES[3] = "Import"
            /\ COMPONENT_NAMES[4] = "Applet"
        BY DEF COMPONENT_NAMES
      <4>2. r = 1 \/ r = 3 \/ r = 4
        BY <2>1 DEF IDX_HEADER, IDX_IMPORT, IDX_APPLET
      <4>3. name = COMPONENT_NAMES[r]
        BY <3>2
      <4> HIDE DEF name
      <4> QED BY <4>1, <4>2, <4>3 DEF IDX_HEADER, IDX_IMPORT, IDX_APPLET
    <3>4. /\ z.entries[k].legible /\ z.entries[k].file.own <= Window
          /\ z.entries[k].aids <= CASE name = "Header" -> 1
                                    [] name = "Import" -> MaxCapImports
                                    [] name = "Applet" -> MaxCapApplets
                                    [] OTHER -> z.entries[k].aids
      BY <3>1, <3>3 DEF WellFormed
    <3>5. z.entries[k].aids <= Capacity(r)
      BY <3>3, <3>4 DEF Capacity, IDX_HEADER, IDX_IMPORT, IDX_APPLET
    <3>6. z.entries[k].aids \in Nat /\ Capacity(r) \in Nat
      <4>1. z.entries[k] \in Entry
        BY <3>1 DEF Archive
      <4>2. z.entries[k].aids \in Nat
        BY <4>1 DEF Entry
      <4>3. Capacity(r) \in {1, MaxCapImports, MaxCapApplets}
        BY <2>1 DEF Capacity, IDX_HEADER, IDX_IMPORT, IDX_APPLET
      <4> QED BY <4>2, <4>3, CapLimitsAssumption
    <3>7. /\ loc.own = z.entries[k].file.own /\ loc.method \in {"stored", "deflate"}
          /\ loc.own \in Nat /\ loc.left \in Nat /\ loc.sound = loc.own /\ loc.own <= loc.left
      BY <3>1, WellFormedEntry
    <3> HIDE DEF k, loc
    <3>8. ReadError(loc) = "none"
      BY <3>4, <3>7, Sizes DEF ReadError
    <3>9. ~ (~ z.entries[k].legible \/ z.entries[k].aids > Capacity(r))
      BY <3>4, <3>5, <3>6
    <3> QED BY <2>3, <3>8, <3>9 DEF MetadataError, k, loc
  <2> QED BY <2>2, <2>3
<1>3. {r \in Metadata : MetadataError(z, r) # "none"} = {}
  BY <1>2
<1> QED BY <1>1, <1>3 DEF parse

------------------------------------------------------------------------------
(***************************************************************************)
(* The load file                                                           *)
(***************************************************************************)

\* The load file up to its m-th name, as a function of its own.
FollowsUpTo(g, m) ==
  g = [r \in 0 .. m |-> IF r = 0 THEN [i \in 1 .. HeaderBytes |-> <<0, i>>]
                        ELSE IF Named(zip, r) = {} THEN g[r - 1]
                        ELSE g[r - 1] \o BytesOf(Min(Named(zip, r)))]

\* The load file is defined, up to each of its components.
LEMMA FileDefined ==
  FollowsUpTo(FileUpTo, Len(COMPONENT_NAMES))
<1> DEFINE T == {m \in Nat : \E g : FollowsUpTo(g, m)}
           top == Len(COMPONENT_NAMES)
           header == [i \in 1 .. HeaderBytes |-> <<0, i>>]
           Further(f, r) == IF Named(zip, r) = {} THEN f ELSE f \o BytesOf(Min(Named(zip, r)))
<1>0. top \in Nat
  BY DEF COMPONENT_NAMES
<1>1. 0 \in T
  <2>1. FollowsUpTo([r \in 0 .. 0 |-> header], 0)
    <3>1. [r \in 0 .. 0 |-> header] =
            [r \in 0 .. 0 |-> IF r = 0 THEN header ELSE Further([q \in 0 .. 0 |-> header][r - 1], r)]
      <4> HIDE DEF header, Further
      <4> QED OBVIOUS
    <3> QED BY <3>1 DEF FollowsUpTo
  <2> QED BY <2>1
<1>2. ASSUME NEW m \in 1 .. top, m - 1 \in T PROVE m \in T
  <2>1. PICK g : FollowsUpTo(g, m - 1)
    BY <1>2
  <2> DEFINE h == [r \in 0 .. m |-> IF r = m THEN Further(g[m - 1], m) ELSE g[r]]
  <2>2. g = [r \in 0 .. m - 1 |-> IF r = 0 THEN header ELSE Further(g[r - 1], r)]
    BY <2>1 DEF FollowsUpTo
  <2>3. h = [r \in 0 .. m |-> IF r = 0 THEN header ELSE Further(h[r - 1], r)]
    <3> HIDE DEF Further, header
    <3>1. \A r \in 0 .. m - 1 : g[r] = IF r = 0 THEN header ELSE Further(g[r - 1], r)
      BY <2>2
    <3>2. \A r \in 0 .. m : h[r] = IF r = 0 THEN header ELSE Further(h[r - 1], r)
      BY <1>0, <3>1
    <3>3. h = [r \in 0 .. m |-> h[r]]
      OBVIOUS
    <3> HIDE DEF h
    <3> QED BY <3>2, <3>3
  <2>4. FollowsUpTo(h, m)
    <3> HIDE DEF h
    <3> QED BY <2>3 DEF FollowsUpTo
  <2> QED BY <1>0, <2>4
<1>3. top \in T
  <2> HIDE DEF T, top
  <2>1. 0 .. top \subseteq T
    BY <1>0, <1>1, <1>2, CountingUp
  <2> QED BY <1>0, <2>1
<1>4. FileUpTo = CHOOSE g : FollowsUpTo(g, top)
  BY DEF FileUpTo, FollowsUpTo
<1> QED BY <1>3, <1>4

\* The load file has as many bytes as the table declares, component by component.
LEMMA FileGrows ==
  /\ FileUpTo[0] = [i \in 1 .. HeaderBytes |-> <<0, i>>]
  /\ \A r \in 1 .. Len(COMPONENT_NAMES) :
       FileUpTo[r] = IF Named(zip, r) = {} THEN FileUpTo[r - 1]
                     ELSE FileUpTo[r - 1] \o BytesOf(FirstNamed(zip, r))
<1> DEFINE top == Len(COMPONENT_NAMES)
           header == [i \in 1 .. HeaderBytes |-> <<0, i>>]
           Further(f, r) == IF Named(zip, r) = {} THEN f ELSE f \o BytesOf(FirstNamed(zip, r))
<1>0. top \in Nat
  BY DEF COMPONENT_NAMES
<1>1. FileUpTo = [r \in 0 .. top |-> IF r = 0 THEN header ELSE Further(FileUpTo[r - 1], r)]
  BY FileDefined DEF FollowsUpTo, FirstNamed
<1> HIDE DEF header, top, Further
<1>2. \A r \in 0 .. top : FileUpTo[r] = IF r = 0 THEN header ELSE Further(FileUpTo[r - 1], r)
  BY <1>1
<1>3. FileUpTo[0] = header /\ \A r \in 1 .. top : FileUpTo[r] = Further(FileUpTo[r - 1], r)
  BY <1>0, <1>2
<1> QED BY <1>3 DEF header, top, Further

\* Where a table's components are in a file: the header, then each after those before.
Start(c, n) == HeaderBytes + DeclaredUpTo(c)[n - 1]
\* A file that is the header followed by the table's components.
LaidOut(f, c) ==
  /\ f \in Seq(Place) /\ Len(f) = Total(c)
  /\ \A i \in 1 .. HeaderBytes : f[i] = <<0, i>>
  /\ \A n \in 1 .. Len(c) : /\ Start(c, n) + c[n].declared <= Len(f)
                            /\ \A i \in 1 .. c[n].declared : f[Start(c, n) + i] = <<c[n].entry, i>>

\* A component more is its bytes more, at the end.
LEMMA LaidOutFurther ==
  ASSUME zip \in Archive, WellFormed(zip), NEW k \in DOMAIN zip.entries,
         NEW f, NEW c \in Seq(Location), LaidOut(f, c)
  PROVE  LaidOut(f \o BytesOf(k), Append(c, CompLoc(zip, k)))
<1> DEFINE loc == CompLoc(zip, k)
           d == Append(c, loc)
           bytes == BytesOf(k)
           g == f \o bytes
<1>1. loc \in Location /\ loc.entry = k /\ loc.declared \in Nat
      /\ zip.entries[k].file.own = loc.declared /\ k \in Nat
  <2>1. k \in Nat
    BY DEF Archive
  <2> QED BY <2>1, WellFormedEntry
<1>2. bytes \in Seq(Place) /\ Len(bytes) = loc.declared /\ \A i \in 1 .. loc.declared : bytes[i] = <<k, i>>
  <2>1. \A i \in 1 .. loc.declared : <<k, i>> \in Place
    BY <1>1 DEF Place
  <2>2. bytes = [i \in 1 .. loc.declared |-> <<k, i>>]
    BY <1>1 DEF BytesOf
  <2> HIDE DEF loc, bytes
  <2> QED BY <1>1, <2>1, <2>2
<1> HIDE DEF loc, bytes
<1>3. /\ d \in Seq(Location) /\ Len(d) = Len(c) + 1 /\ Len(c) \in Nat /\ d[Len(c) + 1] = loc
      /\ \A n \in 1 .. Len(c) : d[n] = c[n]
  BY <1>1, AppendProperties
<1>4. /\ f \in Seq(Place) /\ Len(f) \in Nat /\ g \in Seq(Place) /\ Len(g) = Len(f) + loc.declared
      /\ \A i \in 1 .. Len(f) : g[i] = f[i]
      /\ \A i \in 1 .. loc.declared : g[Len(f) + i] = <<k, i>>
  <2>1. f \in Seq(Place) /\ Len(f) \in Nat
    BY DEF LaidOut
  <2>2. /\ g \in Seq(Place) /\ Len(g) = Len(f) + Len(bytes)
        /\ \A i \in 1 .. Len(f) + Len(bytes) : g[i] = IF i <= Len(f) THEN f[i] ELSE bytes[i - Len(f)]
    BY <1>2, <2>1, ConcatProperties
  <2>3. \A i \in 1 .. Len(f) : g[i] = f[i]
    BY <1>1, <1>2, <2>1, <2>2
  <2>4. ASSUME NEW i \in 1 .. loc.declared PROVE g[Len(f) + i] = <<k, i>>
    <3>1. Len(f) + i \in 1 .. Len(f) + Len(bytes) /\ ~ (Len(f) + i <= Len(f)) /\ (Len(f) + i) - Len(f) = i
      BY <1>1, <1>2, <2>1
    <3> QED BY <1>2, <2>2, <3>1
  <2> QED BY <1>2, <2>1, <2>2, <2>3, <2>4
<1>5. \A n \in 1 .. Len(c) + 1 : Start(d, n) = Start(c, n) /\ Start(c, n) \in Nat
  <2>1. ASSUME NEW n \in 1 .. Len(c) + 1 PROVE Start(d, n) = Start(c, n) /\ Start(c, n) \in Nat
    <3>1. n - 1 \in 0 .. Len(c)
      BY <1>3
    <3>2. DeclaredUpTo(d)[n - 1] = DeclaredUpTo(c)[n - 1] /\ DeclaredUpTo(c)[n - 1] \in Nat
      BY <1>1, <3>1, SumOfAppend, SumGrows
    <3> QED BY <3>2, Sizes DEF Start
  <2> QED BY <2>1
<1>6. Start(c, Len(c) + 1) = Len(f)
  <2>1. (Len(c) + 1) - 1 = Len(c)
    BY <1>3
  <2> QED BY <2>1, TotalIsNat DEF Start, LaidOut
<1>7. Len(g) = Total(d)
  <2>1. DeclaredUpTo(d)[Len(c) + 1] = DeclaredUpTo(d)[Len(c)] + loc.declared
    <3>1. Len(c) + 1 \in 1 .. Len(d) /\ (Len(c) + 1) - 1 = Len(c)
      BY <1>3
    <3> HIDE DEF d
    <3> QED BY <1>3, <3>1, SumGrows
  <2>2. DeclaredUpTo(d)[Len(c)] = DeclaredUpTo(c)[Len(c)] /\ DeclaredUpTo(c)[Len(c)] \in Nat
    <3>1. Len(c) \in 0 .. Len(c)
      BY <1>3
    <3> QED BY <1>1, <3>1, SumOfAppend, SumGrows
  <2>3. Len(f) = HeaderBytes + DeclaredUpTo(c)[Len(c)]
    BY TotalIsNat DEF LaidOut
  <2>4. Total(d) = HeaderBytes + DeclaredUpTo(d)[Len(c) + 1]
    <3> HIDE DEF d
    <3> QED BY <1>3 DEF Total
  <2> HIDE DEF d, g
  <2> QED BY <1>1, <1>4, <2>1, <2>2, <2>3, <2>4, Sizes
<1>8. \A i \in 1 .. HeaderBytes : g[i] = <<0, i>>
  <2>1. HeaderBytes <= Len(f)
    BY TotalIsNat DEF LaidOut
  <2>2. \A i \in 1 .. HeaderBytes : i \in 1 .. Len(f)
    BY <1>4, <2>1, Sizes
  <2> HIDE DEF g
  <2> QED BY <1>4, <2>2 DEF LaidOut
<1>9. ASSUME NEW n \in 1 .. Len(d)
      PROVE  /\ Start(d, n) + d[n].declared <= Len(g)
             /\ \A i \in 1 .. d[n].declared : g[Start(d, n) + i] = <<d[n].entry, i>>
  <2> HIDE DEF d, g
  <2>1. CASE n \in 1 .. Len(c)
    <3>1. /\ d[n] = c[n] /\ Start(d, n) = Start(c, n) /\ Start(c, n) \in Nat
          /\ c[n] \in Location /\ c[n].declared \in Nat
      <4>1. c[n] \in Location
        BY <2>1
      <4>2. n \in 1 .. Len(c) + 1
        BY <1>3, <2>1
      <4>3. c[n].declared \in Nat
        BY <4>1 DEF Location
      <4>4. d[n] = c[n]
        BY <1>3, <2>1, <4>2
      <4>5. Start(d, n) = Start(c, n) /\ Start(c, n) \in Nat
        BY <1>5, <4>2
      <4> QED BY <4>1, <4>3, <4>4, <4>5
    <3>2. Start(c, n) + c[n].declared <= Len(f)
      BY <2>1 DEF LaidOut
    <3>3. ASSUME NEW i \in 1 .. c[n].declared PROVE g[Start(c, n) + i] = <<c[n].entry, i>>
      <4>1. Start(c, n) + i \in 1 .. Len(f)
        BY <1>4, <3>1, <3>2
      <4>2. f[Start(c, n) + i] = <<c[n].entry, i>>
        BY <2>1 DEF LaidOut
      <4>3. g[Start(c, n) + i] = f[Start(c, n) + i]
        BY <1>4, <4>1
      <4> QED BY <4>2, <4>3
    <3>4. Len(f) <= Len(g)
      BY <1>1, <1>4
    <3>5. Start(c, n) + c[n].declared <= Len(g)
      <4>1. Len(f) \in Nat /\ Len(g) \in Nat
        BY <1>1, <1>4
      <4> QED BY <3>1, <3>2, <3>4, <4>1
    <3>6. Start(d, n) = Start(c, n) /\ d[n].declared = c[n].declared /\ d[n].entry = c[n].entry
      BY <3>1
    <3> QED BY <3>3, <3>5, <3>6
  <2>2. CASE n = Len(c) + 1
    <3>1. d[n] = loc /\ Start(d, n) = Len(f)
      <4>1. n \in 1 .. Len(c) + 1
        BY <1>3, <2>2
      <4> QED BY <1>3, <1>5, <1>6, <2>2, <4>1
    <3> QED BY <1>1, <1>4, <3>1
  <2> QED BY <1>3, <2>1, <2>2
<1> QED BY <1>4, <1>7, <1>8, <1>9 DEF LaidOut, loc, bytes

\* The load file of a well-formed CAP is what the walk found, as the table tells it.
LEMMA FileIsLaidOut ==
  ASSUME zip \in Archive, WellFormed(zip)
  PROVE  LaidOut(LoadFile, walk_zip(zip))
<1> DEFINE top == Len(COMPONENT_NAMES)
           found == WalkUpTo(zip)
           T == {r \in Ranks : LaidOut(FileUpTo[r], found[r])}
<1>0. top \in Nat /\ Ranks = 0 .. top
  BY DEF COMPONENT_NAMES, Ranks
<1>1. 0 \in T
  <2>1. found[0] = <<>> /\ FileUpTo[0] = [i \in 1 .. HeaderBytes |-> <<0, i>>]
    BY WalkTyped, FileGrows
  <2>2. Total(<<>>) = HeaderBytes
    <3>1. <<>> \in Seq(Location) /\ Len(<<>>) = 0
      OBVIOUS
    <3>2. Total(<<>>) = HeaderBytes + DeclaredUpTo(<<>>)[Len(<<>>)]
      BY DEF Total
    <3>3. DeclaredUpTo(<<>>)[0] = 0
      BY <3>1, SumGrows
    <3> QED BY <3>1, <3>2, <3>3, Sizes
  <2>3. LaidOut(FileUpTo[0], <<>>)
    <3> DEFINE header == FileUpTo[0]
    <3>1. header \in Seq(Place) /\ Len(header) = HeaderBytes /\ \A i \in 1 .. HeaderBytes : header[i] = <<0, i>>
      BY <2>1, HeaderBytesTyped
    <3> HIDE DEF header
    <3>2. LaidOut(header, <<>>)
      BY <2>2, <3>1 DEF LaidOut
    <3> QED BY <3>2 DEF header
  <2>4. 0 \in Ranks
    BY <1>0
  <2> QED BY <2>1, <2>3, <2>4
<1>2. ASSUME NEW r \in 1 .. top, r - 1 \in T PROVE r \in T
  <2>1. r \in Ranks /\ r - 1 \in Ranks
    BY <1>0
  <2>2. found[r - 1] \in Seq(Location) /\ LaidOut(FileUpTo[r - 1], found[r - 1])
    BY <1>2, <2>1, WalkTyped
  <2>3. CASE Named(zip, r) = {}
    <3>1. found[r] = found[r - 1] /\ FileUpTo[r] = FileUpTo[r - 1]
      BY <2>3, WalkTyped, FileGrows
    <3> QED BY <2>1, <2>2, <3>1
  <2>4. CASE Named(zip, r) # {}
    <3> DEFINE k == FirstNamed(zip, r)
    <3>1. k \in DOMAIN zip.entries
      BY <2>4, FirstIsNamed
    <3>2. found[r] = Append(found[r - 1], CompLoc(zip, k)) /\ FileUpTo[r] = FileUpTo[r - 1] \o BytesOf(k)
      BY <2>4, WalkTyped, FileGrows
    <3> HIDE DEF k, found
    <3>3. LaidOut(FileUpTo[r - 1] \o BytesOf(k), Append(found[r - 1], CompLoc(zip, k)))
      BY <2>2, <3>1, LaidOutFurther
    <3> QED BY <2>1, <3>2, <3>3
  <2> QED BY <2>3, <2>4
<1> HIDE DEF T
<1>3. 0 .. top \subseteq T
  BY <1>0, <1>1, <1>2, CountingUp
<1> QED BY <1>0, <1>3 DEF T, walk_zip, LoadFile

\* A prefix, position by position.
LEMMA PrefixPointwise ==
  ASSUME NEW s \in Seq(Place), NEW t \in Seq(Place)
  PROVE  IsPrefix(s, t) <=> Len(s) <= Len(t) /\ \A i \in 1 .. Len(s) : s[i] = t[i]
<1>0. Len(s) \in Nat /\ Len(t) \in Nat
  OBVIOUS
<1>1. SubSeq(s, 1, Len(s)) = s
  BY SubSeqFull
<1>2. ASSUME Len(s) <= Len(t)
      PROVE  /\ SubSeq(t, 1, Len(s)) \in Seq(Place) /\ Len(SubSeq(t, 1, Len(s))) = Len(s)
             /\ \A i \in 1 .. Len(s) : SubSeq(t, 1, Len(s))[i] = t[i]
  <2>1. \A i \in 1 .. Len(s) : t[i] \in Place
    BY <1>0, <1>2
  <2>2. /\ SubSeq(t, 1, Len(s)) \in Seq(Place)
        /\ Len(SubSeq(t, 1, Len(s))) = IF 1 <= Len(s) THEN Len(s) - 1 + 1 ELSE 0
        /\ \A i \in 1 .. Len(s) - 1 + 1 : SubSeq(t, 1, Len(s))[i] = t[1 + i - 1]
    BY <1>0, <2>1, SubSeqProperties
  <2> QED BY <1>0, <2>2
<1>3. ASSUME Len(s) <= Len(t), \A i \in 1 .. Len(s) : s[i] = t[i]
      PROVE  s = SubSeq(t, 1, Len(s))
  BY <1>2, <1>3, SeqEqual
<1> QED BY <1>1, <1>2, <1>3 DEF IsPrefix

\* What goes on as the whole does stays a prefix of it.
LEMMA PrefixGoesOn ==
  ASSUME NEW s \in Seq(Place), NEW u \in Seq(Place), NEW t \in Seq(Place), IsPrefix(s, t),
         Len(s) + Len(u) <= Len(t), \A i \in 1 .. Len(u) : u[i] = t[Len(s) + i]
  PROVE  IsPrefix(s \o u, t) /\ s \o u \in Seq(Place) /\ Len(s \o u) = Len(s) + Len(u)
<1>0. Len(s) \in Nat /\ Len(u) \in Nat
  OBVIOUS
<1>1. /\ s \o u \in Seq(Place) /\ Len(s \o u) = Len(s) + Len(u)
      /\ \A i \in 1 .. Len(s) + Len(u) : (s \o u)[i] = IF i <= Len(s) THEN s[i] ELSE u[i - Len(s)]
  BY ConcatProperties
<1>2. ASSUME NEW i \in 1 .. Len(s) + Len(u) PROVE (s \o u)[i] = t[i]
  <2>1. CASE i <= Len(s)
    BY <1>0, <1>1, <2>1, PrefixPointwise
  <2>2. CASE i > Len(s)
    <3>1. i - Len(s) \in 1 .. Len(u) /\ Len(s) + (i - Len(s)) = i
      BY <1>0, <2>2
    <3>2. u[i - Len(s)] = t[Len(s) + (i - Len(s))]
      BY <3>1
    <3> QED BY <1>0, <1>1, <2>2, <3>1, <3>2
  <2> QED BY <1>0, <2>1, <2>2
<1> HIDE DEF IsPrefix
<1> QED BY <1>1, <1>2, PrefixPointwise

\* What a prefix begins with is one.
LEMMA PrefixBegins ==
  ASSUME NEW s \in Seq(Place), NEW u \in Seq(Place), NEW t \in Seq(Place), IsPrefix(s \o u, t)
  PROVE  IsPrefix(s, t)
<1>1. /\ s \o u \in Seq(Place) /\ Len(s \o u) = Len(s) + Len(u) /\ Len(s) \in Nat /\ Len(u) \in Nat
      /\ \A i \in 1 .. Len(s) + Len(u) : (s \o u)[i] = IF i <= Len(s) THEN s[i] ELSE u[i - Len(s)]
  BY ConcatProperties
<1>2. Len(s) + Len(u) <= Len(t) /\ \A i \in 1 .. Len(s) + Len(u) : (s \o u)[i] = t[i]
  <2> DEFINE w == s \o u
  <2>1. w \in Seq(Place) /\ Len(w) = Len(s) + Len(u) /\ IsPrefix(w, t)
    BY <1>1
  <2> HIDE DEF w
  <2>2. Len(w) <= Len(t) /\ \A i \in 1 .. Len(w) : w[i] = t[i]
    BY <2>1, PrefixPointwise
  <2>3. Len(s) + Len(u) <= Len(t) /\ \A i \in 1 .. Len(s) + Len(u) : w[i] = t[i]
    BY <2>1, <2>2
  <2> QED BY <2>3 DEF w
<1>3. ASSUME NEW i \in 1 .. Len(s) PROVE s[i] = t[i]
  <2>1. i \in 1 .. Len(s) + Len(u) /\ i <= Len(s)
    BY <1>1
  <2> QED BY <1>1, <1>2, <2>1
<1>4. Len(s) <= Len(t)
  <2>1. Len(t) \in Nat
    OBVIOUS
  <2> QED BY <1>1, <1>2, <2>1
<1> QED BY <1>3, <1>4, PrefixPointwise

\* A prefix as long as the whole is the whole.
LEMMA WholePrefix ==
  ASSUME NEW s \in Seq(Place), NEW t \in Seq(Place), IsPrefix(s, t), Len(s) >= Len(t)
  PROVE  s = t
BY PrefixPointwise, SeqEqual

\* Nothing is a prefix of everything.
LEMMA EmptyPrefix ==
  ASSUME NEW t \in Seq(Place)
  PROVE  IsPrefix(<<>>, t)
<1> DEFINE s == <<>>
<1>1. s \in Seq(Place) /\ Len(s) = 0 /\ Len(t) \in Nat
  OBVIOUS
<1>2. IsPrefix(s, t)
  <2> HIDE DEF s
  <2>1. Len(s) <= Len(t) /\ \A i \in 1 .. Len(s) : s[i] = t[i]
    BY <1>1
  <2> QED BY <1>1, <2>1, PrefixPointwise
<1> QED BY <1>2

------------------------------------------------------------------------------
(***************************************************************************)
(* What the card is given                                                  *)
(***************************************************************************)

\* The card has a beginning of the load file, and the whole when it says so.
CardHasBeginning ==
  IsPrefix(card.file, LoadFile) /\ (card.state = "loaded" => card.file = LoadFile)

(***************************************************************************)
(* During a load the card has the blocks sent, all of them full, expects   *)
(* the number the next will have, and the block being filled goes on where *)
(* they end.                                                               *)
(***************************************************************************)
BlocksGoOn ==
  Streaming =>
    /\ cap = walk_zip(zip) /\ card.state = "loading" /\ card.next = blockNo
    /\ sent = Len(card.file) /\ sent = blocksSent * BlockBytes /\ sent < Total(cap)
    /\ IsPrefix(card.file \o out, LoadFile)
    /\ comp > 0 => sent + Len(out) = Covered
    /\ pc = "send" => out # <<>>

\* What the call answers, and what it has then done.
Reported ==
  /\ pc = "install" => cap = walk_zip(zip)
  /\ pc # "done" => report = "pending"
  /\ report # "cap"
  /\ report \in {"ok", "exists"} => card.state = "loaded"
  /\ report = "ok" => blocksSent = (Total(cap) + BlockBytes - 1) \div BlockBytes

\* And what holds besides when the CAP is well formed.
TransferKept == WellFormed(zip) => CardHasBeginning /\ BlocksGoOn /\ Reported

\* The load file is the CAP's, which does not change.
LEMMA FileStays ==
  ASSUME zip' = zip
  PROVE  LoadFile' = LoadFile /\ WellFormed(zip)' = WellFormed(zip) /\ walk_zip(zip)' = walk_zip(zip)
BY DEF LoadFile, FileUpTo, BytesOf

\* A component of a well-formed CAP is as its directory says, and so is its place.
LEMMA CurrentHonest ==
  ASSUME TypeOK, WellFormed(zip), cap = walk_zip(zip), comp \in DOMAIN cap
  PROVE  /\ Current.method \in {"stored", "deflate"} /\ Current.declared = Current.own
         /\ Current.own \in Nat /\ Current.left \in Nat
         /\ Current.sound = Current.own /\ Current.own <= Current.left
         /\ Covered \in Nat /\ Covered = Start(cap, comp) + emitted /\ Start(cap, comp) \in Nat
<1>0. zip \in Archive /\ cap \in Seq(Location) /\ emitted \in Nat
  BY Zenon DEF TypeOK
<1>1. comp \in DOMAIN walk_zip(zip) /\ Current = walk_zip(zip)[comp]
  BY DEF Current
<1>2. DeclaredUpTo(cap)[comp - 1] \in Nat
  <2>1. comp - 1 \in 0 .. Len(cap)
    BY <1>0, CurrentTyped
  <2> QED BY <1>0, <2>1, SumGrows
<1>3. Covered \in Nat /\ Covered = Start(cap, comp) + emitted /\ Start(cap, comp) \in Nat
  BY <1>0, <1>2, Sizes DEF Covered, Start
<1> QED BY <1>0, <1>1, <1>3, WellFormedTable

\* So it never ends early, and the decompressor never fails on it.
LEMMA NeverStuck ==
  ASSUME TypeOK, StreamerKept, WellFormed(zip), cap = walk_zip(zip)
  PROVE  ~ Stuck /\ (Pumping => CanInflate)
<1>0. emitted \in Nat /\ produced \in Nat
  BY Zenon DEF TypeOK
<1>1. ~ Stuck
  <2> SUFFICES ASSUME Stuck PROVE FALSE
    OBVIOUS
  <2>1. comp \in DOMAIN cap /\ emitted < Current.declared
    BY DEF Stuck
  <2>2. Current.declared = Current.own /\ Current.own <= Current.left /\ Current.own \in Nat /\ Current.left \in Nat
    BY <2>1, CurrentHonest
  <2>3. CASE Current.method = "deflate"
    BY <1>0, <2>1, <2>2, <2>3 DEF Stuck, StreamerKept, Inflating, Pending
  <2>4. CASE Current.method # "deflate"
    BY <1>0, <2>1, <2>2, <2>4 DEF Stuck
  <2> QED BY <2>3, <2>4
<1>2. ASSUME Pumping PROVE CanInflate
  <2>1. comp \in DOMAIN cap /\ Current.method = "deflate"
    BY <1>2 DEF Pumping, Filling
  <2>2. Reach <= Current.sound
    BY <1>2, <2>1, PumpBounds, CurrentHonest
  <2>3. started => inflating = comp
    BY <2>1 DEF StreamerKept, Inflating
  <2>4. Decompressor \in {0, comp}
    BY <2>3 DEF Decompressor
  <2> QED BY <2>2, <2>4 DEF CanInflate
<1> QED BY <1>1, <1>2

\* The next component begins in the load file where the last one ends in the table.
LEMMA AdvanceCovers ==
  ASSUME TypeOK, comp \in DOMAIN cap, Advance, cap' = cap
  PROVE  comp' > 0 /\ Covered' \in Nat /\ Covered' + emitted = Covered + Current.declared
<1>0. cap \in Seq(Location) /\ emitted \in Nat
  BY Zenon DEF TypeOK
<1>1. comp \in 1 .. Len(cap) /\ Len(cap) \in Nat /\ comp - 1 \in 0 .. Len(cap) /\ (comp + 1) - 1 = comp
  BY <1>0, CurrentTyped
<1> DEFINE before == DeclaredUpTo(cap)[comp - 1]
           size == Current.declared
<1>2. DeclaredUpTo(cap)[comp] = before + size /\ before \in Nat /\ size \in Nat
  BY <1>0, <1>1, SumGrows, CurrentTyped DEF Current
<1>3. Covered' = HeaderBytes + (before + size) + 0 /\ Covered = HeaderBytes + before + emitted
  <2>1. Covered' = HeaderBytes + DeclaredUpTo(cap)[comp] + 0
    <3>1. comp' - 1 = comp
      BY <1>1 DEF Advance
    <3> QED BY <3>1 DEF Covered, Advance
  <2> QED BY <1>2, <2>1 DEF Covered
<1> HIDE DEF before, size
<1>4. comp' > 0
  BY <1>1 DEF Advance
<1>5. Covered' \in Nat /\ Covered' + emitted = Covered + size
  BY <1>0, <1>2, <1>3, Sizes
<1> QED BY <1>4, <1>5 DEF size

\* Positions counted from where a component begins, as positions of the whole.
LEMMA AsManyMore ==
  ASSUME NEW s \in Seq(Place), NEW u \in Seq(Place), NEW a \in Nat
  PROVE  a + Len(s \o u) = a + Len(s) + Len(u)
<1>1. Len(s \o u) = Len(s) + Len(u) /\ Len(s) \in Nat /\ Len(u) \in Nat
  BY ConcatProperties
<1> QED BY <1>1

\* Bytes of the component that go on where the last ended go on in the load file.
LEMMA BytesGoOn ==
  ASSUME TypeOK, WellFormed(zip), cap = walk_zip(zip), comp \in DOMAIN cap,
         sent = Len(card.file), IsPrefix(card.file \o out, LoadFile), sent + Len(out) = Covered,
         NEW n \in Nat, emitted + n <= Current.declared,
         NEW bytes \in Seq(Place), Len(bytes) = n,
         \A i \in 1 .. n : bytes[i] = ByteOf(comp, emitted + i)
  PROVE  /\ IsPrefix(card.file \o (out \o bytes), LoadFile)
         /\ sent + Len(out \o bytes) = Covered + n
<1>0. /\ zip \in Archive /\ cap \in Seq(Location) /\ emitted \in Nat /\ out \in Seq(Place)
      /\ card \in CardType
  BY Zenon DEF TypeOK, CardType
<1>1. card.file \in Seq(Place)
  BY <1>0 DEF CardType
<1>2. LaidOut(LoadFile, cap)
  BY <1>0, FileIsLaidOut
<1>3. LoadFile \in Seq(Place)
  BY <1>2 DEF LaidOut
<1>4. /\ Covered \in Nat /\ Covered = Start(cap, comp) + emitted /\ Start(cap, comp) \in Nat
      /\ Current.declared \in Nat
  BY CurrentHonest
<1> DEFINE w == card.file \o out
<1>5. w \in Seq(Place) /\ Len(w) = Covered /\ Len(out) \in Nat /\ Len(card.file) \in Nat
  BY <1>0, <1>1, ConcatProperties
<1>6. comp \in 1 .. Len(cap)
  BY <1>0
<1>7. Start(cap, comp) + Current.declared <= Len(LoadFile)
  BY <1>2, <1>6 DEF LaidOut, Current
<1>8. ASSUME NEW i \in 1 .. n PROVE bytes[i] = LoadFile[Len(w) + i]
  <2>1. emitted + i \in 1 .. cap[comp].declared
    BY <1>0, <1>4 DEF Current
  <2>2. LoadFile[Start(cap, comp) + (emitted + i)] = <<cap[comp].entry, emitted + i>>
    BY <1>2, <1>6, <2>1 DEF LaidOut
  <2>3. Start(cap, comp) + (emitted + i) = Len(w) + i
    <3> HIDE DEF w
    <3> QED BY <1>0, <1>4, <1>5
  <2> QED BY <2>2, <2>3 DEF ByteOf
<1>9. Len(w) + Len(bytes) <= Len(LoadFile)
  <2> HIDE DEF w
  <2>1. Len(LoadFile) \in Nat
    BY <1>3
  <2> QED BY <1>0, <1>4, <1>5, <1>7, <2>1
<1>10. IsPrefix(w \o bytes, LoadFile)
  <2>1. IsPrefix(w, LoadFile)
    OBVIOUS
  <2> HIDE DEF w
  <2> QED BY <1>3, <1>5, <1>8, <1>9, <2>1, PrefixGoesOn
<1>11. w \o bytes = card.file \o (out \o bytes)
  <2> DEFINE had == card.file
  <2>1. had \in Seq(Place) /\ out \in Seq(Place)
    BY <1>0, <1>1
  <2>2. (had \o out) \o bytes = had \o (out \o bytes)
    <3> HIDE DEF had
    <3> QED BY <2>1, ConcatAssociative
  <2> QED BY <2>2
<1>12. sent \in Nat
  BY <1>5
<1>13. sent + Len(out \o bytes) = Covered + n
  BY <1>0, <1>12, AsManyMore
<1> QED BY <1>10, <1>11, <1>13

\* An exchange of a load that leaves the card's part of it alone keeps what it has.
LEMMA CardKept ==
  ASSUME CardHasBeginning, zip' = zip, card' = card
  PROVE  CardHasBeginning'
<1>1. LoadFile' = LoadFile
  BY FileStays
<1> QED BY <1>1 DEF CardHasBeginning

\* A card that begins a load has nothing of it.
LEMMA BeginningIsPrefix ==
  ASSUME LoadInv, WellFormed(zip), zip' = zip, card' = [NoLoad EXCEPT !.state = "loading"]
  PROVE  /\ card'.file = <<>> /\ card'.next = 0 /\ card'.state = "loading"
         /\ CardHasBeginning'
<1>1. card'.file = <<>> /\ card'.next = 0 /\ card'.state = "loading"
  BY DEF NoLoad
<1>2. zip \in Archive
  BY Zenon DEF LoadInv, TypeOK
<1>3. LoadFile \in Seq(Place)
  BY <1>2, FileIsLaidOut DEF LaidOut
<1>4. IsPrefix(<<>>, LoadFile)
  BY <1>3, EmptyPrefix
<1>5. LoadFile' = LoadFile
  BY FileStays
<1> QED BY <1>1, <1>4, <1>5 DEF CardHasBeginning

\* Only a call's end leaves the LOAD loop.
LEMMA EndedCall ==
  ASSUME pc' = "done"
  PROVE  BlocksGoOn'
BY DEF BlocksGoOn, Streaming

\* A step that ends the call with an error says nothing of the card.
LEMMA FailedCall ==
  ASSUME pc' = "done", report' \in {"too large", "error"}
  PROVE  Reported'
BY DEF Reported

\* A block taken is the next part of the file; the last is flagged when it is whole.
LEMMA BlockTaken ==
  ASSUME LoadInv, WellFormed(zip), zip' = zip, cap' = cap, BlocksGoOn, pc = "send",
         sent' = sent + Len(out), card' = Takes(IsLast(sent'))
  PROVE  /\ CardHasBeginning' /\ card'.file = card.file \o out /\ Len(card'.file) = sent'
         /\ card'.next = (blockNo + 1) % MaxBlocks
         /\ IsLast(sent') => card'.state = "loaded"
         /\ ~ IsLast(sent') => card'.state = "loading"
<1>0. /\ zip \in Archive /\ cap \in Seq(Location) /\ sent \in Nat /\ out \in Seq(Place)
      /\ card \in CardType
  BY Zenon DEF LoadInv, TypeOK, CardType
<1>1. card.file \in Seq(Place)
  BY <1>0 DEF CardType
<1>2. /\ cap = walk_zip(zip) /\ card.next = blockNo /\ sent = Len(card.file)
      /\ IsPrefix(card.file \o out, LoadFile)
  BY DEF BlocksGoOn, Streaming
<1>3. LoadFile \in Seq(Place) /\ Len(LoadFile) = Total(cap) /\ Total(cap) \in Nat
  BY <1>0, <1>2, FileIsLaidOut, TotalIsNat DEF LaidOut
<1> DEFINE w == card.file \o out
<1>4. w \in Seq(Place) /\ Len(w) = sent + Len(out)
  BY <1>0, <1>1, <1>2, ConcatProperties
<1>5. /\ card'.file = w /\ card'.next = (card.next + 1) % MaxBlocks
      /\ card'.state = IF IsLast(sent') THEN "loaded" ELSE "loading"
  BY DEF Takes
<1>6. IsPrefix(w, LoadFile)
  BY <1>2
<1>7. LoadFile' = LoadFile
  BY FileStays
<1> HIDE DEF w
<1>8. IsLast(sent') => w = LoadFile
  <2> SUFFICES ASSUME IsLast(sent') PROVE w = LoadFile
    OBVIOUS
  <2>1. Len(w) >= Len(LoadFile)
    BY <1>3, <1>4 DEF IsLast
  <2> QED BY <1>3, <1>4, <1>6, <2>1, WholePrefix
<1>9. CardHasBeginning'
  BY <1>5, <1>6, <1>7, <1>8 DEF CardHasBeginning
<1> QED BY <1>2, <1>4, <1>5, <1>9 DEF w

\* What is put into the block goes on as the load file does.
LEMMA MoreInBlock ==
  ASSUME LoadInv, WellFormed(zip), BlocksGoOn, pc = "fill", comp \in DOMAIN cap,
         NEW n \in Nat, emitted + n <= Current.declared,
         NEW bytes \in Seq(Place), Len(bytes) = n,
         \A i \in 1 .. n : bytes[i] = ByteOf(comp, emitted + i),
         zip' = zip, cap' = cap, card' = card, sent' = sent, blockNo' = blockNo,
         blocksSent' = blocksSent, out' = out \o bytes, pc' = "fill",
         \/ Advance /\ emitted + n = Current.declared
         \/ emitted' = emitted + n /\ comp' = comp
  PROVE  BlocksGoOn'
<1>0. TypeOK /\ emitted \in Nat
  BY Zenon DEF LoadInv, TypeOK
<1>1. /\ cap = walk_zip(zip) /\ card.state = "loading" /\ card.next = blockNo
      /\ sent = Len(card.file) /\ sent = blocksSent * BlockBytes /\ sent < Total(cap)
      /\ IsPrefix(card.file \o out, LoadFile)
  BY DEF BlocksGoOn, Streaming
<1>2. comp > 0 /\ sent + Len(out) = Covered
  <2>1. comp > 0
    BY <1>0, CurrentTyped
  <2> QED BY <2>1 DEF BlocksGoOn, Streaming
<1>3. /\ IsPrefix(card.file \o (out \o bytes), LoadFile)
      /\ sent + Len(out \o bytes) = Covered + n
  BY <1>0, <1>1, <1>2, BytesGoOn
<1>4. Covered' = Covered + n /\ comp' > 0
  <2>1. Covered \in Nat /\ Current.declared \in Nat
    BY <1>0, <1>1, CurrentHonest
  <2>2. CASE Advance /\ emitted + n = Current.declared
    <3>1. comp' > 0 /\ Covered' \in Nat /\ Covered' + emitted = Covered + Current.declared
      BY <1>0, <2>2, AdvanceCovers
    <3> QED BY <1>0, <2>1, <2>2, <3>1
  <2>3. CASE emitted' = emitted + n /\ comp' = comp
    BY <1>0, <1>2, <2>3, CoveredByEmission
  <2> QED BY <2>2, <2>3
<1>5. LoadFile' = LoadFile /\ walk_zip(zip)' = walk_zip(zip)
  BY FileStays
<1>6. IsPrefix(card.file \o out, LoadFile)'
  BY <1>3, <1>5
<1>7. sent' + Len(out') = Covered'
  BY <1>3, <1>4
<1> QED BY <1>1, <1>4, <1>5, <1>6, <1>7 DEF BlocksGoOn

\* Before the call the card has been given nothing.
LEMMA TransferBegins ==
  ASSUME Init
  PROVE  TransferKept
<1>1. zip \in Archive /\ card.file = <<>> /\ card.state = "idle"
  BY ZipsAssumption DEF Init, NoLoad
<1>2. ASSUME WellFormed(zip) PROVE CardHasBeginning /\ BlocksGoOn /\ Reported
  <2>1. LoadFile \in Seq(Place)
    BY <1>1, <1>2, FileIsLaidOut DEF LaidOut
  <2>2. CardHasBeginning
    BY <1>1, <2>1, EmptyPrefix DEF CardHasBeginning
  <2> QED BY <2>2 DEF Init, BlocksGoOn, Streaming, Reported
<1> QED BY <1>2 DEF TransferKept

\* Every step of a load of a well-formed CAP keeps what the card has a beginning of
\* the file, and the block what comes next.
LEMMA TransferStays ==
  ASSUME LoadInv, TransferKept, [Next]_vars
  PROVE  TransferKept'
<1>0. zip' = zip
  BY DEF Next, LoadNext, vars, CapRejected, CapParsed, LoadTooLarge, InstallForLoad, InstallFails,
     EmitHeader, EmitStored, Pump, PumpFails, CopyOut, DeflateReturns, BlockFilled, NothingLeft,
     BlockAccepted, BlockFails, LoadAgain
<1>1. LoadFile' = LoadFile /\ WellFormed(zip)' = WellFormed(zip) /\ walk_zip(zip)' = walk_zip(zip)
  BY <1>0, FileStays
<1> SUFFICES ASSUME WellFormed(zip)
             PROVE  CardHasBeginning' /\ BlocksGoOn' /\ Reported'
  BY <1>1 DEF TransferKept
<1>2. /\ CardHasBeginning /\ BlocksGoOn /\ Reported
      /\ TypeOK /\ StreamerKept /\ Fresh /\ BlocksCounted /\ RingKeepsPending
  BY DEF TransferKept, LoadInv
<1>3. /\ zip \in Archive /\ cap \in Seq(Location) /\ out \in Seq(Place) /\ card \in CardType
      /\ emitted \in Nat /\ produced \in Nat /\ sent \in Nat /\ blocksSent \in 0 .. MaxBlocks
      /\ ring \in [0 .. Window - 1 -> Place]
  BY Zenon, <1>2 DEF TypeOK, CardType
<1>4. Streaming => /\ ~ Stuck /\ (Pumping => CanInflate)
                   /\ comp \in DOMAIN cap => Current.declared = Current.own /\ Current.own \in Nat
  BY <1>2, NeverStuck, CurrentHonest DEF BlocksGoOn
<1>5. CASE CapRejected
  BY <1>3, <1>5, WellFormedParses DEF CapRejected
<1>6. CASE CapParsed
  <2>1. pc = "parse" /\ pc' = "install" /\ cap' = walk_zip(zip) /\ card' = card /\ report' = report
    BY <1>6 DEF CapParsed
  <2>2. CardHasBeginning'
    BY <1>0, <1>2, <2>1, CardKept
  <2> QED BY <1>1, <1>2, <2>1, <2>2 DEF BlocksGoOn, Streaming, Reported
<1>7. CASE LoadTooLarge
  <2>1. pc' = "done" /\ report' = "too large" /\ card' = card
    BY <1>7 DEF LoadTooLarge, Finish
  <2> QED BY <1>0, <1>2, <2>1, CardKept, EndedCall, FailedCall
<1>8. CASE InstallForLoad
  <2>1. CASE card.state # "loaded" /\ pc' = "fill"
    <3>1. /\ card' = [NoLoad EXCEPT !.state = "loading"] /\ cap' = cap /\ UNCHANGED <<streamer, loader, report>>
          /\ pc = "install" /\ pc' = "fill"
      BY <1>8, <2>1 DEF InstallForLoad
    <3>2. /\ card'.file = <<>> /\ card'.next = 0 /\ card'.state = "loading" /\ CardHasBeginning'
      BY <1>0, <3>1, BeginningIsPrefix
    <3>3. /\ comp' = 0 /\ out' = <<>> /\ sent' = 0 /\ blockNo' = 0 /\ blocksSent' = 0 /\ report' = report
          /\ cap' = walk_zip(zip)
      BY <1>2, <3>1 DEF Fresh, Reported, streamer, loader
    <3>4. Total(cap) \in Nat /\ Total(cap) > 0
      BY <1>3, TotalIsNat, Sizes
    <3>5. sent' = blocksSent' * BlockBytes /\ sent' < Total(cap')
      BY <3>1, <3>3, <3>4, Sizes
    <3>6. IsPrefix(card.file \o out, LoadFile)' /\ sent' = Len(card'.file)
      <4>1. <<>> \o <<>> = <<>> /\ Len(<<>>) = 0
        OBVIOUS
      <4>2. IsPrefix(<<>>, LoadFile)
        BY <1>3, FileIsLaidOut, EmptyPrefix DEF LaidOut
      <4> QED BY <1>1, <3>2, <3>3, <4>1, <4>2
    <3>7. BlocksGoOn'
      BY <1>1, <3>1, <3>2, <3>3, <3>5, <3>6 DEF BlocksGoOn
    <3>8. Reported'
      BY <1>2, <3>1, <3>3 DEF Reported
    <3> QED BY <3>2, <3>7, <3>8
  <2>2. CASE card.state = "loaded"
    <3>1. pc' = "done" /\ report' = "exists" /\ card' = card
      BY <1>8, <2>2 DEF InstallForLoad, Finish
    <3> QED BY <1>0, <1>2, <2>2, <3>1, CardKept, EndedCall DEF Reported
  <2> QED BY <1>8, <2>1, <2>2 DEF InstallForLoad
<1>9. CASE InstallFails
  <2>1. pc' = "done" /\ report' = "error" /\ (card' = card \/ card' = [NoLoad EXCEPT !.state = "loading"])
    BY <1>9 DEF InstallFails, Finish
  <2>2. CardHasBeginning'
    BY <1>0, <1>2, <2>1, CardKept, BeginningIsPrefix
  <2> QED BY <2>1, <2>2, EndedCall, FailedCall
<1>10. ASSUME Streaming, card' = card, report' = report, pc' \in {"fill", "send"}
       PROVE  CardHasBeginning' /\ Reported'
  <2>1. pc # "done" /\ pc # "install" /\ pc' # "done" /\ pc' # "install"
    BY <1>10 DEF Streaming
  <2>2. report' = "pending"
    BY <1>2, <1>10, <2>1 DEF Reported
  <2>3. Reported'
    BY <2>1, <2>2 DEF Reported
  <2> QED BY <1>0, <1>2, <1>10, <2>3, CardKept
<1>11. ASSUME Streaming, cap' = cap, out' = out, sent' = sent, blockNo' = blockNo,
              blocksSent' = blocksSent, card' = card, comp' > 0, Covered' = Covered, comp > 0,
              pc' = "send" => out # <<>>
       PROVE  BlocksGoOn'
  BY <1>1, <1>2, <1>11 DEF BlocksGoOn
<1>12. CASE EmitHeader
  <2> DEFINE header == [i \in 1 .. HeaderBytes |-> <<0, i>>]
  <2>1. /\ pc = "fill" /\ comp = 0 /\ out' = header /\ comp' = 1 /\ emitted' = 0 /\ pc' = pc
        /\ UNCHANGED <<cap, sent, blockNo, blocksSent, report, card>> /\ Streaming
    BY <1>12 DEF EmitHeader, Advance, Streaming
  <2>2. sent = 0 /\ card.file \in Seq(Place) /\ Len(card.file) = 0 /\ card.file = <<>>
    <3>1. sent = 0 /\ sent = Len(card.file) /\ card.file \in Seq(Place)
      BY <1>2, <1>3, <2>1 DEF BlocksCounted, BlocksGoOn, CardType
    <3> QED BY <3>1
  <2>3. header \in Seq(Place) /\ Len(header) = HeaderBytes
    BY HeaderBytesTyped
  <2>4. card.file \o header = header
    <3> HIDE DEF header
    <3> QED BY <2>2, <2>3, ConcatEmptySeq
  <2>5. IsPrefix(header, LoadFile)
    <3>1. LaidOut(LoadFile, walk_zip(zip)) /\ walk_zip(zip) \in Seq(Location)
      BY <1>3, FileIsLaidOut, WalkIsTable
    <3>2. LoadFile \in Seq(Place) /\ HeaderBytes <= Len(LoadFile)
          /\ \A i \in 1 .. HeaderBytes : LoadFile[i] = <<0, i>>
      BY <3>1, TotalIsNat DEF LaidOut
    <3>3. \A i \in 1 .. HeaderBytes : header[i] = <<0, i>>
      OBVIOUS
    <3> HIDE DEF header
    <3> QED BY <2>3, <3>2, <3>3, PrefixPointwise
  <2>6. Covered' = HeaderBytes
    <3>1. DeclaredUpTo(cap)[0] = 0
      BY <1>3, SumGrows
    <3> QED BY <2>1, <3>1, Sizes DEF Covered
  <2> HIDE DEF header
  <2>7. IsPrefix(card.file \o out, LoadFile)'
    BY <1>1, <2>1, <2>4, <2>5
  <2>8. BlocksGoOn'
    BY <1>1, <1>2, <2>1, <2>2, <2>3, <2>6, <2>7, Sizes DEF BlocksGoOn
  <2> QED BY <1>10, <2>1, <2>8
<1>13. CASE EmitStored
  <2> DEFINE bytes == [i \in 1 .. StoredTake |-> ByteOf(comp, emitted + i)]
  <2>1. /\ pc = "fill" /\ Streaming /\ comp \in DOMAIN cap /\ Current.method # "deflate" /\ out' = out \o bytes
        /\ UNCHANGED <<cap, sent, blockNo, blocksSent, report, card>>
    BY <1>13 DEF EmitStored, StoredTake, Filling, Streaming
  <2>2. /\ StoredTake \in Nat /\ emitted + StoredTake <= Current.declared
        /\ StoredTake = 0 => emitted = Current.declared \/ emitted = Current.left
    BY <1>2, <1>13, StoredTakeBounds DEF EmitStored
  <2>3. bytes \in Seq(Place) /\ Len(bytes) = StoredTake
        /\ \A i \in 1 .. StoredTake : bytes[i] = ByteOf(comp, emitted + i)
    BY <1>2, <2>1, <2>2, CopiedBytes
  <2>4. StoredTake = 0 => Exhausted(emitted + StoredTake)
    <3>1. Current.declared <= Current.left /\ Current.declared \in Nat /\ Current.left \in Nat
      BY <1>2, <2>1, CurrentHonest DEF BlocksGoOn
    <3> QED BY <1>3, <2>2, <3>1 DEF Exhausted
  <2>5. /\ pc' = "fill"
        /\ \/ Advance /\ emitted + StoredTake = Current.declared
           \/ emitted' = emitted + StoredTake /\ comp' = comp
    <3>1. CASE Exhausted(emitted + StoredTake)
      <4>1. Advance /\ pc' = "fill"
        BY <1>13, <2>1, <3>1 DEF EmitStored, StoredTake
      <4>2. emitted + StoredTake = Current.declared
        <5>1. Current.declared \in Nat /\ emitted + StoredTake >= Current.declared
          BY <1>2, <2>1, <3>1, CurrentTyped DEF Exhausted
        <5> QED BY <1>3, <2>2, <5>1
      <4> QED BY <4>1, <4>2
    <3>2. CASE ~ Exhausted(emitted + StoredTake)
      BY <1>13, <2>4, <3>2 DEF EmitStored, StoredTake
    <3> QED BY <3>1, <3>2
  <2> HIDE DEF bytes
  <2>6. BlocksGoOn'
    BY <1>0, <1>2, <2>1, <2>2, <2>3, <2>5, MoreInBlock
  <2> QED BY <1>10, <2>1, <2>5, <2>6
<1>14. CASE Pump
  <2>1. /\ Streaming /\ comp \in DOMAIN cap /\ cap' = cap /\ comp' = comp /\ emitted' = emitted
        /\ sent' = sent /\ out' = out /\ blockNo' = blockNo /\ blocksSent' = blocksSent
        /\ report' = report /\ card' = card /\ pc' = "fill"
    BY <1>14 DEF Pump, Pumping, Filling, Streaming, loader
  <2>2. comp > 0 /\ Covered' = Covered
    BY <1>2, <2>1, CurrentTyped DEF Covered
  <2> QED BY <1>10, <1>11, <2>1, <2>2
<1>15. CASE PumpFails
  BY <1>4, <1>15 DEF PumpFails, Pumping, Filling, Streaming
<1>16. CASE CopyOut
  <2> DEFINE from == emitted % Window
             bytes == [i \in 1 .. CopyLength |-> ring[from + i - 1]]
  <2>1. /\ pc = "fill" /\ pc' = "fill" /\ Streaming /\ comp \in DOMAIN cap /\ Current.method = "deflate"
        /\ out' = out \o bytes /\ emitted' = emitted + CopyLength /\ comp' = comp
        /\ UNCHANGED <<cap, sent, blockNo, blocksSent, report, card>>
    BY <1>16 DEF CopyOut, Filling, Streaming
  <2>2. /\ CopyLength \in Nat /\ emitted + CopyLength <= produced
        /\ from \in 0 .. Window - 1 /\ from + CopyLength <= Window /\ from \in Nat
    <3>1. /\ CopyLength \in Nat /\ emitted + CopyLength <= produced
          /\ from \in 0 .. Window - 1 /\ from + CopyLength <= Window
      BY <1>2, <1>16, CopyBounds DEF CopyOut
    <3> QED BY <3>1, Sizes
  <2>3. bytes \in Seq(Place) /\ Len(bytes) = CopyLength
    <3> HIDE DEF from
    <3> QED BY <1>2, <2>2, InflatedBytes
  <2>4. ASSUME NEW i \in 1 .. CopyLength PROVE bytes[i] = ByteOf(comp, emitted + i)
    <3>1. i - 1 \in Nat /\ from + (i - 1) < Window /\ emitted + i \in emitted + 1 .. produced
      <4> HIDE DEF from
      <4> QED BY <1>3, <2>2, Sizes
    <3>2. (emitted + (i - 1)) % Window = from + (i - 1)
      BY <1>3, <3>1, ModAdd, Sizes
    <3>3. ring[((emitted + i) - 1) % Window] = ByteOf(comp, emitted + i)
      BY <1>2, <3>1 DEF RingKeepsPending
    <3>4. (emitted + i) - 1 = emitted + (i - 1) /\ from + (i - 1) = from + i - 1
      <4> HIDE DEF from
      <4> QED BY <1>3, <2>2
    <3>5. bytes[i] = ring[from + i - 1]
      OBVIOUS
    <3> HIDE DEF from, bytes
    <3> QED BY <3>2, <3>3, <3>4, <3>5
  <2>5. emitted + CopyLength <= Current.declared
    BY <1>2, <1>3, <1>4, <2>1, <2>2 DEF StreamerKept, Inflating
  <2> HIDE DEF bytes, from
  <2>6. BlocksGoOn'
    BY <1>0, <1>2, <2>1, <2>2, <2>3, <2>4, <2>5, MoreInBlock
  <2> QED BY <1>10, <2>1, <2>6
<1>17. CASE DeflateReturns
  <2>1. /\ pc = "fill" /\ Streaming /\ comp \in DOMAIN cap /\ Current.method = "deflate" /\ started
        /\ ReturnsNow /\ cap' = cap /\ sent' = sent /\ out' = out /\ blockNo' = blockNo
        /\ blocksSent' = blocksSent /\ report' = report /\ card' = card
    BY <1>17 DEF DeflateReturns, Streaming, loader
  <2>2. comp > 0 /\ Covered \in Nat /\ Current.declared \in Nat
    <3>1. cap = walk_zip(zip)
      BY <1>2, <2>1 DEF BlocksGoOn
    <3> QED BY <1>2, <1>4, <2>1, <3>1, CurrentTyped, CurrentHonest
  <2>3. CASE Exhausted(emitted)
    <3>1. Advance /\ pc' = "fill"
      BY <1>17, <2>1, <2>3 DEF DeflateReturns
    <3>2. emitted = Current.declared
      BY <1>2, <1>3, <1>4, <2>1, <2>2, <2>3 DEF Exhausted, StreamerKept, Inflating
    <3>3. comp' > 0 /\ Covered' = Covered
      <4>1. comp' > 0 /\ Covered' \in Nat /\ Covered' + emitted = Covered + Current.declared
        BY <1>2, <2>1, <3>1, AdvanceCovers
      <4> QED BY <2>2, <3>2, <4>1
    <3> QED BY <1>10, <1>11, <2>1, <2>2, <3>1, <3>3
  <2>4. CASE ~ Exhausted(emitted)
    <3>1. pc' = "send" /\ comp' = comp /\ emitted' = emitted
      BY <1>17, <2>4 DEF DeflateReturns, streamer
    <3>2. Room = 0
      <4>1. emitted < Current.declared
        BY <1>3, <2>2, <2>4 DEF Exhausted
      <4>2. ~ (ended /\ Pending = 0)
        BY <1>4, <2>1, <4>1 DEF Stuck
      <4> QED BY <2>1, <4>2 DEF ReturnsNow
    <3>3. out # <<>>
      <4>1. Len(out) = BlockBytes
        BY <1>2, <3>2, CurrentTyped, Sizes
      <4> QED BY <4>1, Sizes
    <3>4. Covered' = Covered
      BY <2>1, <3>1 DEF Covered
    <3> QED BY <1>10, <1>11, <2>1, <2>2, <3>1, <3>3, <3>4
  <2> QED BY <2>3, <2>4
<1>18. CASE BlockFilled
  <2>1. /\ pc = "fill" /\ comp > 0 /\ Streaming /\ pc' = "send" /\ UNCHANGED <<cap, streamer, loader, report, card>>
        /\ comp > Len(cap) \/ Room = 0
    BY <1>18 DEF BlockFilled, Streaming
  <2>2. out # <<>>
    <3>1. CASE Room = 0
      <4>1. Len(out) = BlockBytes
        BY <1>2, <3>1, CurrentTyped, Sizes
      <4> QED BY <4>1, Sizes
    <3>2. CASE comp > Len(cap)
      <4>1. Covered = Total(cap)
        BY <1>2, <3>2, CoveredAtTheEnd
      <4>2. sent + Len(out) = Covered /\ sent < Total(cap)
        BY <1>2, <2>1 DEF BlocksGoOn
      <4>3. Len(out) # 0
        BY <1>3, <4>1, <4>2
      <4> QED BY <4>3
    <3> QED BY <2>1, <3>1, <3>2
  <2>3. /\ cap' = cap /\ comp' = comp /\ emitted' = emitted /\ sent' = sent /\ out' = out
        /\ blockNo' = blockNo /\ blocksSent' = blocksSent /\ report' = report /\ card' = card
    BY <2>1 DEF streamer, loader
  <2>4. Covered' = Covered
    BY <2>3 DEF Covered
  <2> QED BY <1>10, <1>11, <2>1, <2>2, <2>3, <2>4
<1>19. CASE NothingLeft
  BY <1>2, <1>19 DEF NothingLeft, BlocksGoOn, Streaming
<1>20. CASE BlockAccepted
  <2>1. /\ pc = "send" /\ Streaming /\ out # <<>> /\ sent' = sent + Len(out) /\ card' = Takes(IsLast(sent'))
        /\ blockNo' = (blockNo + 1) % MaxBlocks /\ blocksSent' = blocksSent + 1 /\ out' = <<>>
        /\ cap' = cap /\ comp' = comp /\ emitted' = emitted
    BY <1>20 DEF BlockAccepted, NextNumber, Streaming, streamer
  <2>2. /\ CardHasBeginning' /\ card'.file = card.file \o out /\ Len(card'.file) = sent'
        /\ card'.next = (blockNo + 1) % MaxBlocks
        /\ IsLast(sent') => card'.state = "loaded"
        /\ ~ IsLast(sent') => card'.state = "loading"
    BY <1>0, <1>2, <2>1, BlockTaken
  <2>3. /\ sent = blocksSent * BlockBytes /\ sent < Total(cap) /\ sent + Len(out) = Covered
        /\ Covered' = Covered /\ comp > 0 /\ Total(cap) \in Nat /\ Len(out) \in Nat
        /\ Len(out) <= BlockBytes /\ blocksSent \in Nat
        /\ Len(out) = BlockBytes \/ comp > Len(cap)
    <3>1. comp > 0
      BY <1>2, <2>1, CurrentTyped DEF BlocksCounted
    <3>2. Covered' = Covered
      BY <2>1 DEF Covered
    <3>3. Total(cap) \in Nat
      BY <1>3, TotalIsNat
    <3>4. Len(out) \in Nat /\ Len(out) <= BlockBytes /\ blocksSent \in Nat
      BY <1>2, <1>3, CurrentTyped, Sizes
    <3>5. Len(out) = BlockBytes \/ comp > Len(cap)
      BY <1>2, <1>4, <2>1 DEF BlocksCounted
    <3> QED BY <1>2, <2>1, <3>1, <3>2, <3>3, <3>4, <3>5 DEF BlocksGoOn
  <2>4. CASE IsLast(sent')
    <3>1. pc' = "done" /\ report' = "ok"
      BY <1>20, <2>4 DEF BlockAccepted, Finish
    <3>2. Total(cap) <= blocksSent * BlockBytes + BlockBytes
      <4>1. Total(cap) <= sent + Len(out)
        BY <1>3, <2>1, <2>3, <2>4 DEF IsLast
      <4> QED BY <1>3, <2>3, <4>1, Sizes
    <3>3. (Total(cap) + BlockBytes - 1) \div BlockBytes = blocksSent + 1
      BY <2>3, <3>2, BlocksNeeded, Sizes
    <3>4. Reported'
      BY <2>1, <2>2, <2>4, <3>1, <3>3 DEF Reported
    <3> QED BY <2>2, <3>1, <3>4, EndedCall
  <2>5. CASE ~ IsLast(sent')
    <3>1. pc' = "fill" /\ report' = report
      BY <1>20, <2>5 DEF BlockAccepted
    <3>2. sent' < Total(cap)
      BY <1>3, <2>1, <2>3, <2>5 DEF IsLast
    <3>3. Len(out) = BlockBytes
      <4>1. comp > Len(cap) => Covered = Total(cap)
        BY <1>2, CoveredAtTheEnd
      <4> QED BY <1>3, <2>1, <2>3, <3>2, <4>1
    <3>4. sent' = blocksSent' * BlockBytes
      BY <1>3, <2>1, <2>3, <3>3, Sizes
    <3>5. card'.file \o <<>> = card'.file /\ sent' + 0 = Covered'
      <4>1. card'.file \in Seq(Place)
        <5>1. card.file \in Seq(Place)
          BY <1>3 DEF CardType
        <5> QED BY <1>3, <2>2, <5>1
      <4>2. card'.file \o <<>> = card'.file
        BY <4>1, ConcatEmptySeq
      <4> QED BY <1>3, <2>1, <2>3, <4>2
    <3>6. IsPrefix(card.file \o out, LoadFile)'
      BY <2>1, <2>2, <3>5 DEF CardHasBeginning
    <3>7. sent' + Len(out') = Covered'
      BY <2>1, <3>5
    <3>8. cap = walk_zip(zip)
      BY <1>2, <2>1 DEF BlocksGoOn
    <3>9. BlocksGoOn'
      BY <1>1, <2>1, <2>2, <2>3, <2>5, <3>1, <3>2, <3>4, <3>6, <3>7, <3>8 DEF BlocksGoOn
    <3>10. report' = "pending"
      BY <1>2, <2>1, <3>1 DEF Reported
    <3>11. Reported'
      BY <3>1, <3>10 DEF Reported
    <3> QED BY <2>2, <3>9, <3>11
  <2> QED BY <2>4, <2>5
<1>21. CASE BlockFails
  <2>1. /\ pc = "send" /\ sent' = sent + Len(out) /\ cap' = cap /\ pc' = "done" /\ report' = "error"
        /\ card' = card \/ card' = Takes(IsLast(sent'))
    BY <1>21 DEF BlockFails, Finish
  <2>2. CardHasBeginning'
    BY <1>0, <1>2, <2>1, CardKept, BlockTaken
  <2> QED BY <2>1, <2>2, EndedCall, FailedCall
<1>22. CASE LoadAgain
  <2>1. pc' = "parse" /\ report' = "pending" /\ card' = card
    BY <1>22 DEF LoadAgain
  <2>2. CardHasBeginning'
    BY <1>0, <1>2, <2>1, CardKept
  <2> QED BY <2>1, <2>2 DEF BlocksGoOn, Streaming, Reported
<1>23. CASE UNCHANGED vars
  <2>1. /\ cap' = cap /\ pc' = pc /\ comp' = comp /\ emitted' = emitted /\ out' = out /\ sent' = sent
        /\ blockNo' = blockNo /\ blocksSent' = blocksSent /\ report' = report /\ card' = card
    BY <1>23 DEF vars, streamer, loader
  <2>2. Covered' = Covered /\ Streaming' = Streaming
    BY <2>1 DEF Covered, Streaming
  <2>3. CardHasBeginning'
    BY <1>0, <1>2, <2>1, CardKept
  <2>4. BlocksGoOn'
    BY <1>1, <1>2, <2>1, <2>2 DEF BlocksGoOn
  <2>5. Reported'
    BY <1>1, <1>2, <2>1 DEF Reported
  <2> QED BY <2>3, <2>4, <2>5
<1> QED BY <1>5, <1>6, <1>7, <1>8, <1>9, <1>12, <1>13, <1>14, <1>15, <1>16, <1>17, <1>18, <1>19,
           <1>20, <1>21, <1>22, <1>23 DEF Next, LoadNext

------------------------------------------------------------------------------
(***************************************************************************)
(* Theorems                                                                *)
(***************************************************************************)

\* LoadInv is inductive, and holds in every state.
LEMMA LoadInvIsKept ==
  Spec => []LoadInv
<1>1. Init => LoadInv
  BY InitTyped
<1>2. LoadInv /\ [Next]_vars => LoadInv'
  <2> SUFFICES ASSUME LoadInv, [Next]_vars PROVE LoadInv'
    OBVIOUS
  <2>1. TypeOK'
    BY TypeKept, CountedAreFresh DEF LoadInv
  <2>2. StreamerKept' /\ Fresh' /\ BlocksCounted' /\ RingKeepsPending'
    BY StreamerStays, FreshStays, BlocksStayCounted, RingStays
  <2> QED BY <2>1, <2>2 DEF LoadInv
<1> QED BY <1>1, <1>2, PTL DEF Spec

(***************************************************************************)
(* What the loader keeps has its type: the table of components that parse  *)
(* fills, the block, the ring and the counters of a load, and what the     *)
(* card has.  That the count of blocks stays within MaxBlocks is part of   *)
(* it.                                                                     *)
(***************************************************************************)
THEOREM LoadTypes == Spec => []TypeOK
BY LoadInvIsKept, PTL DEF LoadInv

(***************************************************************************)
(* However the directory of a ZIP lies about its components, no block      *)
(* number of a load is used twice: the size check of load_package and the  *)
(* cutting of next_block agree on that.                                    *)
(***************************************************************************)
THEOREM FreshBlockNumbers == Spec => []BlockNumbersAreFresh
<1>1. LoadInv => BlockNumbersAreFresh
  BY CountedAreFresh DEF LoadInv
<1> QED BY <1>1, LoadInvIsKept, PTL

(***************************************************************************)
(* pump writes into the window only where nothing waits to be copied out,  *)
(* for a window and blocks of any size.                                    *)
(***************************************************************************)
THEOREM PendingIsKept == Spec => []RingKeepsPending
BY LoadInvIsKept, PTL DEF LoadInv

\* So does TransferKept, with it.
LEMMA TransferIsKept ==
  Spec => []TransferKept
<1>1. Init => TransferKept
  BY TransferBegins
<1>2. LoadInv /\ TransferKept /\ [Next]_vars => TransferKept'
  BY TransferStays
<1> QED BY <1>1, <1>2, LoadInvIsKept, PTL DEF Spec

(***************************************************************************)
(* Of a well-formed CAP, whatever it holds and in whatever order, the card *)
(* is given its load file byte by byte from the beginning, by next_block   *)
(* and the LOAD loop, in blocks of the numbers it expects, and nothing     *)
(* else.                                                                   *)
(***************************************************************************)
THEOREM CardIsGivenTheFile == Spec => []CardGetsTheFile
<1>1. TransferKept => CardGetsTheFile
  BY DEF TransferKept, CardHasBeginning, BlocksGoOn, Streaming, CardGetsTheFile
<1> QED BY <1>1, TransferIsKept, PTL

(***************************************************************************)
(* load_package answers Ok for a well-formed CAP only when the card has    *)
(* the whole of it, in no more blocks than it takes; parse and the         *)
(* decompressor never fail on it; and the card sees the last block flagged *)
(* no earlier than the last byte.                                          *)
(***************************************************************************)
THEOREM DoneIsLoaded == Spec => []DoneMeansLoaded
<1>1. TransferKept => DoneMeansLoaded
  BY DEF TransferKept, CardHasBeginning, Reported, DoneMeansLoaded
<1> QED BY <1>1, TransferIsKept, PTL
=============================================================================
