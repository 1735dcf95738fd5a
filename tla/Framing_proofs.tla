---------------------------- MODULE Framing_proofs ----------------------------
(***************************************************************************)
(* For every card, every variant, level and version a caller may ask for,  *)
(* and fields of every size: the two ends of an open channel agree, the    *)
(* card reads what was sent, the caller reads what was answered, and no    *)
(* LOAD block is refused; and a discovery tells all that the card holds.   *)
(*                                                                         *)
(* None of this is inductive as it stands.  What the ends agree on is      *)
(* settled in three steps, so Terms follows it from the answer to          *)
(* INITIALIZE UPDATE on; and what is read depends on what was written one  *)
(* step before, so OnItsWay and Said keep the command and the answer with  *)
(* the bytes they were turned into.                                        *)
(***************************************************************************)
EXTENDS Framing, SequenceTheorems, FiniteSetTheorems, WellFoundedInduction, TLAPS

Joined == {"open", "sent", "answered"}

WireType == [lc : Nat, bytes : 0 .. 255, le : BOOLEAN, mac : {8, 16}, encrypted : BOOLEAN,
             clear : 0 .. 255, chain : Nat]
AnswerType == [body : 0 .. RAPDU_MAX - 2, mac : {0, 8, 16}, encrypted : BOOLEAN,
               clear : 0 .. 256, sw : Statuses]

\* The one field of the CardInfo a command is built from.
InfoTyped == "privlen" \in DOMAIN info /\ info.privlen \in {1, 3}

Typed == FramingTypeOK /\ InfoTyped /\ wire \in WireType /\ reply \in AnswerType

Asked == stage # "closed" => ask.variant \in Variants

Terms ==
  stage \in {"ea"} \cup Joined =>
    /\ ses.scp = sd.scp /\ ses.mac = sd.mac
    /\ ses.scp = ask.variant.scp /\ ses.mac = ModeOf(ask.variant)
    /\ ses.level # {} /\ ses.level \subseteq ask.level
    /\ ses.level \subseteq Allowed(ses.scp, sdI)
    /\ ask.kvn \in {0, kvn}

SameLevel == stage \in Joined => ses.level = sd.level

InStep ==
  /\ stage = "ea" => ses.chain = 1 /\ sd.chain = 0
  /\ stage \in {"open", "answered"} => ses.chain = sd.chain
  /\ stage = "sent" => ses.chain = sd.chain + 1

OnItsWay ==
  stage \in {"sent", "answered"} =>
    /\ Builds(plain) /\ Wraps(ses, plain)
    /\ wire = Wrapped([ses EXCEPT !.chain = @ - 1], plain)

Said ==
  stage = "answered" =>
    /\ heard = plain.data
    /\ told[2] = "error" => told[1] = 0
    /\ \E bare \in BOOLEAN : reply = Answer(sd, told[1], told[2], bare)

IInv == Typed /\ Asked /\ Terms /\ SameLevel /\ InStep /\ OnItsWay /\ Said /\ AnswersAreRead

------------------------------------------------------------------------------
(***************************************************************************)
(* What a caller asks for                                                  *)
(***************************************************************************)
\* A set of numbers that is not empty has a least one: select
\* looks for one in what the card advertises.
LEMMA LeastExists ==
  ASSUME NEW S \in SUBSET Nat, S # {}
  PROVE  \E n \in S : \A m \in S : n <= m
<1> DEFINE less == OpToRel(<, Nat)
<1>1. IsWellFoundedOn(less, Nat)
  BY NatLessThanWellFounded
<1>2. \A a, b \in Nat : a < b => <<a, b>> \in less
  BY DEF OpToRel
<1> HIDE DEF less
<1>3. PICK n \in S : \A m \in S : ~(<<m, n>> \in less)
  BY <1>1, WFMin
<1>4. ASSUME NEW m \in S PROVE n <= m
  <2>1. m \in Nat /\ n \in Nat
    OBVIOUS
  <2>2. ~(m < n)
    BY <1>2, <1>3, <2>1
  <2> QED BY <2>1, <2>2
<1> QED BY <1>4

\* What select takes for SCP02, the first advertised, is in the list.
LEMMA MinIn ==
  ASSUME NEW S \in SUBSET Nat, S # {}
  PROVE  Min(S) \in S
BY LeastExists DEF Min

\* What select takes for SCP03, the greatest i supported, is in the set.
LEMMA MaxIn ==
  ASSUME NEW S \in SUBSET (0 .. 255), S # {}
  PROVE  Max(S) \in S
<1>0. \A i \in S : i \in 0 .. 255
  OBVIOUS
<1> DEFINE T == {255 - i : i \in S}
<1>1. T \in SUBSET Nat /\ T # {}
  <2>1. ASSUME NEW i \in S PROVE 255 - i \in Nat
    BY <1>0
  <2>2. \E i : i \in S
    OBVIOUS
  <2> QED BY <2>1, <2>2
<1>2. PICK n \in T : \A m \in T : n <= m
  BY <1>1, LeastExists
<1>3. PICK i \in S : n = 255 - i
  BY <1>2
<1>4. \A j \in S : 255 - j \in T
  OBVIOUS
<1>5. ASSUME NEW j \in S PROVE i >= j
  <2>1. 255 - i <= 255 - j
    BY <1>2, <1>3, <1>4
  <2> QED BY <1>0, <2>1
<1> QED BY <1>5 DEF Max

\* A variant to open with is one a caller forced or a card advertised.
LEMMA SelectTyped ==
  ASSUME NEW advertised, NEW force \in Forced \cup {NoVariant}
  PROVE  Select(advertised, force) \in Variants \cup {NoVariant}
<1> DEFINE scp03 == {i \in 0 .. 255 : i_supported(i) /\ [scp |-> 3, i |-> i] \in Range(advertised)}
           scp02 == {n \in (1 .. MaxScpVariants) \cap DOMAIN advertised :
                       advertised[n] \in Variants /\ advertised[n].scp = 2}
<1>1. Forced \subseteq Variants
  BY FramingAssumption
<1>2. scp03 # {} => Max(scp03) \in scp03
  <2>1. scp03 \in SUBSET (0 .. 255)
    OBVIOUS
  <2> HIDE DEF scp03
  <2> QED BY <2>1, MaxIn
<1>3. scp02 # {} => Min(scp02) \in scp02
  <2>1. scp02 \in SUBSET Nat
    BY MaximaAssumption
  <2> HIDE DEF scp02
  <2> QED BY <2>1, MinIn
<1>4. scp03 # {} => [scp |-> 3, i |-> Max(scp03)] \in Variants
  BY <1>2 DEF Variants
<1>5. scp02 # {} => advertised[Min(scp02)] \in Variants
  BY <1>3
<1>6. Select(advertised, force) =
        IF force # NoVariant THEN force
        ELSE IF scp03 # {} THEN [scp |-> 3, i |-> Max(scp03)]
        ELSE IF scp02 # {} THEN advertised[Min(scp02)] ELSE NoVariant
  BY DEF Select
<1> HIDE DEF scp03, scp02
<1> QED BY <1>1, <1>4, <1>5, <1>6

------------------------------------------------------------------------------
(***************************************************************************)
(* Lengths                                                                 *)
(***************************************************************************)
\* ISO 7816-4 padding (pad80) adds between one byte and one block.
LEMMA Padding ==
  ASSUME NEW n \in Nat
  PROVE  /\ pad80(n) \in Nat /\ n < pad80(n) /\ pad80(n) <= n + 16
         /\ pad80_8(n) \in Nat /\ n < pad80_8(n) /\ pad80_8(n) <= n + 8
BY DEF pad80, pad80_8

\* Padded data is whole AES blocks, as unwrap requires of an R-ENC answer.
LEMMA WholeBlocks ==
  ASSUME NEW n \in Nat
  PROVE  pad80(n) % 16 = 0
BY DEF pad80

\* wrap adds at most a block to the data field, and nothing to an empty one.
LEMMA Bodies ==
  ASSUME NEW s \in Session, NEW n \in Nat
  PROVE  /\ Body(s, n) \in Nat /\ n <= Body(s, n) /\ Body(s, n) <= n + 16
         /\ Body(s, n) > 0 <=> n > 0
<1>1. /\ pad80(n) \in Nat /\ n < pad80(n) /\ pad80(n) <= n + 16
      /\ pad80_8(n) \in Nat /\ n < pad80_8(n) /\ pad80_8(n) <= n + 8
  BY Padding
<1>2. Body(s, n) \in {n, pad80(n), pad80_8(n)} /\ (Encrypts(s, n) => n > 0)
  BY DEF Body, Body03, Body02, Encrypts
<1>3. ~ Encrypts(s, n) => Body(s, n) = n
  BY DEF Body, Body03, Body02
<1> QED BY <1>1, <1>2, <1>3

\* Commands a caller can have built: none carries a negative number of bytes.
LEMMA CallableTyped ==
  ASSUME NEW privlen \in {1, 3}, NEW command \in Callable(privlen)
  PROVE  command \in [data : Nat, le : {"none", "zero", "other"}]
<1>1. /\ \A n \in AidLens \cup HashLens \cup ParamLens \cup ChunkLens \cup RawLens : n \in Nat
      /\ privlen \in Nat
  BY FramingAssumption DEF LOAD_BLOCK_DATA
<1>2. ASSUME NEW n \in Nat, NEW le \in {"none", "zero", "other"}
      PROVE  /\ WithLe(n) \in [data : Nat, le : {"none", "zero", "other"}]
             /\ Raw(n, le) \in [data : Nat, le : {"none", "zero", "other"}]
  BY DEF WithLe, Raw
<1>3. CASE \E key \in {16, 24, 32} : command = put_key("AES", key)
  <2>1. PICK key \in {16, 24, 32} : command = put_key("AES", key)
    BY <1>3
  <2>2. EncryptedLen03(key) \in Nat
    BY DEF EncryptedLen03
  <2>3. KeyBlock("AES", key) \in Nat
    BY <2>2 DEF KeyBlock
  <2>4. 1 + 3 * KeyBlock("AES", key) \in Nat
    BY <2>3
  <2>5. command = WithLe(1 + 3 * KeyBlock("AES", key))
    BY <2>1 DEF put_key
  <2> QED BY <1>2, <2>4, <2>5
<1>4. CASE command = put_key("DES", 16)
  BY <1>2, <1>4 DEF put_key, KeyBlock, EncryptedLen02
<1>5. CASE \E aid \in AidLens : command = delete_object(aid)
  BY <1>1, <1>2, <1>5 DEF delete_object, LV
<1>6. CASE \E n \in 1 .. 2 : command = delete_key(n)
  BY <1>2, <1>6 DEF delete_key
<1>7. CASE \E aid \in AidLens \cup {0} : command = get_status(aid)
  <2>1. PICK aid \in AidLens \cup {0} : command = get_status(aid)
    BY <1>7
  <2>2. aid \in Nat
    BY <1>1
  <2> QED BY <1>2, <2>1, <2>2 DEF get_status, LV
<1>8. CASE \E aid \in AidLens : command = set_card_status(aid)
  BY <1>1, <1>8 DEF set_card_status
<1>9. CASE \E chunk \in ChunkLens : command = load_block(chunk)
  BY <1>1, <1>2, <1>9 DEF load_block
<1>10. CASE \E aid \in AidLens, hash \in HashLens : command = install_for_load(aid, aid, hash)
  <2>1. PICK aid \in AidLens, hash \in HashLens : command = install_for_load(aid, aid, hash)
    BY <1>10
  <2>2. aid \in Nat /\ hash \in Nat
    BY <1>1
  <2>3. command = WithLe(LV(aid) + LV(aid) + LV(hash) + 2)
    BY <2>1 DEF install_for_load
  <2>4. LV(aid) + LV(aid) + LV(hash) + 2 \in Nat
    BY <2>2 DEF LV
  <2> QED BY <1>2, <2>3, <2>4
<1>11. CASE \E aid \in AidLens, privileges \in {privlen, 3}, applet \in ParamLens, system \in {0, 5} :
              command = install_for_install_make_selectable(aid, aid, aid, privileges,
                          build_install_params(applet, system))
  <2>1. PICK aid \in AidLens, privileges \in {privlen, 3}, applet \in ParamLens, system \in {0, 5} :
              command = install_for_install_make_selectable(aid, aid, aid, privileges,
                          build_install_params(applet, system))
    BY <1>11
  <2>2. aid \in Nat /\ privileges \in Nat /\ applet \in Nat /\ system \in Nat
    BY <1>1
  <2>3. build_install_params(applet, system) \in Nat
    BY <2>2 DEF build_install_params, LV
  <2> QED BY <1>2, <2>1, <2>2, <2>3 DEF install_for_install_make_selectable, LV
<1>12. CASE \E data \in RawLens, le \in {"none", "zero", "other"} : command = Raw(data, le)
  <2>1. PICK data \in RawLens, le \in {"none", "zero", "other"} : command = Raw(data, le)
    BY <1>12
  <2>2. data \in Nat
    BY <1>1
  <2> QED BY <1>2, <2>1, <2>2
<1>13. \/ \E key \in {16, 24, 32} : command = put_key("AES", key)
       \/ command = put_key("DES", 16)
       \/ \E aid \in AidLens : command = delete_object(aid)
       \/ \E n \in 1 .. 2 : command = delete_key(n)
       \/ \E aid \in AidLens \cup {0} : command = get_status(aid)
       \/ \E aid \in AidLens : command = set_card_status(aid)
       \/ \E chunk \in ChunkLens : command = load_block(chunk)
       \/ \E aid \in AidLens, hash \in HashLens : command = install_for_load(aid, aid, hash)
       \/ \E aid \in AidLens, privileges \in {privlen, 3}, applet \in ParamLens, system \in {0, 5} :
              command = install_for_install_make_selectable(aid, aid, aid, privileges,
                          build_install_params(applet, system))
       \/ \E data \in RawLens, le \in {"none", "zero", "other"} : command = Raw(data, le)
  BY SMTT(60) DEF Callable
<1> QED BY <1>3, <1>4, <1>5, <1>6, <1>7, <1>8, <1>9, <1>10, <1>11, <1>12, <1>13

\* A command that is wrapped fits a short Lc, and is read by a card in step.
LEMMA WrappedIsRead ==
  ASSUME NEW s \in Session, NEW d \in Session, NEW c \in Command,
         s.scp = d.scp, s.mac = d.mac, s.level = d.level, s.chain = d.chain,
         s.scp = 2 => s.mac = 8,
         Builds(c), Wraps(s, c)
  PROVE  /\ Wrapped(s, c) \in WireType
         /\ CardReads(d, Wrapped(s, c)) = c.data
<1> DEFINE n == c.data
<1>1. n \in 0 .. 255
  BY DEF Command, Builds
<1> HIDE DEF n
<1>2. /\ Body(s, n) \in Nat /\ (Body(s, n) > 0 <=> n > 0)
      /\ s.mac \in {8, 16} /\ s.chain \in Nat /\ s.scp \in {2, 3}
  BY <1>1, Bodies DEF Session
<1>3. Body(s, n) + s.mac <= 255
  BY <1>2 DEF Wraps, Wraps03, Wraps02, Body, n
<1>4. /\ WrappedLc(s, c) = Body(s, n) + s.mac /\ WrappedLc(s, c) \in 0 .. 255
      /\ WrappedLc(s, c) % 256 = WrappedLc(s, c)
  <2>1. WrappedLc(s, c) = Body(s, n) + s.mac
    BY DEF WrappedLc, n
  <2> QED BY <1>2, <1>3, <2>1
<1>5. LeKept(s, c) \in BOOLEAN /\ Encrypts(s, n) \in BOOLEAN
  BY DEF LeKept, Encrypts
<1>6. Wrapped(s, c) \in WireType
  BY <1>1, <1>2, <1>4, <1>5 DEF Wrapped, WireType, n
<1>7. Encrypts(s, n) = ("CDEC" \in d.level /\ Body(s, n) > 0)
  BY <1>2 DEF Encrypts
<1>8. ~ Encrypts(s, n) => Body(s, n) = n
  BY <1>2 DEF Body, Body03, Body02
<1>9. CardReads(d, Wrapped(s, c)) = n
  <2> DEFINE w == Wrapped(s, c)
  <2>1. /\ w.lc = WrappedLc(s, c) /\ w.bytes = w.lc /\ w.mac = d.mac /\ w.chain = d.chain + 1
        /\ w.encrypted = Encrypts(s, n) /\ w.clear = n
    BY <1>4 DEF Wrapped, n
  <2>2. w.lc - d.mac = Body(s, n)
    BY <1>2, <1>4, <2>1
  <2> HIDE DEF w
  <2>3. ~ (\/ w.lc # w.bytes \/ w.mac # d.mac \/ w.lc - d.mac < 0
           \/ w.chain # d.chain + 1
           \/ w.encrypted # ("CDEC" \in d.level /\ w.lc - d.mac > 0))
    BY <1>2, <1>7, <2>1, <2>2
  <2>4. CardReads(d, w) = IF w.encrypted THEN w.clear ELSE w.lc - d.mac
    BY <2>3 DEF CardReads
  <2> QED BY <1>8, <2>1, <2>2, <2>4 DEF w
<1> QED BY <1>6, <1>9 DEF n

\* Two ends on the same terms, and what a card may say.
Alike(s, d, i) ==
  /\ s \in Session /\ d \in Session /\ i \in 0 .. 255
  /\ s.scp = d.scp /\ s.mac = d.mac /\ s.level = d.level
  /\ (s.scp = 2 => s.mac = 8) /\ s.level \subseteq Allowed(s.scp, i)
MaySay(n, sw) == n \in 0 .. 256 /\ sw \in Statuses /\ (sw = "error" => n = 0)

\* An answer is read as it was said; only an SCP02 error that was left bare is not.
LEMMA AnswerIsRead ==
  ASSUME NEW s, NEW d, NEW i, Alike(s, d, i), NEW n, NEW sw, MaySay(n, sw),
         NEW bare \in BOOLEAN
  PROVE  \/ Unwrap(s, Answer(d, n, sw, bare)) = n
         \/ /\ Unwrap(s, Answer(d, n, sw, bare)) = Rejects
            /\ s.scp = 2 /\ sw = "error"
<1> USE DEF Alike, MaySay
<1> DEFINE a == Answer(d, n, sw, bare)
           p == Protected(d, sw, bare)
           mac == IF "RMAC" \in d.level /\ p THEN d.mac ELSE 0
           enc == "RENC" \in d.level /\ p /\ n > 0
<1>1. /\ a.body = (IF enc THEN pad80(n) ELSE n) + mac /\ a.mac = mac
      /\ a.encrypted = enc /\ a.clear = n /\ a.sw = sw
  BY DEF Answer
<1>2. /\ s.mac \in {8, 16} /\ d.mac = s.mac /\ d.level = s.level /\ d.scp = s.scp
      /\ s.scp \in {2, 3} /\ mac \in Nat
  BY DEF Session
<1>3. pad80(n) \in Nat /\ pad80(n) > 0 /\ pad80(n) % 16 = 0
  <2>1. n \in Nat
    OBVIOUS
  <2>2. pad80(n) \in Nat /\ n < pad80(n)
    BY <2>1, Padding
  <2>3. pad80(n) % 16 = 0
    BY <2>1, WholeBlocks
  <2> QED BY <2>1, <2>2, <2>3
<1>4. CASE s.scp = 3
  <2>1. p = (sw # "error")
    BY <1>2, <1>4 DEF Protected
  <2>2. sw_is_protected(a.sw) = p
    BY <1>1, <2>1 DEF sw_is_protected
  <2> HIDE DEF a, p
  <2>3. a.body - a.mac = (IF enc THEN pad80(n) ELSE n)
    BY <1>1, <1>2, <1>3
  <2>4. enc => (a.body - a.mac) % 16 = 0 /\ a.body - a.mac > 0
    BY <1>3, <2>3
  <2> DEFINE m3 == IF "RMAC" \in s.level /\ sw_is_protected(a.sw) THEN s.mac ELSE 0
  <2>5. m3 = a.mac /\ a.mac \in Nat
    BY <1>1, <1>2, <2>2
  <2>6. a.body - m3 \in Nat /\ a.body - m3 = (IF enc THEN pad80(n) ELSE n)
    BY <1>3, <2>3, <2>5
  <2>7. ~(a.body - m3 < 0 \/ a.mac < m3)
    BY <2>5, <2>6
  <2>8. Unwrap03(s, a) =
          IF "RENC" \notin s.level \/ ~ sw_is_protected(a.sw) \/ a.body - m3 = 0 THEN a.body - m3
          ELSE IF (a.body - m3) % 16 # 0 \/ ~ a.encrypted THEN Rejects ELSE a.clear
    BY <2>7 DEF Unwrap03
  <2> HIDE DEF m3
  <2>9. Unwrap03(s, a) = n
    <3>1. CASE enc
      <4>1. a.encrypted
        BY <1>1, <3>1, Zenon
      <4>2. "RENC" \in s.level /\ p /\ a.clear = n
        BY <1>1, <1>2, <3>1
      <4> HIDE DEF enc
      <4> QED BY <1>3, <2>2, <2>6, <2>8, <3>1, <4>1, <4>2
    <3>2. CASE ~ enc
      BY <1>1, <1>2, <2>2, <2>6, <2>8, <3>2
    <3> QED BY <3>1, <3>2
  <2> QED BY <1>4, <2>9 DEF Unwrap, a
<1>5. CASE s.scp = 2
  <2>1. "RENC" \notin s.level /\ s.mac = 8
    BY <1>5 DEF Allowed, Allowed02
  <2>2. p = ~(bare /\ sw = "error")
    BY <1>2, <1>5 DEF Protected
  <2> HIDE DEF a, p
  <2>3. a.body = n + mac
    BY <1>1, <1>2, <2>1
  <2>4. CASE p \/ "RMAC" \notin s.level
    <3>1. Unwrap02(s, a) = n
      BY <1>1, <1>2, <2>1, <2>3, <2>4 DEF Unwrap02
    <3> QED BY <1>5, <3>1 DEF Unwrap, a
  <2>5. CASE ~ p /\ "RMAC" \in s.level
    <3>0. sw = "error"
      BY <2>2, <2>5
    <3>1. sw = "error" /\ a.body = 0
      BY <2>3, <2>5, <3>0, <1>2
    <3>2. Unwrap02(s, a) = Rejects
      BY <2>5, <3>1 DEF Unwrap02
    <3> QED BY <1>5, <3>1, <3>2 DEF Unwrap, a
  <2> QED BY <2>4, <2>5
<1> QED BY <1>2, <1>4, <1>5

\* A block of any size the parser cuts goes through any channel.
LEMMA BlocksFit ==
  ASSUME NEW s \in Session, NEW n \in 1 .. LOAD_BLOCK_DATA
  PROVE  Builds(load_block(n)) /\ Wraps(s, load_block(n))
<1>1. /\ load_block(n) = [data |-> n, le |-> "zero"] /\ n \in Nat /\ n > 0 /\ n <= 223
      /\ s.mac \in {8, 16} /\ s.scp \in {2, 3}
  BY DEF load_block, WithLe, LOAD_BLOCK_DATA, Session
<1>2. Body03(s, n) <= 239 /\ Body03(s, n) \in Nat /\ Body02(s, n) <= 231 /\ Body02(s, n) \in Nat
  BY <1>1, Padding DEF Body03, Body02
<1> QED BY <1>1, <1>2 DEF Builds, Wraps, Wraps03, Wraps02, ReadsPlain

------------------------------------------------------------------------------
(***************************************************************************)
(* The invariant                                                           *)
(***************************************************************************)
\* Nothing sent, answered or agreed yet is of the types too.
LEMMA Defaults ==
  /\ NoSession \in Session /\ NoCommand \in Command /\ NoWire \in WireType
  /\ NoReply \in AnswerType /\ Nothing \in (0 .. 256) \X Statuses
  /\ NoAsk \in [variant : Variants \cup {NoVariant}, kvn : 0 .. 255, level : SUBSET Services]
<1>1. NoSession \in Session /\ NoSession.level = {} /\ NoSession.mac = 8 /\ NoSession.scp = 2
  BY DEF NoSession, Session
<1>2. NoCommand = [data |-> 0, le |-> "none"] /\ NoCommand \in Command
  BY DEF NoCommand, Raw, Command
<1>3. NoWire \in WireType
  <2>1. ~ Encrypts(NoSession, 0) /\ Body(NoSession, 0) = 0
    BY <1>1 DEF Encrypts, Body, Body02
  <2>2. WrappedLc(NoSession, NoCommand) = 8
    BY <1>1, <1>2, <2>1 DEF WrappedLc
  <2>3. LeKept(NoSession, NoCommand) \in BOOLEAN /\ Encrypts(NoSession, 0) \in BOOLEAN
    BY DEF LeKept, Encrypts
  <2>4. NoSession.chain = 0
    BY DEF NoSession
  <2> QED BY <1>1, <1>2, <2>2, <2>3, <2>4 DEF NoWire, Wrapped, WireType
<1>4. NoReply \in AnswerType
  BY <1>1 DEF NoReply, Answer, AnswerType, Statuses, RAPDU_MAX
<1> QED BY <1>1, <1>2, <1>3, <1>4 DEF Nothing, Statuses, NoAsk

\* EXTERNAL AUTHENTICATE, MACed by begin, has a length its Lc can hold.
LEMMA EaWireTyped ==
  ASSUME NEW s \in Session
  PROVE  EaWire(s) \in WireType
<1> DEFINE t == [s EXCEPT !.level = {}, !.chain = 0]
           c == Raw(s.mac, "none")
<1>1. t.level = {} /\ t.mac = s.mac /\ t.scp = s.scp /\ t.chain = 0 /\ s.mac \in {8, 16}
  BY DEF Session
<1>2. c.data = s.mac /\ c.le = "none"
  BY DEF Raw
<1> HIDE DEF t, c
<1>3. ~ Encrypts(t, c.data) /\ Body(t, c.data) = c.data
  BY <1>1 DEF Encrypts, Body, Body02, Body03
<1>4. WrappedLc(t, c) \in {16, 32}
  BY <1>1, <1>2, <1>3 DEF WrappedLc
<1>5. LeKept(t, c) \in BOOLEAN /\ Encrypts(t, c.data) \in BOOLEAN
  BY DEF LeKept, Encrypts
<1>6. Wrapped(t, c) \in WireType
  BY <1>1, <1>2, <1>4, <1>5 DEF Wrapped, WireType
<1> QED BY <1>6 DEF EaWire, t, c

\* An answer that fits in an R-APDU does not depend on the card's counter.
LEMMA AnswerTyped ==
  ASSUME NEW d \in Session, NEW n \in 0 .. 256, NEW sw \in Statuses, NEW bare \in BOOLEAN,
         Answer(d, n, sw, bare).body <= RAPDU_MAX - 2
  PROVE  /\ Answer(d, n, sw, bare) \in AnswerType
         /\ Answer(d, n, sw, bare).sw = sw
         /\ Answer(Committed(d), n, sw, bare) = Answer(d, n, sw, bare)
<1> DEFINE p == Protected(d, sw, bare)
           mac == IF "RMAC" \in d.level /\ p THEN d.mac ELSE 0
           enc == "RENC" \in d.level /\ p /\ n > 0
           body == (IF enc THEN pad80(n) ELSE n) + mac
<1>1. Answer(d, n, sw, bare) =
        [body |-> body, mac |-> mac, encrypted |-> enc, clear |-> n, sw |-> sw]
  BY DEF Answer
<1>2. mac \in {0, 8, 16} /\ enc \in BOOLEAN /\ n \in Nat
  BY DEF Session
<1>3. pad80(n) \in Nat
  BY <1>2, Padding
<1>4. body \in Nat
  BY <1>2, <1>3
<1>5. Answer(d, n, sw, bare) \in AnswerType
  <2> HIDE DEF body, mac, enc
  <2>1. body <= RAPDU_MAX - 2
    BY <1>1
  <2>2. body \in 0 .. RAPDU_MAX - 2
    BY <1>4, <2>1 DEF RAPDU_MAX
  <2> QED BY <1>1, <1>2, <2>2 DEF AnswerType
<1>6. /\ Committed(d).level = d.level /\ Committed(d).mac = d.mac
      /\ Committed(d).scp = d.scp
  BY DEF Committed, Session
<1>7. Answer(Committed(d), n, sw, bare) = Answer(d, n, sw, bare)
  BY <1>6, Zenon DEF Answer, Protected
<1> QED BY <1>1, <1>5, <1>7

\* close_channel, and every failure of open_scp, leaves nothing agreed.
LEMMA EndKeepsIInv ==
  ASSUME NEW error, IInv, Ends(error), UNCHANGED discoveryVars
  PROVE  IInv'
<1>1. /\ stage' = "closed" /\ info' = info
      /\ ask' = NoAsk /\ ses' = NoSession /\ sd' = NoSession /\ sdI' = 0 /\ kvn' = 0
      /\ plain' = NoCommand /\ wire' = NoWire /\ heard' = 0
      /\ reply' = NoReply /\ told' = Nothing /\ got' = Nothing
  BY DEF Ends, discoveryVars
<1>2. Typed'
  <2>1. InfoTyped'
    BY <1>1 DEF IInv, Typed, InfoTyped
  <2>2. wire' \in WireType /\ reply' \in AnswerType
    BY <1>1, Defaults
  <2>3. /\ wire'.bytes \in 0 .. 255 /\ wire'.chain \in Nat /\ wire'.mac \in {8, 16}
        /\ reply'.body \in 0 .. RAPDU_MAX - 2
    BY <2>2 DEF WireType, AnswerType
  <2>4. FramingTypeOK'
    BY <1>1, <2>3, Defaults DEF FramingTypeOK
  <2> QED BY <2>1, <2>2, <2>4 DEF Typed
<1>3. (Asked /\ Terms /\ SameLevel /\ InStep /\ OnItsWay /\ Said /\ AnswersAreRead)'
  BY <1>1 DEF Asked, Terms, SameLevel, InStep, OnItsWay, Said, AnswersAreRead, Joined
<1> QED BY <1>2, <1>3 DEF IInv

\* Whatever discover_card reads or misses, privileges stay 1 or 3 bytes.
LEMMA DiscoveryKeepsInfo ==
  ASSUME InfoTyped, DiscoveryNext
  PROVE  InfoTyped'
<1> DEFINE Good(i) == "privlen" \in DOMAIN i /\ i.privlen \in {1, 3}
<1>1. Good(info) /\ Good(NoInfo)
  BY DEF InfoTyped, NoInfo
<1>2. SUFFICES Good(info')
  BY DEF InfoTyped
<1>3. ASSUME NEW error, DiscoveryFails(error) PROVE Good(info')
  BY <1>1, <1>3 DEF DiscoveryFails
<1>4. ASSUME NEW i, Good(i), GoOn(i) PROVE Good(info')
  BY <1>4 DEF GoOn
<1>5. ASSUME NEW w PROVE Good(Warn(info, w))
  BY <1>1 DEF Warn
<1>6. ASSUME NEW v PROVE Good(WithVariants(v))
  BY <1>1, <1>5 DEF WithVariants
<1>7. ASSUME NEW named \in BOOLEAN, Discover(named) PROVE Good(info')
  BY <1>1, <1>7 DEF Discover
<1>8. CASE DiscoveryLinkFails
  BY <1>3, <1>8 DEF DiscoveryLinkFails
<1>9. CASE SelectIsd
  BY <1>1, <1>3, <1>9 DEF SelectIsd
<1>10. CASE ReadCrd
  BY <1>3, <1>4, <1>6, <1>10 DEF ReadCrd
<1>11. CASE ReadKit
  <2>1. ASSUME NEW k, NEW e PROVE Good([info EXCEPT !.keysets = k, !.extended = e])
    BY <1>1
  <2> QED BY <1>3, <1>4, <1>5, <1>11, <2>1 DEF ReadKit
<1>12. CASE ReadCci
  <2>1. ASSUME NEW n PROVE Good([info EXCEPT !.channels = n])
    BY <1>1
  <2> QED BY <1>1, <1>3, <1>4, <1>5, <1>12, <2>1 DEF ReadCci
<1>13. CASE ReadDiagnostic
  BY <1>1, <1>3, <1>4, <1>13 DEF ReadDiagnostic
<1>14. CASE ReadCplc
  <2>1. Good([info EXCEPT !.privlen = 1])
    BY <1>1
  <2> QED BY <1>1, <1>3, <1>4, <1>14, <2>1 DEF ReadCplc
<1> QED BY <1>7, <1>8, <1>9, <1>10, <1>11, <1>12, <1>13, <1>14 DEF DiscoveryNext

\* A manager starts with no channel, so with nothing to agree on.
LEMMA InitIInv == Init => IInv
<1> SUFFICES ASSUME Init PROVE IInv
  OBVIOUS
<1> USE DEF Init, ChannelInit
<1>1. InfoTyped
  BY DEF DiscoveryInit, InfoTyped, NoInfo
<1>2. Typed
  BY <1>1, Defaults DEF Typed, FramingTypeOK, WireType, AnswerType
<1>3. Asked /\ Terms /\ SameLevel /\ InStep /\ OnItsWay /\ Said /\ AnswersAreRead
  BY DEF Asked, Terms, SameLevel, InStep, OnItsWay, Said, AnswersAreRead, Joined
<1> QED BY <1>2, <1>3 DEF IInv

\* A variant chosen before the card answered, held to it by what begin refuses.
LEMMA BegunOnTerms ==
  ASSUME Typed, ask.variant \in Variants, NEW iu \in IuAnswers, BeginError(iu) = "none"
  PROVE  /\ Begun(iu) \in Session /\ Begun(iu).chain = 1 /\ Begun(iu).scp = iu.scp
         /\ Begun(iu).mac = (IF iu.scp = 3 THEN FieldLen(iu.i) ELSE 8)
         /\ Begun(iu).scp = ask.variant.scp /\ Begun(iu).mac = ModeOf(ask.variant)
         /\ Begun(iu).level # {} /\ Begun(iu).level \subseteq ask.level
         /\ Begun(iu).level \subseteq Allowed(Begun(iu).scp, EffectiveI(iu))
         /\ ask.kvn \in {0, iu.kvn} /\ EffectiveI(iu) \in 0 .. 255
<1>1. /\ iu.scp \in {2, 3} /\ iu.i \in 0 .. 255 /\ iu.kvn \in 0 .. 255
      /\ ask.variant.scp \in {2, 3} /\ ask.variant.i \in 0 .. 255
      /\ ask.level \subseteq Services /\ ask.kvn \in 0 .. 255
  <2>1. CardIs \subseteq 0 .. 255 /\ CardKvns \subseteq 0 .. 255
    BY FramingAssumption
  <2>2. ask \in [variant : Variants \cup {NoVariant}, kvn : 0 .. 255, level : SUBSET Services]
    BY DEF Typed, FramingTypeOK
  <2>3. iu \in [scp : {2, 3}, i : CardIs, kvn : CardKvns, len : {12, 28, 29, 32, 45, 48}]
    BY DEF IuAnswers
  <2>4. ask.variant.scp \in {2, 3} /\ ask.variant.i \in 0 .. 255
    BY DEF Variants
  <2> QED BY <2>1, <2>2, <2>3, <2>4
<1>2. EffectiveI(iu) \in 0 .. 255
  BY <1>1 DEF EffectiveI
<1>3. \A i : FieldLen(i) \in {8, 16}
  BY DEF FieldLen
<1>4. /\ Begun(iu).scp = ask.variant.scp /\ Begun(iu).chain = 1
      /\ Begun(iu).mac = (IF ask.variant.scp = 3 THEN FieldLen(iu.i) ELSE 8)
      /\ Begun(iu).level = ask.level \cap Allowed(ask.variant.scp, EffectiveI(iu))
  BY DEF Begun
<1>5. Begun(iu) \in Session
  <2>1. ask.level \cap Allowed(ask.variant.scp, EffectiveI(iu)) \in SUBSET Services
    BY <1>1
  <2>2. (IF ask.variant.scp = 3 THEN FieldLen(iu.i) ELSE 8) \in {8, 16}
    BY <1>3
  <2> QED BY <1>1, <2>1, <2>2 DEF Begun, Session
<1>6. CASE ask.variant.scp = 3
  <2>1. Begin03Error(iu) = "none" /\ EffectiveI(iu) = iu.i
    BY <1>6 DEF BeginError, EffectiveI
  <2>2. /\ parse_iu_response03(iu) = "none" /\ ~ WrongKvn(iu) /\ ~ LengthsDisagree(iu)
        /\ ask.level \cap Allowed03(iu.i) # {}
    BY <2>1 DEF Begin03Error
  <2>3. iu.scp = 3
    BY <2>2 DEF parse_iu_response03
  <2>4. ModeOf(ask.variant) = FieldLen(iu.i)
    BY <2>2 DEF LengthsDisagree
  <2>5. ask.kvn \in {0, iu.kvn}
    BY <2>2 DEF WrongKvn
  <2>6. Allowed(3, iu.i) = Allowed03(iu.i)
    BY DEF Allowed
  <2> QED BY <1>2, <1>4, <1>5, <1>6, <2>1, <2>2, <2>3, <2>4, <2>5, <2>6
<1>7. CASE ask.variant.scp = 2
  <2>1. Begin02Error(iu) = "none" /\ EffectiveI(iu) = ask.variant.i
    BY <1>7 DEF BeginError, EffectiveI
  <2>2. /\ parse_iu_response02(iu) = "none" /\ ~ WrongKvn(iu)
        /\ ask.level \cap Allowed02(ask.variant.i) # {}
    BY <2>1 DEF Begin02Error
  <2>3. iu.scp = 2
    BY <2>2 DEF parse_iu_response02
  <2>4. ModeOf(ask.variant) = 8
    BY <1>7 DEF ModeOf
  <2>5. ask.kvn \in {0, iu.kvn}
    BY <2>2 DEF WrongKvn
  <2>6. Allowed(2, ask.variant.i) = Allowed02(ask.variant.i)
    BY DEF Allowed
  <2> QED BY <1>2, <1>4, <1>5, <1>7, <2>1, <2>2, <2>3, <2>4, <2>5, <2>6
<1> QED BY <1>1, <1>6, <1>7

\* wrap moves the counter by one and nothing else.
LEMMA CommittedTyped ==
  ASSUME NEW s \in Session
  PROVE  /\ Committed(s) \in Session /\ Committed(s).scp = s.scp /\ Committed(s).mac = s.mac
         /\ Committed(s).level = s.level /\ Committed(s).chain = s.chain + 1
         /\ [Committed(s) EXCEPT !.chain = @ - 1] = s
<1>1. s.chain \in Nat /\ s.chain + 1 \in Nat /\ (s.chain + 1) - 1 = s.chain
  BY DEF Session
<1>2. Committed(s) = [scp |-> s.scp, mac |-> s.mac, level |-> s.level, chain |-> s.chain + 1]
  BY DEF Committed, Session
<1>3. s = [scp |-> s.scp, mac |-> s.mac, level |-> s.level, chain |-> s.chain]
  BY DEF Session
<1> QED BY <1>1, <1>2, <1>3 DEF Session

\* open_scp asks with a variant the card advertised or the caller forced.
LEMMA OpenScpKeepsIInv ==
  ASSUME IInv, NEW force \in Forced \cup {NoVariant}, NEW version \in RequestedKvns,
         NEW level \in RequestedLevels, OpenScp(force, version, level)
  PROVE  IInv'
<1> DEFINE variant == Select(info.scp, force)
<1>1. variant \in Variants \cup {NoVariant}
  BY SelectTyped
<1>2. version \in 0 .. 255 /\ level \in SUBSET Services
  BY FramingAssumption
<1>3. CASE variant = NoVariant
  BY <1>3, EndKeepsIInv DEF OpenScp
<1>4. CASE variant # NoVariant
  <2>1. /\ stage' = "iu" /\ ask' = [variant |-> variant, kvn |-> version, level |-> level]
        /\ info' = info
        /\ UNCHANGED <<ses, sd, sdI, kvn, plain, wire, heard, reply, told, got>>
    BY <1>4 DEF OpenScp, discoveryVars
  <2> HIDE DEF variant
  <2>2. variant \in Variants
    BY <1>1, <1>4
  <2>3. Typed'
    BY <1>2, <2>1, <2>2 DEF IInv, Typed, FramingTypeOK, InfoTyped
  <2>4. (Asked /\ Terms /\ SameLevel /\ InStep /\ OnItsWay /\ Said /\ AnswersAreRead)'
    BY <2>1, <2>2 DEF Asked, Terms, SameLevel, InStep, OnItsWay, Said, AnswersAreRead, Joined
  <2> QED BY <2>3, <2>4 DEF IInv
<1> QED BY <1>3, <1>4

\* begin refuses an answer to INITIALIZE UPDATE off the caller's terms.
LEMMA IuAnsweredKeepsIInv ==
  ASSUME IInv, NEW iu \in IuAnswers, IuAnswered(iu)
  PROVE  IInv'
<1>1. CASE BeginError(iu) # "none"
  BY <1>1, EndKeepsIInv DEF IuAnswered
<1>2. CASE BeginError(iu) = "none"
  <2>1. /\ stage = "iu" /\ stage' = "ea"
        /\ ses' = Begun(iu) /\ wire' = EaWire(Begun(iu))
        /\ sd' = [scp |-> iu.scp, mac |-> IF iu.scp = 3 THEN FieldLen(iu.i) ELSE 8,
                  level |-> {}, chain |-> 0]
        /\ sdI' = EffectiveI(iu) /\ kvn' = iu.kvn /\ info' = info
        /\ UNCHANGED <<ask, plain, heard, reply, told, got>>
    BY <1>2 DEF IuAnswered, discoveryVars
  <2>2. Typed /\ ask.variant \in Variants
    BY <2>1 DEF IInv, Asked
  <2> DEFINE s == Begun(iu)
  <2>3. /\ s \in Session /\ s.chain = 1 /\ s.scp = iu.scp
        /\ s.mac = (IF iu.scp = 3 THEN FieldLen(iu.i) ELSE 8)
        /\ s.scp = ask.variant.scp /\ s.mac = ModeOf(ask.variant)
        /\ s.level # {} /\ s.level \subseteq ask.level
        /\ s.level \subseteq Allowed(s.scp, EffectiveI(iu))
        /\ ask.kvn \in {0, iu.kvn} /\ EffectiveI(iu) \in 0 .. 255
    BY <1>2, <2>2, BegunOnTerms
  <2>4. EaWire(s) \in WireType
    BY <2>3, EaWireTyped
  <2> HIDE DEF s
  <2>5. sd' \in Session /\ sd'.scp = s.scp /\ sd'.mac = s.mac /\ sd'.chain = 0
    BY <2>1, <2>3 DEF Session
  <2>6. iu.kvn \in 0 .. 255
    <3>1. iu.kvn \in CardKvns /\ CardKvns \subseteq 1 .. 255
      BY FramingAssumption DEF IuAnswers
    <3>2. \A k \in 1 .. 255 : k \in 0 .. 255
      OBVIOUS
    <3>3. iu.kvn \in 1 .. 255
      BY <3>1
    <3> QED BY <3>2, <3>3
  <2>7. ses' = s /\ wire' = EaWire(s)
    BY <2>1 DEF s
  <2>8. Typed'
    <3>1. InfoTyped' /\ wire' \in WireType /\ reply' \in AnswerType
      BY <2>1, <2>2, <2>4, <2>7 DEF Typed, InfoTyped
    <3>2. wire'.bytes \in 0 .. 255 /\ wire'.chain \in Nat /\ wire'.mac \in {8, 16}
      BY <3>1 DEF WireType
    <3>3. stage' \in {"closed", "iu", "ea", "open", "sent", "answered", "broken"}
      BY <2>1
    <3>4. ses' \in Session /\ sd' \in Session /\ sdI' \in 0 .. 255 /\ kvn' \in 0 .. 255
      BY <2>1, <2>3, <2>5, <2>6, <2>7
    <3>5. FramingTypeOK'
      BY <2>1, <2>2, <3>2, <3>3, <3>4 DEF Typed, FramingTypeOK
    <3> QED BY <3>1, <3>5 DEF Typed
  <2>9. (Asked /\ Terms)'
    BY <2>1, <2>2, <2>3, <2>5, <2>7 DEF Asked, Terms, Joined
  <2>10. (SameLevel /\ InStep /\ OnItsWay /\ Said /\ AnswersAreRead)'
    BY <2>1, <2>3, <2>5, <2>7 DEF SameLevel, InStep, OnItsWay, Said, AnswersAreRead, Joined
  <2> QED BY <2>8, <2>9, <2>10 DEF IInv
<1> QED BY <1>1, <1>2

\* The card takes the level of EXTERNAL AUTHENTICATE: both ends have it.
LEMMA EaAcceptedKeepsIInv ==
  ASSUME IInv, EaAccepted
  PROVE  IInv'
<1>1. /\ stage = "ea" /\ stage' = "open" /\ info' = info
      /\ sd' = [Committed(sd) EXCEPT !.level = ses.level] /\ wire' = NoWire
      /\ UNCHANGED <<ask, ses, sdI, kvn, plain, heard, reply, told, got>>
  BY DEF EaAccepted, discoveryVars
<1>2. ses \in Session /\ sd \in Session
  BY DEF IInv, Typed, FramingTypeOK
<1>3. /\ sd' \in Session /\ sd'.scp = sd.scp /\ sd'.mac = sd.mac
      /\ sd'.level = ses.level /\ sd'.chain = sd.chain + 1
  <2>1. /\ Committed(sd) \in Session /\ Committed(sd).scp = sd.scp /\ Committed(sd).mac = sd.mac
        /\ Committed(sd).chain = sd.chain + 1
    BY <1>2, CommittedTyped
  <2>2. ses.level \in SUBSET Services
    BY <1>2 DEF Session
  <2> QED BY <1>1, <2>1, <2>2 DEF Session
<1>4. Typed'
  BY <1>1, <1>3, Defaults DEF IInv, Typed, FramingTypeOK, InfoTyped, WireType
<1>5. (Asked /\ Terms)'
  BY <1>1, <1>3 DEF IInv, Asked, Terms, Joined
<1>6. ses.chain = 1 /\ sd.chain = 0
  BY <1>1 DEF IInv, InStep
<1>7. (SameLevel /\ InStep /\ OnItsWay /\ Said /\ AnswersAreRead)'
  BY <1>1, <1>3, <1>6 DEF SameLevel, InStep, OnItsWay, Said, AnswersAreRead, Joined
<1> QED BY <1>4, <1>5, <1>7 DEF IInv

\* A command refused by its builder or by wrap has changed nothing.
LEMMA SendRefusedKeepsIInv ==
  ASSUME IInv, NEW command, SendRefused(command)
  PROVE  IInv'
<1>1. /\ info' = info
      /\ UNCHANGED <<stage, ask, ses, sd, sdI, kvn, plain, wire, heard, reply, told, got>>
  BY DEF SendRefused, discoveryVars
<1>2. (Typed /\ Asked /\ Terms /\ SameLevel /\ InStep)'
  BY <1>1 DEF IInv, Typed, FramingTypeOK, InfoTyped, Asked, Terms, SameLevel, InStep
<1>3. (OnItsWay /\ Said /\ AnswersAreRead)'
  BY <1>1 DEF IInv, OnItsWay, Said, AnswersAreRead
<1> QED BY <1>2, <1>3 DEF IInv

\* wrap commits its counter with the bytes it returns.
LEMMA SendKeepsIInv ==
  ASSUME IInv, NEW command \in Callable(info.privlen), Send(command)
  PROVE  IInv'
<1>1. /\ stage = "open" /\ stage' = "sent" /\ info' = info
      /\ plain' = command /\ wire' = Wrapped(ses, command) /\ ses' = Committed(ses)
      /\ ~ Refused(command)
      /\ UNCHANGED <<ask, sd, sdI, kvn, heard, reply, told, got>>
  BY DEF Send, discoveryVars
<1>2. Typed /\ Asked /\ Terms /\ SameLevel /\ InStep /\ ses \in Session /\ sd \in Session
  BY DEF IInv, Typed, FramingTypeOK
<1>3. command \in Command /\ Builds(command) /\ Wraps(ses, command)
  <2>1. info.privlen \in {1, 3}
    BY <1>2 DEF Typed, InfoTyped
  <2> QED BY <1>1, <2>1, CallableTyped DEF Command, Refused
<1>4. ses.scp = 2 => ses.mac = 8
  BY <1>1, <1>2 DEF Terms, ModeOf, Joined
<1>5. Wrapped(ses, command) \in WireType
  BY <1>2, <1>3, <1>4, WrappedIsRead
<1>6. /\ ses' \in Session /\ ses'.scp = ses.scp /\ ses'.mac = ses.mac
      /\ ses'.level = ses.level /\ ses'.chain = ses.chain + 1
      /\ [ses' EXCEPT !.chain = @ - 1] = ses
  BY <1>1, <1>2, CommittedTyped
<1>7. Wraps(ses', command) = Wraps(ses, command)
  BY <1>6, Zenon DEF Wraps, Wraps03, Wraps02, Body03, Body02, Encrypts
<1>8. Typed'
  BY <1>1, <1>2, <1>3, <1>5, <1>6 DEF Typed, FramingTypeOK, InfoTyped, WireType
<1>9. (Asked /\ Terms /\ SameLevel /\ InStep)'
  BY <1>1, <1>2, <1>6 DEF Asked, Terms, SameLevel, InStep, Joined
<1>10. (OnItsWay /\ Said /\ AnswersAreRead)'
  BY <1>1, <1>3, <1>6, <1>7 DEF OnItsWay, Said, AnswersAreRead
<1> QED BY <1>8, <1>9, <1>10 DEF IInv

\* The card undoes wrap, acts, and protects its answer.
LEMMA CardAnswersKeepsIInv ==
  ASSUME IInv, NEW n \in AnswerLens, NEW sw \in Statuses, NEW bare \in BOOLEAN,
         CardAnswers(n, sw, bare)
  PROVE  IInv'
<1>1. Typed /\ Asked /\ Terms /\ SameLevel /\ InStep /\ OnItsWay /\ stage = "sent"
  BY DEF IInv, CardAnswers
<1>2. /\ ses \in Session /\ sd \in Session /\ plain \in Command /\ n \in 0 .. 256
      /\ ses.chain = sd.chain + 1
  BY <1>1, FramingAssumption DEF Typed, FramingTypeOK, InStep
<1> DEFINE s == [ses EXCEPT !.chain = @ - 1]
<1>3. /\ s \in Session /\ s.scp = sd.scp /\ s.mac = sd.mac /\ s.level = sd.level
      /\ s.chain = sd.chain /\ (s.scp = 2 => s.mac = 8)
      /\ s.scp = ses.scp /\ s.mac = ses.mac /\ s.level = ses.level
  <2>1. sd.chain \in Nat /\ ses.chain - 1 = sd.chain
    BY <1>2 DEF Session
  <2>2. /\ s.scp = ses.scp /\ s.mac = ses.mac /\ s.level = ses.level
        /\ s.chain = sd.chain /\ s \in Session
    BY <1>2, <2>1 DEF Session
  <2>3. ses.scp = 2 => ses.mac = 8
    BY <1>1 DEF Terms, Joined, ModeOf
  <2> QED BY <1>1, <2>2, <2>3 DEF Terms, SameLevel, Joined
<1>4. Builds(plain) /\ Wraps(ses, plain) /\ wire = Wrapped(s, plain)
  BY <1>1 DEF OnItsWay
<1> HIDE DEF s
<1>5. Wraps(s, plain)
  <2>1. Wraps(s, plain) = Wraps(ses, plain)
    BY <1>3, Zenon DEF Wraps, Wraps03, Wraps02, Body03, Body02, Encrypts
  <2> QED BY <1>4, <2>1
<1>6. CardReads(sd, wire) = plain.data
  BY <1>2, <1>3, <1>4, <1>5, WrappedIsRead
<1>7. plain.data \in 0 .. 255 /\ CardReads(sd, wire) # Rejects
  BY <1>2, <1>4, <1>6 DEF Command, Builds, Rejects
<1> DEFINE b == bare \/ CardReads(sd, wire) = Rejects
           a == Answer(sd, n, sw, b)
<1>8. /\ stage' = "answered" /\ info' = info
      /\ (sw = "error" => n = 0) /\ a.body <= RAPDU_MAX - 2
      /\ heard' = CardReads(sd, wire) /\ reply' = a /\ told' = <<n, sw>>
      /\ sd' = Committed(sd)
      /\ UNCHANGED <<ask, ses, sdI, kvn, plain, wire, got>>
  BY <1>7 DEF CardAnswers, discoveryVars
<1>9. b \in BOOLEAN
  OBVIOUS
<1> HIDE DEF b
<1>10. a \in AnswerType /\ Answer(Committed(sd), n, sw, b) = a
  BY <1>2, <1>8, <1>9, AnswerTyped
<1> HIDE DEF a
<1>11. /\ sd' \in Session /\ sd'.scp = sd.scp /\ sd'.mac = sd.mac
       /\ sd'.level = sd.level /\ sd'.chain = sd.chain + 1
  BY <1>2, <1>8, CommittedTyped
<1>12. Typed'
  <2>1. InfoTyped' /\ wire' \in WireType /\ reply' \in AnswerType
    BY <1>1, <1>8, <1>10 DEF Typed, InfoTyped
  <2>2. reply'.body \in 0 .. RAPDU_MAX - 2
    BY <2>1 DEF AnswerType
  <2>3. heard' \in -1 .. 255
    BY <1>6, <1>7, <1>8
  <2>4. told' \in (0 .. 256) \X Statuses
    BY <1>2, <1>8
  <2>5. FramingTypeOK'
    BY <1>1, <1>8, <1>11, <2>2, <2>3, <2>4 DEF Typed, FramingTypeOK
  <2> QED BY <2>1, <2>5 DEF Typed
<1>13. (Asked /\ Terms /\ SameLevel /\ InStep)'
  BY <1>1, <1>2, <1>8, <1>11 DEF Asked, Terms, SameLevel, InStep, Joined
<1>14. Said'
  <2>1. told'[1] = n /\ told'[2] = sw /\ reply' = Answer(sd', told'[1], told'[2], b)
    BY <1>8, <1>10
  <2> QED BY <1>6, <1>8, <1>9, <2>1 DEF Said
<1>15. (OnItsWay /\ AnswersAreRead)'
  BY <1>1, <1>8 DEF OnItsWay, AnswersAreRead
<1> QED BY <1>12, <1>13, <1>14, <1>15 DEF IInv

\* unwrap returns the card's answer, or breaks the channel on an SCP02 error.
LEMMA ReceiveKeepsIInv ==
  ASSUME IInv, Receive
  PROVE  IInv'
<1>1. Typed /\ Asked /\ Terms /\ SameLevel /\ InStep /\ Said /\ stage = "answered"
  BY DEF IInv, Receive
<1>2. /\ ses \in Session /\ sd \in Session /\ sdI \in 0 .. 255
      /\ told \in (0 .. 256) \X Statuses
  BY <1>1 DEF Typed, FramingTypeOK
<1>3. PICK bare \in BOOLEAN : reply = Answer(sd, told[1], told[2], bare)
  BY <1>1 DEF Said
<1>4. /\ told[1] \in 0 .. 256 /\ told[2] \in Statuses /\ told = <<told[1], told[2]>>
      /\ (told[2] = "error" => told[1] = 0)
  BY <1>1, <1>2 DEF Said
<1>5. /\ ses.scp = sd.scp /\ ses.mac = sd.mac /\ ses.level = sd.level
      /\ (ses.scp = 2 => ses.mac = 8) /\ ses.level \subseteq Allowed(ses.scp, sdI)
  <2>1. stage \in Joined
    BY <1>1 DEF Joined
  <2>2. /\ ses.scp = sd.scp /\ ses.mac = sd.mac /\ ses.scp = ask.variant.scp
        /\ ses.mac = ModeOf(ask.variant) /\ ses.level \subseteq Allowed(ses.scp, sdI)
    BY <1>1, <2>1 DEF Terms
  <2>3. ses.level = sd.level
    BY <1>1, <2>1 DEF SameLevel
  <2>4. ses.scp = 2 => ses.mac = 8
    BY <2>2 DEF ModeOf
  <2> QED BY <2>2, <2>3, <2>4
<1>6. \/ Unwrap(ses, reply) = told[1]
      \/ Unwrap(ses, reply) = Rejects /\ ses.scp = 2 /\ told[2] = "error"
  <2>1. Alike(ses, sd, sdI)
    BY <1>2, <1>5 DEF Alike
  <2>2. MaySay(told[1], told[2])
    BY <1>4 DEF MaySay
  <2> QED BY <1>3, <2>1, <2>2, AnswerIsRead
<1>7. reply.sw = told[2]
  BY <1>3 DEF Answer
<1>8. /\ plain' = NoCommand /\ wire' = NoWire /\ heard' = 0 /\ reply' = NoReply /\ info' = info
      /\ UNCHANGED <<ask, ses, sd, sdI, kvn, told>>
  BY DEF Receive, discoveryVars
<1>9. \/ Unwrap(ses, reply) = Rejects /\ stage' = "broken" /\ got' = got
      \/ Unwrap(ses, reply) # Rejects /\ stage' = "open" /\ got' = <<Unwrap(ses, reply), reply.sw>>
  BY DEF Receive
<1>10. \/ stage' = "broken" /\ got' = got /\ ses.scp = 2 /\ told[2] = "error"
       \/ stage' = "open" /\ got' = told
  <2>1. told[1] # Rejects
    BY <1>4 DEF Rejects
  <2> QED BY <1>4, <1>6, <1>7, <1>9, <2>1
<1>11. Typed'
  <2>1. InfoTyped' /\ wire' \in WireType /\ reply' \in AnswerType
    BY <1>1, <1>8, Defaults DEF Typed, InfoTyped
  <2>2. /\ wire'.bytes \in 0 .. 255 /\ wire'.chain \in Nat /\ wire'.mac \in {8, 16}
        /\ reply'.body \in 0 .. RAPDU_MAX - 2 /\ heard' \in -1 .. 255
    BY <1>8, <2>1 DEF WireType, AnswerType
  <2>3. stage' \in {"closed", "iu", "ea", "open", "sent", "answered", "broken"}
    BY <1>10
  <2>4. got' \in (0 .. 256) \X Statuses
    BY <1>1, <1>2, <1>10 DEF Typed, FramingTypeOK
  <2>5. FramingTypeOK'
    BY <1>1, <1>8, <2>2, <2>3, <2>4, Defaults DEF Typed, FramingTypeOK
  <2> QED BY <2>1, <2>5 DEF Typed
<1>12. (Asked /\ Terms /\ SameLevel /\ InStep)'
  BY <1>1, <1>8, <1>10 DEF Asked, Terms, SameLevel, InStep, Joined
<1>13. (OnItsWay /\ Said /\ AnswersAreRead)'
  BY <1>8, <1>10 DEF OnItsWay, Said, AnswersAreRead
<1> QED BY <1>11, <1>12, <1>13 DEF IInv

\* Every step of discovery and of the channel keeps the invariant.
LEMMA NextKeepsIInv ==
  ASSUME IInv, [Next]_vars
  PROVE  IInv'
<1>1. CASE UNCHANGED vars \/ (DiscoveryNext /\ UNCHANGED channelVars)
  <2>1. UNCHANGED <<stage, ask, ses, sd, sdI, kvn, plain, wire, heard, reply, told, got>>
    BY <1>1 DEF vars, channelVars
  <2>2. InfoTyped'
    <3>1. CASE UNCHANGED vars
      BY <3>1 DEF IInv, Typed, InfoTyped, vars, discoveryVars
    <3>2. CASE DiscoveryNext
      BY <3>2, DiscoveryKeepsInfo DEF IInv, Typed
    <3> QED BY <1>1, <3>1, <3>2
  <2>3. Typed'
    BY <2>1, <2>2 DEF IInv, Typed, FramingTypeOK
  <2>4. (Asked /\ Terms /\ SameLevel /\ InStep)'
    BY <2>1 DEF IInv, Asked, Terms, SameLevel, InStep
  <2>5. (OnItsWay /\ Said /\ AnswersAreRead)'
    BY <2>1 DEF IInv, OnItsWay, Said, AnswersAreRead
  <2> QED BY <2>3, <2>4, <2>5 DEF IInv
<1>2. CASE \E force \in Forced \cup {NoVariant}, version \in RequestedKvns,
              level \in RequestedLevels : OpenScp(force, version, level)
  BY <1>2, OpenScpKeepsIInv
<1>3. CASE OpenFails
  BY <1>3, EndKeepsIInv DEF OpenFails
<1>4. CASE \E iu \in IuAnswers : IuAnswered(iu)
  BY <1>4, IuAnsweredKeepsIInv
<1>5. CASE EaAccepted
  BY <1>5, EaAcceptedKeepsIInv
<1>6. CASE \E command \in Callable(info.privlen) : SendRefused(command) \/ Send(command)
  BY <1>6, SendRefusedKeepsIInv, SendKeepsIInv
<1>7. CASE \E n \in AnswerLens, sw \in Statuses, bare \in BOOLEAN : CardAnswers(n, sw, bare)
  BY <1>7, CardAnswersKeepsIInv
<1>8. CASE Receive
  BY <1>8, ReceiveKeepsIInv
<1>9. CASE CloseChannel
  BY <1>9, EndKeepsIInv DEF CloseChannel
<1> QED BY <1>1, <1>2, <1>3, <1>4, <1>5, <1>6, <1>7, <1>8, <1>9 DEF Next

\* In every behaviour of discover_card, open_scp, transmit and close_channel
\* the ends agree on terms and on the command and answer under way.
THEOREM Inductive == Spec => []IInv
<1>1. IInv /\ [Next]_vars => IInv'
  BY NextKeepsIInv
<1> QED BY <1>1, InitIInv, PTL DEF Spec

------------------------------------------------------------------------------
\* Every length, level and counter keeps within what its field of an
\* APDU, or of the session, can hold.
THEOREM TypeCorrect == Spec => []FramingTypeOK
<1>1. IInv => FramingTypeOK
  BY DEF IInv, Typed
<1> QED BY <1>1, Inductive, PTL

\* The ends of a channel open_scp returned hold the same session, on the
\* variant, key version and level the caller asked for.
THEOREM TermsAreKept == Spec => []AgreedParameters
<1>1. IInv => AgreedParameters
  BY DEF IInv, Terms, SameLevel, AgreedParameters, Joined
<1> QED BY <1>1, Inductive, PTL

\* The card finds in the bytes wrap sent the data that was to be sent.
THEOREM CommandsAreRead == Spec => []CardReadsTheCommand
<1>1. ASSUME IInv PROVE CardReadsTheCommand
  <2>1. stage = "open" => ses.chain = sd.chain
    BY <1>1 DEF IInv, InStep
  <2>2. 5 + wire.bytes + (IF wire.le THEN 1 ELSE 0) <= CAPDU_MAX
    BY <1>1 DEF IInv, Typed, WireType, CAPDU_MAX
  <2>3. stage = "answered" => heard = plain.data /\ heard = wire.clear
    BY <1>1 DEF IInv, Said, OnItsWay, Wrapped
  <2> QED BY <2>1, <2>2, <2>3 DEF CardReadsTheCommand
<1> QED BY <1>1, Inductive, PTL

\* What unwrap returns is what the card answered.
THEOREM AnswersReachTheCaller == Spec => []AnswersAreRead
<1>1. IInv => AnswersAreRead
  BY DEF IInv
<1> QED BY <1>1, Inductive, PTL

\* A block of LOAD_BLOCK_DATA bytes is refused neither by load_block nor by
\* wrap, whatever the channel.
THEOREM EveryBlockFits == Spec => []LoadBlocksFit
<1>1. ASSUME IInv PROVE LoadBlocksFit
  <2>1. ses \in Session
    BY <1>1 DEF IInv, Typed, FramingTypeOK
  <2> QED BY <2>1, BlocksFit DEF LoadBlocksFit, Refused
<1> QED BY <1>1, Inductive, PTL

------------------------------------------------------------------------------
(***************************************************************************)
(* What discovery tells of the card                                        *)
(***************************************************************************)
\* A set of numbers that holds what follows any of its numbers holds them all, up
\* to where that goes: how the recursive functions of the decoders are followed.
LEMMA CountingUp ==
  ASSUME NEW m \in Nat, NEW T, 0 \in T, \A n \in 1 .. m : n - 1 \in T => n \in T
  PROVE  0 .. m \subseteq T
<1> DEFINE missing == {n \in 0 .. m : n \notin T}
<1> SUFFICES ASSUME missing # {} PROVE FALSE
  OBVIOUS
<1>0. missing \subseteq Nat
  OBVIOUS
<1>1. PICK n \in missing : \A k \in missing : n <= k
  BY <1>0, LeastExists
<1>2. n # 0 /\ n \in 1 .. m /\ n - 1 \in 0 .. m /\ n - 1 \notin missing
  BY <1>1
<1> QED BY <1>2

\* What a template lists, and what it is sorted into.
KeyInfos == [kid : 0 .. 255, type : KeyTypes \cup {"B9"}]
Pairs == (0 .. 255) \X KeyInfos
KeysetType == [kvn : 0 .. 255, keys : Seq(KeyInfos)]

\* A function of the first n pushes, of the first n entries, or of the first n
\* keys under a version, up to m of them.
PushesUpTo(keys, g, m) ==
  g = [n \in 0 .. m |-> IF n = 0 THEN <<>> ELSE PushKey(g[n - 1], keys[n][1], keys[n][2])]

OfVersion(e) == [k \in 1 .. Len(KeysOf(e)) |-> <<e.kvn, KeysOf(e)[k]>>]
ListsUpTo(entries, g, m) ==
  g = [n \in 0 .. m |-> IF n = 0 THEN <<>>
                        ELSE IF entries[n].short THEN g[n - 1]
                        ELSE g[n - 1] \o OfVersion(entries[n])]

SelectsUpTo(keys, v, g, m) ==
  g = [n \in 0 .. m |-> IF n = 0 THEN <<>>
                        ELSE IF keys[n][1] = v THEN Append(g[n - 1], keys[n])
                        ELSE g[n - 1]]

\* parse_key_information has pushed so much after so many keys.
LEMMA PushesDefined ==
  ASSUME NEW keys \in Seq(Pairs)
  PROVE  PushesUpTo(keys, KeysetsUpTo(keys), Len(keys))
<1> DEFINE X == {m \in Nat : \E g : PushesUpTo(keys, g, m)}
<1>0. Len(keys) \in Nat
  OBVIOUS
<1>1. 0 \in X
  <2>1. PushesUpTo(keys, [n \in 0 .. 0 |-> <<>>], 0)
    BY DEF PushesUpTo
  <2> QED BY <2>1
<1>2. ASSUME NEW m \in 1 .. Len(keys), m - 1 \in X PROVE m \in X
  <2>0. m \in Nat
    BY <1>0
  <2>1. PICK g : PushesUpTo(keys, g, m - 1)
    BY <1>2
  <2> DEFINE Further(f, n) == PushKey(f, keys[n][1], keys[n][2])
             h == [n \in 0 .. m |-> IF n = m THEN Further(g[m - 1], m) ELSE g[n]]
  <2>2. \A n \in 0 .. m - 1 : g[n] = IF n = 0 THEN <<>> ELSE Further(g[n - 1], n)
    BY <2>1 DEF PushesUpTo
  <2>3. \A n \in 0 .. m : h[n] = IF n = 0 THEN <<>> ELSE Further(h[n - 1], n)
    <3> HIDE DEF Further
    <3> QED BY <2>0, <2>2
  <2>4. PushesUpTo(keys, h, m)
    <3> h = [n \in 0 .. m |-> h[n]]
      OBVIOUS
    <3> HIDE DEF h
    <3> QED BY <2>3 DEF PushesUpTo
  <2> QED BY <2>0, <2>4
<1>3. Len(keys) \in X
  <2> HIDE DEF X
  <2>1. 0 .. Len(keys) \subseteq X
    BY <1>0, <1>1, <1>2, CountingUp
  <2> QED BY <1>0, <2>1
<1>4. KeysetsUpTo(keys) = CHOOSE g : PushesUpTo(keys, g, Len(keys))
  BY DEF KeysetsUpTo, PushesUpTo
<1> QED BY <1>3, <1>4

\* The keys of a template are defined up to each of its entries.
LEMMA ListsDefined ==
  ASSUME NEW entries \in Seq(KeyEntries)
  PROVE  ListsUpTo(entries, KeysUpTo(entries), Len(entries))
<1> DEFINE X == {m \in Nat : \E g : ListsUpTo(entries, g, m)}
<1>0. Len(entries) \in Nat
  OBVIOUS
<1>1. 0 \in X
  <2>1. ListsUpTo(entries, [n \in 0 .. 0 |-> <<>>], 0)
    BY DEF ListsUpTo
  <2> QED BY <2>1
<1>2. ASSUME NEW m \in 1 .. Len(entries), m - 1 \in X PROVE m \in X
  <2>0. m \in Nat
    BY <1>0
  <2>1. PICK g : ListsUpTo(entries, g, m - 1)
    BY <1>2
  <2> DEFINE Further(f, n) == IF entries[n].short THEN f ELSE f \o OfVersion(entries[n])
             h == [n \in 0 .. m |-> IF n = m THEN Further(g[m - 1], m) ELSE g[n]]
  <2>2. \A n \in 0 .. m - 1 : g[n] = IF n = 0 THEN <<>> ELSE Further(g[n - 1], n)
    BY <2>1 DEF ListsUpTo
  <2>3. \A n \in 0 .. m : h[n] = IF n = 0 THEN <<>> ELSE Further(h[n - 1], n)
    <3> HIDE DEF Further
    <3> QED BY <2>0, <2>2
  <2>4. ListsUpTo(entries, h, m)
    <3> h = [n \in 0 .. m |-> h[n]]
      OBVIOUS
    <3> HIDE DEF h
    <3> QED BY <2>3 DEF ListsUpTo
  <2> QED BY <2>0, <2>4
<1>3. Len(entries) \in X
  <2> HIDE DEF X
  <2>1. 0 .. Len(entries) \subseteq X
    BY <1>0, <1>1, <1>2, CountingUp
  <2> QED BY <1>0, <2>1
<1>4. KeysUpTo(entries) = CHOOSE g : ListsUpTo(entries, g, Len(entries))
  BY DEF KeysUpTo, ListsUpTo, OfVersion
<1> QED BY <1>3, <1>4

\* So are the keys under a version, up to each key.
LEMMA UnderDefined ==
  ASSUME NEW keys \in Seq(Pairs), NEW v
  PROVE  SelectsUpTo(keys, v, UnderUpTo(keys, v), Len(keys))
<1> DEFINE X == {m \in Nat : \E g : SelectsUpTo(keys, v, g, m)}
<1>0. Len(keys) \in Nat
  OBVIOUS
<1>1. 0 \in X
  <2>1. SelectsUpTo(keys, v, [n \in 0 .. 0 |-> <<>>], 0)
    BY DEF SelectsUpTo
  <2> QED BY <2>1
<1>2. ASSUME NEW m \in 1 .. Len(keys), m - 1 \in X PROVE m \in X
  <2>0. m \in Nat
    BY <1>0
  <2>1. PICK g : SelectsUpTo(keys, v, g, m - 1)
    BY <1>2
  <2> DEFINE Further(f, n) == IF keys[n][1] = v THEN Append(f, keys[n]) ELSE f
             h == [n \in 0 .. m |-> IF n = m THEN Further(g[m - 1], m) ELSE g[n]]
  <2>2. \A n \in 0 .. m - 1 : g[n] = IF n = 0 THEN <<>> ELSE Further(g[n - 1], n)
    BY <2>1 DEF SelectsUpTo
  <2>3. \A n \in 0 .. m : h[n] = IF n = 0 THEN <<>> ELSE Further(h[n - 1], n)
    <3> HIDE DEF Further
    <3> QED BY <2>0, <2>2
  <2>4. SelectsUpTo(keys, v, h, m)
    <3> h = [n \in 0 .. m |-> h[n]]
      OBVIOUS
    <3> HIDE DEF h
    <3> QED BY <2>3 DEF SelectsUpTo
  <2> QED BY <2>0, <2>4
<1>3. Len(keys) \in X
  <2> HIDE DEF X
  <2>1. 0 .. Len(keys) \subseteq X
    BY <1>0, <1>1, <1>2, CountingUp
  <2> QED BY <1>0, <2>1
<1>4. UnderUpTo(keys, v) = CHOOSE g : SelectsUpTo(keys, v, g, Len(keys))
  BY DEF UnderUpTo, SelectsUpTo
<1> QED BY <1>3, <1>4

\* A template lists keys, each with its version.
LEMMA KeysTyped ==
  ASSUME NEW entries \in Seq(KeyEntries)
  PROVE  KeysIn(entries) \in Seq(Pairs)
<1>0. Len(entries) \in Nat
  OBVIOUS
<1>1. PICK f : f = KeysUpTo(entries)
  OBVIOUS
<1>2. ListsUpTo(entries, f, Len(entries))
  BY <1>1, ListsDefined
<1>3. \A n \in 0 .. Len(entries) :
        f[n] = IF n = 0 THEN <<>> ELSE IF entries[n].short THEN f[n - 1]
               ELSE f[n - 1] \o OfVersion(entries[n])
  BY <1>2 DEF ListsUpTo
<1>4. ASSUME NEW e \in KeyEntries PROVE OfVersion(e) \in Seq(Pairs)
  <2>1. /\ e.kid \in 0 .. 255 /\ e.kvn \in 0 .. 255
        /\ e.types \in Seq(KeyTypes) /\ Len(e.types) \in Nat
    BY DEF KeyEntries
  <2>2. KeysOf(e) \in Seq(KeyInfos)
    <3>1. CASE e.extended
      <4>1. [kid |-> e.kid, type |-> "B9"] \in KeyInfos
        BY <2>1 DEF KeyInfos
      <4> QED BY <3>1, <4>1 DEF KeysOf
    <3>2. CASE ~e.extended
      <4>1. \A n \in 1 .. Len(e.types) : [kid |-> e.kid, type |-> e.types[n]] \in KeyInfos
        BY <2>1 DEF KeyInfos
      <4> QED BY <2>1, <3>2, <4>1 DEF KeysOf
    <3> QED BY <3>1, <3>2
  <2>3. Len(KeysOf(e)) \in Nat /\ \A k \in 1 .. Len(KeysOf(e)) : KeysOf(e)[k] \in KeyInfos
    BY <2>2
  <2>4. \A k \in 1 .. Len(KeysOf(e)) : <<e.kvn, KeysOf(e)[k]>> \in Pairs
    BY <2>1, <2>3 DEF Pairs
  <2> QED BY <2>3, <2>4 DEF OfVersion
<1> DEFINE X == {n \in 0 .. Len(entries) : f[n] \in Seq(Pairs)}
<1>5. 0 \in X
  <2>1. f[0] = <<>>
    BY <1>0, <1>3
  <2>2. <<>> \in Seq(Pairs)
    OBVIOUS
  <2>3. f[0] \in Seq(Pairs)
    BY <2>1, <2>2
  <2>4. 0 \in 0 .. Len(entries)
    BY <1>0
  <2> QED BY <2>3, <2>4
<1>6. ASSUME NEW n \in 1 .. Len(entries), n - 1 \in X PROVE n \in X
  <2>1. n \in 0 .. Len(entries) /\ n # 0 /\ entries[n] \in KeyEntries
    BY <1>0
  <2>2. f[n] = IF entries[n].short THEN f[n - 1] ELSE f[n - 1] \o OfVersion(entries[n])
    BY <1>3, <2>1
  <2>3. OfVersion(entries[n]) \in Seq(Pairs)
    BY <1>4, <2>1
  <2>4. f[n - 1] \in Seq(Pairs)
    BY <1>6
  <2>5. f[n - 1] \o OfVersion(entries[n]) \in Seq(Pairs)
    BY <2>3, <2>4, ConcatProperties
  <2> QED BY <2>1, <2>2, <2>4, <2>5
<1>7. 0 .. Len(entries) \subseteq X
  <2> HIDE DEF X
  <2> QED BY <1>0, <1>5, <1>6, CountingUp
<1> QED BY <1>0, <1>1, <1>7 DEF KeysIn

\* A keyset holds the pairs listed under its version, in their order.
Holds(set, under) ==
  /\ under \in Seq(Pairs) /\ Len(under) = Len(set.keys) /\ set.keys # <<>>
  /\ \A k \in 1 .. Len(under) : under[k] = <<set.kvn, set.keys[k]>>

\* What has been pushed so far is what was listed so far: no version twice, none
\* left out, and under each what was listed under it.
Sorted(keys, n, sets, under) ==
  /\ sets \in Seq(KeysetType)
  /\ \A i, j \in 1 .. Len(sets) : sets[i].kvn = sets[j].kvn => i = j
  /\ \A m \in 1 .. n : \E i \in 1 .. Len(sets) : sets[i].kvn = keys[m][1]
  /\ \A i \in 1 .. Len(sets) : Holds(sets[i], under[sets[i].kvn])
  /\ \A v \in 0 .. 255 : (\A i \in 1 .. Len(sets) : sets[i].kvn # v) => under[v] = <<>>

\* A keyset stays in step with its pairs when both get one more.
LEMMA HoldsOneMore ==
  ASSUME NEW set \in KeysetType, NEW under, Holds(set, under), NEW key \in KeyInfos
  PROVE  Holds([set EXCEPT !.keys = Append(@, key)], Append(under, <<set.kvn, key>>))
<1>1. set.kvn \in 0 .. 255 /\ set.keys \in Seq(KeyInfos) /\ Len(set.keys) \in Nat
  BY DEF KeysetType
<1>2. PICK v : v = set.kvn
  OBVIOUS
<1>3. PICK s : s = set.keys
  OBVIOUS
<1>4. <<v, key>> \in Pairs
  BY <1>1, <1>2 DEF Pairs
<1>5. PICK more : more = [set EXCEPT !.keys = Append(@, key)]
  OBVIOUS
<1>6. more.kvn = v /\ more.keys = Append(s, key)
  BY <1>2, <1>3, <1>5 DEF KeysetType
<1>7. /\ under \in Seq(Pairs) /\ Len(under) = Len(s) /\ Len(s) \in Nat /\ s \in Seq(KeyInfos)
      /\ \A k \in 1 .. Len(under) : under[k] = <<v, s[k]>>
  BY <1>1, <1>2, <1>3 DEF Holds
<1>8. PICK longer : longer = Append(under, <<v, key>>)
  OBVIOUS
<1>9. longer \in Seq(Pairs) /\ Len(longer) = Len(s) + 1
  BY <1>4, <1>7, <1>8
<1>10. Len(Append(s, key)) = Len(s) + 1
  BY <1>7
<1>11. ASSUME NEW k \in 1 .. Len(longer) PROVE longer[k] = <<v, Append(s, key)[k]>>
  <2>1. CASE k = Len(s) + 1
    BY <1>7, <1>8, <2>1
  <2>2. CASE k # Len(s) + 1
    <3>1. k \in 1 .. Len(s)
      BY <1>7, <1>9, <2>2
    <3>2. Append(s, key)[k] = s[k]
      BY <1>7, <3>1
    <3>3. longer[k] = under[k]
      BY <1>7, <1>8, <3>1
    <3> QED BY <1>7, <3>1, <3>2, <3>3
  <2> QED BY <2>1, <2>2
<1>12. Append(s, key) # <<>>
  BY <1>7, AppendProperties
<1> QED BY <1>2, <1>5, <1>6, <1>8, <1>9, <1>10, <1>11, <1>12 DEF Holds

\* One more place.
LEMMA OnePlace ==
  ASSUME NEW l \in Nat
  PROVE  /\ \A i \in 1 .. l + 1 : i \in 1 .. l \/ i = l + 1
         /\ l + 1 \in 1 .. l + 1
         /\ \A i \in 1 .. l : i \in 1 .. l + 1
OBVIOUS

\* push_key keeps that, under a version that is listed and under a new one.
LEMMA PushKeepsSorted ==
  ASSUME NEW keys \in Seq(Pairs), NEW n \in 1 .. Len(keys),
         NEW sets, NEW under, Sorted(keys, n - 1, sets, under), NEW next,
         \A v \in 0 .. 255 :
           next[v] = IF keys[n][1] = v THEN Append(under[v], keys[n]) ELSE under[v]
  PROVE  Sorted(keys, n, PushKey(sets, keys[n][1], keys[n][2]), next)
<1>0. Len(keys) \in Nat /\ n \in Nat /\ keys[n] \in Pairs
  <2>1. Len(keys) \in Nat
    OBVIOUS
  <2>2. n \in Nat
    BY <2>1
  <2>3. keys[n] \in Pairs
    BY ElementOfSeq
  <2> QED BY <2>1, <2>2, <2>3
<1>1. PICK v \in 0 .. 255, key \in KeyInfos : keys[n] = <<v, key>>
  <2>1. \A p \in Pairs : p = <<p[1], p[2]>> /\ p[1] \in 0 .. 255 /\ p[2] \in KeyInfos
    BY DEF Pairs
  <2> QED BY <1>0, <2>1
<1>2. keys[n][1] = v /\ keys[n][2] = key
  BY <1>1
<1>3. PICK after : after = PushKey(sets, v, key)
  OBVIOUS
<1>4. /\ sets \in Seq(KeysetType) /\ Len(sets) \in Nat /\ DOMAIN sets = 1 .. Len(sets)
      /\ \A i \in 1 .. Len(sets) : sets[i] \in KeysetType /\ sets[i].kvn \in 0 .. 255
  <2>1. sets \in Seq(KeysetType)
    BY DEF Sorted
  <2>2. ASSUME NEW i \in 1 .. Len(sets) PROVE sets[i] \in KeysetType
    BY <2>1, ElementOfSeq
  <2>3. \A set \in KeysetType : set.kvn \in 0 .. 255
    BY DEF KeysetType
  <2>4. Len(sets) \in Nat /\ DOMAIN sets = 1 .. Len(sets)
    BY <2>1, LenProperties
  <2> QED BY <2>1, <2>2, <2>3, <2>4
<1>5. /\ \A i, j \in 1 .. Len(sets) : sets[i].kvn = sets[j].kvn => i = j
      /\ \A m \in 1 .. n - 1 : \E i \in 1 .. Len(sets) : sets[i].kvn = keys[m][1]
      /\ \A i \in 1 .. Len(sets) : Holds(sets[i], under[sets[i].kvn])
      /\ \A w \in 0 .. 255 : (\A i \in 1 .. Len(sets) : sets[i].kvn # w) => under[w] = <<>>
  BY DEF Sorted
<1>6. next[v] = Append(under[v], <<v, key>>) /\ \A w \in 0 .. 255 : w # v => next[w] = under[w]
  BY <1>1, <1>2
<1>7. CASE \E i \in 1 .. Len(sets) : sets[i].kvn = v
  <2> DEFINE Longer(set) == [set EXCEPT !.keys = Append(@, key)]
  <2>1. after = [i \in 1 .. Len(sets) |->
                   IF sets[i].kvn = v THEN Longer(sets[i]) ELSE sets[i]]
    BY <1>3, <1>4, <1>7 DEF PushKey
  <2>2. ASSUME NEW set \in KeysetType
        PROVE  Longer(set) \in KeysetType /\ Longer(set).kvn = set.kvn
    <3>1. set.keys \in Seq(KeyInfos)
      BY DEF KeysetType
    <3>2. Append(set.keys, key) \in Seq(KeyInfos)
      BY <3>1
    <3> QED BY <3>2 DEF KeysetType
  <2>3. \A i \in 1 .. Len(sets) :
          after[i] = IF sets[i].kvn = v THEN Longer(sets[i]) ELSE sets[i]
    BY <2>1
  <2>4. \A i \in 1 .. Len(sets) : after[i] \in KeysetType /\ after[i].kvn = sets[i].kvn
    <3> HIDE DEF Longer
    <3> QED BY <1>4, <2>2, <2>3
  <2>5. after \in Seq(KeysetType) /\ Len(after) = Len(sets)
    <3> HIDE DEF Longer
    <3> QED BY <1>4, <2>1, <2>4
  <2>6. ASSUME NEW i \in 1 .. Len(after) PROVE Holds(after[i], next[after[i].kvn])
    <3>0. i \in 1 .. Len(sets)
      BY <2>5
    <3>1. sets[i] \in KeysetType /\ Holds(sets[i], under[sets[i].kvn])
      BY <1>4, <1>5, <3>0
    <3>2. CASE sets[i].kvn = v
      <4>1. Holds(Longer(sets[i]), Append(under[v], <<v, key>>))
        BY <3>1, <3>2, HoldsOneMore
      <4>2. after[i] = Longer(sets[i]) /\ after[i].kvn = v
        <5> HIDE DEF Longer
        <5> QED BY <2>3, <2>4, <3>0, <3>2
      <4> HIDE DEF Longer
      <4> QED BY <1>6, <4>1, <4>2
    <3>3. CASE sets[i].kvn # v
      <4> HIDE DEF Longer
      <4> QED BY <1>4, <1>6, <2>3, <3>0, <3>1, <3>3
    <3> QED BY <3>2, <3>3
  <2> HIDE DEF Longer
  <2>7. \A i, j \in 1 .. Len(after) : after[i].kvn = after[j].kvn => i = j
    BY <1>5, <2>4, <2>5
  <2>8. ASSUME NEW m \in 1 .. n PROVE \E i \in 1 .. Len(after) : after[i].kvn = keys[m][1]
    <3>1. \E i \in 1 .. Len(sets) : sets[i].kvn = keys[m][1]
      <4>1. CASE m = n
        BY <1>2, <1>7, <4>1
      <4>2. CASE m # n
        <5>1. m \in 1 .. n - 1
          BY <1>0, <4>2
        <5> QED BY <1>5, <5>1
      <4> QED BY <4>1, <4>2
    <3> QED BY <2>4, <2>5, <3>1
  <2>9. ASSUME NEW w \in 0 .. 255, \A i \in 1 .. Len(after) : after[i].kvn # w
        PROVE  next[w] = <<>>
    <3>1. \A i \in 1 .. Len(sets) : sets[i].kvn # w
      BY <2>4, <2>5, <2>9
    <3>2. w # v
      BY <1>7, <3>1
    <3> QED BY <1>5, <1>6, <3>1, <3>2
  <2>10. Sorted(keys, n, after, next)
    BY <2>5, <2>6, <2>7, <2>8, <2>9 DEF Sorted
  <2> QED BY <1>2, <1>3, <2>10
<1>8. CASE ~\E i \in 1 .. Len(sets) : sets[i].kvn = v
  <2>1. PICK new : new = [kvn |-> v, keys |-> <<key>>]
    OBVIOUS
  <2>2. after = Append(sets, new)
    BY <1>3, <1>4, <1>8, <2>1 DEF PushKey
  <2>3. new \in KeysetType /\ new.kvn = v /\ new.keys = <<key>>
    BY <2>1 DEF KeysetType
  <2>4. after \in Seq(KeysetType) /\ Len(after) = Len(sets) + 1
    BY <1>4, <2>2, <2>3
  <2>5. /\ \A i \in 1 .. Len(sets) : after[i] = sets[i]
        /\ after[Len(sets) + 1] = new
    BY <1>4, <2>2, <2>3
  <2>0. /\ \A i \in 1 .. Len(after) : i \in 1 .. Len(sets) \/ i = Len(sets) + 1
        /\ Len(sets) + 1 \in 1 .. Len(after)
        /\ \A i \in 1 .. Len(sets) : i \in 1 .. Len(after)
    <3>1. PICK l \in Nat : l = Len(sets)
      BY <1>4
    <3>2. Len(after) = l + 1
      BY <2>4, <3>1
    <3> QED BY <3>1, <3>2, OnePlace
  <2>6. under[v] = <<>>
    BY <1>5, <1>8
  <2>7. Holds(new, next[v])
    <3>1. next[v] = <<<<v, key>>>>
      BY <1>6, <2>6
    <3>2. <<v, key>> \in Pairs
      BY DEF Pairs
    <3>3. PICK pair : pair = <<v, key>>
      OBVIOUS
    <3>4. next[v] = <<pair>> /\ pair \in Pairs
      BY <3>1, <3>2, <3>3
    <3>5. /\ next[v] \in Seq(Pairs) /\ Len(next[v]) = 1
          /\ \A k \in 1 .. Len(next[v]) : k = 1 /\ next[v][k] = pair
      BY <3>4
    <3>6. Len(new.keys) = 1 /\ new.keys # <<>> /\ new.keys[1] = key
      BY <2>3
    <3> QED BY <2>3, <3>3, <3>5, <3>6 DEF Holds
  <2>8. ASSUME NEW i \in 1 .. Len(after) PROVE Holds(after[i], next[after[i].kvn])
    <3>1. CASE i = Len(sets) + 1
      BY <2>3, <2>5, <2>7, <3>1
    <3>2. CASE i # Len(sets) + 1
      <4>1. i \in 1 .. Len(sets)
        BY <2>0, <3>2
      <4>2. after[i] = sets[i] /\ Holds(sets[i], under[sets[i].kvn])
        BY <1>5, <2>5, <4>1
      <4>3. sets[i].kvn \in 0 .. 255 /\ sets[i].kvn # v
        BY <1>4, <1>8, <4>1
      <4>4. next[sets[i].kvn] = under[sets[i].kvn]
        BY <1>6, <4>3
      <4> QED BY <4>2, <4>4
    <3> QED BY <3>1, <3>2
  <2>9. ASSUME NEW i \in 1 .. Len(after), NEW j \in 1 .. Len(after),
               after[i].kvn = after[j].kvn
        PROVE  i = j
    <3>1. /\ i \in 1 .. Len(sets) \/ i = Len(sets) + 1
          /\ j \in 1 .. Len(sets) \/ j = Len(sets) + 1
      BY <2>0
    <3> QED BY <1>5, <1>8, <2>3, <2>5, <2>9, <3>1
  <2>10. ASSUME NEW m \in 1 .. n PROVE \E i \in 1 .. Len(after) : after[i].kvn = keys[m][1]
    <3>1. CASE m = n
      BY <1>2, <2>0, <2>3, <2>5, <3>1
    <3>2. CASE m # n
      <4>1. PICK i \in 1 .. Len(sets) : sets[i].kvn = keys[m][1]
        <5>1. m \in 1 .. n - 1
          BY <1>0, <3>2
        <5> QED BY <1>5, <5>1
      <4>2. i \in 1 .. Len(after)
        BY <2>0
      <4> QED BY <2>5, <4>1, <4>2
    <3> QED BY <3>1, <3>2
  <2>11. ASSUME NEW w \in 0 .. 255, \A i \in 1 .. Len(after) : after[i].kvn # w
         PROVE  next[w] = <<>>
    <3>1. \A i \in 1 .. Len(sets) : sets[i].kvn # w
      BY <2>0, <2>5, <2>11
    <3>2. w # v
      BY <2>0, <2>3, <2>5, <2>11
    <3> QED BY <1>5, <1>6, <3>1, <3>2
  <2>12. Sorted(keys, n, after, next)
    BY <2>4, <2>8, <2>9, <2>10, <2>11 DEF Sorted
  <2> QED BY <1>2, <1>3, <2>12
<1> QED BY <1>7, <1>8

\* When all keys of a template are pushed the keysets are what the property says.
LEMMA AllSorted ==
  ASSUME NEW keys \in Seq(Pairs)
  PROVE  \E under : /\ \A v \in 0 .. 255 : under[v] = UnderUpTo(keys, v)[Len(keys)]
                    /\ Sorted(keys, Len(keys), KeysetsUpTo(keys)[Len(keys)], under)
<1>0. Len(keys) \in Nat /\ \A n \in 1 .. Len(keys) : keys[n] \in Pairs
  OBVIOUS
<1> DEFINE Under(n) == [v \in 0 .. 255 |-> UnderUpTo(keys, v)[n]]
<1>1. PICK f : f = KeysetsUpTo(keys)
  OBVIOUS
<1>2. PushesUpTo(keys, f, Len(keys))
  BY <1>1, PushesDefined
<1>3. f[0] = <<>> /\ \A n \in 1 .. Len(keys) : f[n] = PushKey(f[n - 1], keys[n][1], keys[n][2])
  <2>1. \A n \in 0 .. Len(keys) :
          f[n] = IF n = 0 THEN <<>> ELSE PushKey(f[n - 1], keys[n][1], keys[n][2])
    BY <1>2 DEF PushesUpTo
  <2>2. 0 \in 0 .. Len(keys) /\ \A n \in 1 .. Len(keys) : n \in 0 .. Len(keys) /\ n # 0
    BY <1>0
  <2> QED BY <2>1, <2>2
<1>4. ASSUME NEW v \in 0 .. 255
      PROVE  /\ UnderUpTo(keys, v)[0] = <<>>
             /\ \A n \in 1 .. Len(keys) :
                  UnderUpTo(keys, v)[n] = IF keys[n][1] = v
                                          THEN Append(UnderUpTo(keys, v)[n - 1], keys[n])
                                          ELSE UnderUpTo(keys, v)[n - 1]
  <2>1. PICK g : g = UnderUpTo(keys, v)
    OBVIOUS
  <2>2. SelectsUpTo(keys, v, g, Len(keys))
    BY <2>1, UnderDefined
  <2>3. \A n \in 0 .. Len(keys) :
          g[n] = IF n = 0 THEN <<>> ELSE IF keys[n][1] = v THEN Append(g[n - 1], keys[n])
                 ELSE g[n - 1]
    BY <2>2 DEF SelectsUpTo
  <2>4. 0 \in 0 .. Len(keys) /\ \A n \in 1 .. Len(keys) : n \in 0 .. Len(keys) /\ n # 0
    BY <1>0
  <2>5. g[0] = <<>> /\ \A n \in 1 .. Len(keys) :
          g[n] = IF keys[n][1] = v THEN Append(g[n - 1], keys[n]) ELSE g[n - 1]
    BY <2>3, <2>4
  <2> QED BY <2>1, <2>5
<1>5. /\ \A v \in 0 .. 255 : Under(0)[v] = <<>>
      /\ \A n \in 1 .. Len(keys) : \A v \in 0 .. 255 :
           Under(n)[v] = IF keys[n][1] = v THEN Append(Under(n - 1)[v], keys[n])
                         ELSE Under(n - 1)[v]
  BY <1>4
<1>6. \A v \in 0 .. 255 : Under(Len(keys))[v] = UnderUpTo(keys, v)[Len(keys)]
  OBVIOUS
<1> HIDE DEF Under
<1> DEFINE X == {n \in 0 .. Len(keys) : Sorted(keys, n, f[n], Under(n))}
<1>7. 0 \in X
  <2>1. Sorted(keys, 0, <<>>, Under(0))
    BY <1>5 DEF Sorted
  <2>2. Sorted(keys, 0, f[0], Under(0))
    BY <1>3, <2>1
  <2>3. 0 \in 0 .. Len(keys)
    BY <1>0
  <2> QED BY <2>2, <2>3
<1>8. ASSUME NEW n \in 1 .. Len(keys), n - 1 \in X PROVE n \in X
  <2>1. PICK sets : sets = f[n - 1]
    OBVIOUS
  <2>2. PICK before, after : before = Under(n - 1) /\ after = Under(n)
    OBVIOUS
  <2>3. Sorted(keys, n - 1, sets, before)
    BY <1>8, <2>1, <2>2
  <2>4. \A v \in 0 .. 255 :
          after[v] = IF keys[n][1] = v THEN Append(before[v], keys[n]) ELSE before[v]
    BY <1>5, <2>2
  <2>5. Sorted(keys, n, PushKey(sets, keys[n][1], keys[n][2]), after)
    BY <2>3, <2>4, PushKeepsSorted
  <2>6. n \in 0 .. Len(keys)
    BY <1>0
  <2> QED BY <1>3, <2>1, <2>2, <2>5, <2>6
<1>9. 0 .. Len(keys) \subseteq X
  <2> HIDE DEF X
  <2> QED BY <1>0, <1>7, <1>8, CountingUp
<1>10. Sorted(keys, Len(keys), f[Len(keys)], Under(Len(keys)))
  <2>1. Len(keys) \in 0 .. Len(keys)
    BY <1>0
  <2> QED BY <1>9, <2>1
<1> QED BY <1>1, <1>6, <1>10

\* What the CardInfo says of the keys of a template.
ListsKeys(keysets, keys) ==
  /\ \A n \in DOMAIN keys : Cardinality({i \in DOMAIN keysets : keysets[i].kvn = keys[n][1]}) = 1
  /\ \A n \in DOMAIN keysets :
       LET set == keysets[n]
       IN /\ [k \in DOMAIN set.keys |-> <<set.kvn, set.keys[k]>>] =
               UnderUpTo(keys, set.kvn)[Len(keys)]
          /\ set.keys # <<>>

\* parse_key_information: every version once, with the keys listed under it.
LEMMA KeysetsAreListed ==
  ASSUME NEW entries \in Seq(KeyEntries)
  PROVE  ListsKeys(Keysets(entries), KeysIn(entries))
<1>1. PICK keys \in Seq(Pairs) : keys = KeysIn(entries)
  BY KeysTyped
<1>2. PICK sets : sets = Keysets(entries)
  OBVIOUS
<1>3. sets = KeysetsUpTo(keys)[Len(keys)]
  BY <1>1, <1>2 DEF Keysets
<1>4. PICK under : /\ \A v \in 0 .. 255 : under[v] = UnderUpTo(keys, v)[Len(keys)]
                   /\ Sorted(keys, Len(keys), sets, under)
  BY <1>3, AllSorted
<1>5. sets \in Seq(KeysetType) /\ DOMAIN sets = 1 .. Len(sets) /\ DOMAIN keys = 1 .. Len(keys)
  BY <1>4, LenProperties DEF Sorted
<1>6. ASSUME NEW n \in DOMAIN keys
      PROVE  Cardinality({i \in DOMAIN sets : sets[i].kvn = keys[n][1]}) = 1
  <2>1. PICK i \in DOMAIN sets : sets[i].kvn = keys[n][1]
    <3>1. \A m \in 1 .. Len(keys) : \E i \in 1 .. Len(sets) : sets[i].kvn = keys[m][1]
      BY <1>4 DEF Sorted
    <3> QED BY <1>5, <3>1
  <2>2. {j \in DOMAIN sets : sets[j].kvn = keys[n][1]} = {i}
    <3>1. \A j, k \in 1 .. Len(sets) : sets[j].kvn = sets[k].kvn => j = k
      BY <1>4 DEF Sorted
    <3> QED BY <1>5, <2>1, <3>1
  <2> QED BY <2>2, FS_Singleton
<1>7. ASSUME NEW n \in DOMAIN sets
      PROVE  /\ [k \in DOMAIN sets[n].keys |-> <<sets[n].kvn, sets[n].keys[k]>>] =
                 UnderUpTo(keys, sets[n].kvn)[Len(keys)]
             /\ sets[n].keys # <<>>
  <2>1. PICK set \in KeysetType : set = sets[n]
    BY <1>5, ElementOfSeq
  <2>2. set.kvn \in 0 .. 255 /\ set.keys \in Seq(KeyInfos)
    BY DEF KeysetType
  <2>3. PICK pairs : pairs = under[set.kvn]
    OBVIOUS
  <2>4. Holds(set, pairs)
    <3>1. \A i \in 1 .. Len(sets) : Holds(sets[i], under[sets[i].kvn])
      BY <1>4 DEF Sorted
    <3> QED BY <1>5, <2>1, <2>3, <3>1
  <2>5. pairs \in Seq(Pairs) /\ DOMAIN pairs = 1 .. Len(pairs) /\ DOMAIN set.keys = 1 .. Len(pairs)
    BY <2>2, <2>4, LenProperties DEF Holds
  <2>6. pairs = [k \in 1 .. Len(pairs) |-> pairs[k]]
    BY <2>5
  <2>7. [k \in DOMAIN set.keys |-> <<set.kvn, set.keys[k]>>] = pairs
    BY <2>4, <2>5, <2>6 DEF Holds
  <2> QED BY <1>4, <2>1, <2>2, <2>3, <2>4, <2>7 DEF Holds
<1> QED BY <1>1, <1>2, <1>6, <1>7 DEF ListsKeys

\* The exchanges after the recognition data, and after the key template.
PastCrd == {"kit", "cci", "iin", "cin", "cplc", "known"}
PastKit == {"cci", "iin", "cin", "cplc", "known"}

\* The parts of the CardInfo that later exchanges leave alone, once they are read.
InfoFields == {"scp", "keysets", "warnings"} \subseteq DOMAIN info
CardGiven == card \in Cards
VariantsTold ==
  pc \in PastCrd =>
    LET usable == IF card.crd.answer = "ok" THEN UsableVariants(card.crd.entries) ELSE <<>>
    IN \/ info.scp = usable
       \/ /\ usable = <<>> /\ info.scp = <<FALLBACK_SCP>>
          /\ "CardRecognitionDataMissing" \in info.warnings
KeysTold ==
  /\ pc \in {"select", "crd", "kit"} => info.keysets = <<>>
  /\ pc \in PastKit =>
       info.keysets = IF card.kit.answer = "ok" THEN Keysets(card.kit.entries) ELSE <<>>

ToldInv == InfoFields /\ CardGiven /\ VariantsTold /\ KeysTold

\* Each object is followed by the next.
LEMMA NextObject ==
  ASSUME NEW found, GoOn(found)
  PROVE  /\ info' = found /\ card' = card
         /\ pc = "crd" => pc' = "kit"
         /\ pc = "kit" => pc' = "cci"
         /\ pc = "cci" => pc' = "iin"
         /\ pc = "iin" => pc' = "cin"
         /\ pc = "cin" => pc' = "cplc"
         /\ pc = "cplc" => pc' = "known"
<1>1. info' = found /\ card' = card
  BY DEF GoOn
<1>2. CASE pc = "cplc"
  BY <1>1, <1>2 DEF GoOn
<1>3. CASE pc # "cplc"
  <2>1. PICK n \in DOMAIN Objects : Objects[n] = pc /\ pc' = Objects[n + 1]
    BY <1>3 DEF GoOn
  <2>2. n \in 1 .. 6
    BY DEF Objects
  <2>3. \/ n = 1 /\ pc = "crd" /\ pc' = "kit"
        \/ n = 2 /\ pc = "kit" /\ pc' = "cci"
        \/ n = 3 /\ pc = "cci" /\ pc' = "iin"
        \/ n = 4 /\ pc = "iin" /\ pc' = "cin"
        \/ n = 5 /\ pc = "cin" /\ pc' = "cplc"
        \/ n = 6 /\ pc = "cplc"
    BY <2>1, <2>2 DEF Objects
  <2> QED BY <1>1, <1>3, <2>3
<1> QED BY <1>2, <1>3

\* Nothing is told by a discovery that has failed, or has not begun.
LEMMA NothingTold ==
  ASSUME ToldInv, info' = NoInfo, card' = card, pc' \in {"idle", "select"}
  PROVE  ToldInv'
<1>1. InfoFields' /\ info'.keysets = <<>>
  BY DEF InfoFields, NoInfo
<1> QED BY <1>1 DEF ToldInv, CardGiven, VariantsTold, KeysTold, PastCrd, PastKit

\* An exchange that adds to the CardInfo leaves what was read before.
LEMMA ToldIsKept ==
  ASSUME ToldInv, NEW found, GoOn(found), pc \in {"cci", "iin", "cin", "cplc"},
         DOMAIN found = DOMAIN info, found.scp = info.scp, found.keysets = info.keysets,
         info.warnings \subseteq found.warnings
  PROVE  ToldInv'
<1>1. info' = found /\ card' = card /\ pc \in PastKit /\ pc' \in PastKit
  BY NextObject DEF PastKit
<1>2. pc \in PastCrd /\ pc' \in PastCrd /\ pc' \notin {"select", "crd", "kit"}
  BY <1>1 DEF PastKit, PastCrd
<1>3. InfoFields' /\ CardGiven'
  BY <1>1 DEF ToldInv, InfoFields, CardGiven
<1>4. VariantsTold'
  BY <1>1, <1>2 DEF ToldInv, VariantsTold
<1>5. KeysTold'
  BY <1>1, <1>2 DEF ToldInv, KeysTold
<1> QED BY <1>3, <1>4, <1>5 DEF ToldInv

\* Every exchange of discover_card keeps what the earlier ones have told.
LEMMA DiscoveryKeepsTold ==
  ASSUME ToldInv, DiscoveryNext
  PROVE  ToldInv'
<1>0. {"scp", "keysets", "warnings"} \subseteq DOMAIN info
  BY DEF ToldInv, InfoFields
<1>1. ASSUME NEW error, DiscoveryFails(error) PROVE ToldInv'
  BY <1>1, NothingTold DEF DiscoveryFails
<1>2. ASSUME NEW w
      PROVE  /\ DOMAIN Warn(info, w) = DOMAIN info
             /\ Warn(info, w).scp = info.scp /\ Warn(info, w).keysets = info.keysets
             /\ Warn(info, w).warnings = info.warnings \cup {w}
  BY <1>0 DEF Warn
<1>3. ASSUME NEW named \in BOOLEAN, Discover(named) PROVE ToldInv'
  BY <1>3, NothingTold DEF Discover
<1>4. CASE DiscoveryLinkFails
  BY <1>1, <1>4 DEF DiscoveryLinkFails
<1>5. CASE SelectIsd
  <2>1. CASE \E error : DiscoveryFails(error)
    BY <1>1, <2>1
  <2>2. CASE pc = "select" /\ pc' = Objects[1] /\ UNCHANGED <<card, given, info, result>>
    <3>1. pc' = "crd"
      BY <2>2 DEF Objects
    <3> QED BY <2>2, <3>1 DEF ToldInv, InfoFields, CardGiven, VariantsTold, KeysTold,
                              PastCrd, PastKit
  <2> QED BY <1>5, <2>1, <2>2 DEF SelectIsd
<1>6. CASE ReadCrd
  <2> DEFINE usable == IF card.crd.answer = "ok" THEN UsableVariants(card.crd.entries) ELSE <<>>
  <2>1. pc = "crd" /\ ((\E error : DiscoveryFails(error)) \/ GoOn(WithVariants(usable)))
    BY <1>6 DEF ReadCrd
  <2>2. CASE \E error : DiscoveryFails(error)
    BY <1>1, <2>2
  <2>3. CASE GoOn(WithVariants(usable))
    <3>1. info' = WithVariants(usable) /\ card' = card /\ pc' = "kit"
      BY <2>1, <2>3, NextObject
    <3>2. PICK u : u = usable
      OBVIOUS
    <3>3. PICK warned : warned = Warn(info, "CardRecognitionDataMissing")
      OBVIOUS
    <3>4. /\ DOMAIN warned = DOMAIN info /\ warned.keysets = info.keysets
          /\ warned.warnings = info.warnings \cup {"CardRecognitionDataMissing"}
      BY <1>2, <3>3
    <3>5. info' = IF u = <<>> THEN [warned EXCEPT !.scp = <<FALLBACK_SCP>>]
                  ELSE [info EXCEPT !.scp = u]
      BY <3>1, <3>2, <3>3 DEF WithVariants
    <3>6. /\ DOMAIN info' = DOMAIN info /\ info'.keysets = info.keysets
          /\ info'.scp = IF u = <<>> THEN <<FALLBACK_SCP>> ELSE u
          /\ u = <<>> => "CardRecognitionDataMissing" \in info'.warnings
      BY <1>0, <3>4, <3>5
    <3>7. InfoFields' /\ CardGiven'
      BY <3>1, <3>6 DEF ToldInv, InfoFields, CardGiven
    <3>8. VariantsTold'
      BY <3>1, <3>2, <3>6 DEF VariantsTold
    <3>9. KeysTold'
      BY <2>1, <3>1, <3>6 DEF ToldInv, KeysTold, PastKit
    <3> QED BY <3>7, <3>8, <3>9 DEF ToldInv
  <2> QED BY <2>1, <2>2, <2>3
<1>7. CASE ReadKit
  <2>1. /\ pc = "kit"
        /\ \/ \E error : DiscoveryFails(error)
           \/ card.kit.answer # "ok" /\ GoOn(Warn(info, "KeyInformationTemplateMissing"))
           \/ /\ card.kit.answer = "ok"
              /\ \E e : GoOn([info EXCEPT !.keysets = Keysets(card.kit.entries), !.extended = e])
    BY <1>7 DEF ReadKit
  <2>2. ASSUME NEW found, GoOn(found), DOMAIN found = DOMAIN info, found.scp = info.scp,
               info.warnings \subseteq found.warnings,
               found.keysets = IF card.kit.answer = "ok" THEN Keysets(card.kit.entries) ELSE <<>>
        PROVE  ToldInv'
    <3>1. info' = found /\ card' = card /\ pc' = "cci"
      BY <2>1, <2>2, NextObject
    <3>2. InfoFields' /\ CardGiven'
      BY <2>2, <3>1 DEF ToldInv, InfoFields, CardGiven
    <3>3. VariantsTold'
      BY <2>1, <2>2, <3>1 DEF ToldInv, VariantsTold, PastCrd
    <3>4. KeysTold'
      BY <2>2, <3>1 DEF KeysTold
    <3> QED BY <3>2, <3>3, <3>4 DEF ToldInv
  <2>3. CASE \E error : DiscoveryFails(error)
    BY <1>1, <2>3
  <2>4. CASE card.kit.answer # "ok" /\ GoOn(Warn(info, "KeyInformationTemplateMissing"))
    <3>1. info.keysets = <<>>
      BY <2>1 DEF ToldInv, KeysTold
    <3> QED BY <1>2, <2>2, <2>4, <3>1
  <2>5. CASE /\ card.kit.answer = "ok"
             /\ \E e : GoOn([info EXCEPT !.keysets = Keysets(card.kit.entries), !.extended = e])
    <3>1. PICK e : GoOn([info EXCEPT !.keysets = Keysets(card.kit.entries), !.extended = e])
      BY <2>5
    <3>2. PICK sets : sets = Keysets(card.kit.entries)
      OBVIOUS
    <3>3. PICK found : found = [info EXCEPT !.keysets = sets, !.extended = e]
      OBVIOUS
    <3>4. /\ DOMAIN found = DOMAIN info /\ found.keysets = sets
          /\ found.scp = info.scp /\ found.warnings = info.warnings
      BY <1>0, <3>3
    <3>5. GoOn(found)
      BY <3>1, <3>2, <3>3
    <3> QED BY <2>2, <2>5, <3>2, <3>4, <3>5
  <2> QED BY <2>1, <2>3, <2>4, <2>5
<1>8. CASE ReadCci
  <2>1. ASSUME NEW n
        PROVE  LET found == [info EXCEPT !.channels = n]
               IN DOMAIN found = DOMAIN info /\ found.scp = info.scp
                  /\ found.keysets = info.keysets /\ found.warnings = info.warnings
    BY <1>0
  <2>2. /\ pc = "cci"
        /\ \/ \E error : DiscoveryFails(error)
           \/ GoOn(Warn(info, "CardCapabilityInfoMissing"))
           \/ GoOn(info)
           \/ \E n : GoOn([info EXCEPT !.channels = n])
    BY <1>8 DEF ReadCci
  <2>3. CASE \E error : DiscoveryFails(error)
    BY <1>1, <2>3
  <2>4. CASE GoOn(Warn(info, "CardCapabilityInfoMissing"))
    BY <1>2, <2>2, <2>4, ToldIsKept
  <2>5. CASE GoOn(info)
    BY <2>2, <2>5, ToldIsKept
  <2>6. CASE \E n : GoOn([info EXCEPT !.channels = n])
    BY <2>1, <2>2, <2>6, ToldIsKept
  <2> QED BY <2>2, <2>3, <2>4, <2>5, <2>6
<1>9. CASE ReadDiagnostic
  <2>1. pc \in {"iin", "cin"} /\ ((\E error : DiscoveryFails(error)) \/ GoOn(info))
    BY <1>9 DEF ReadDiagnostic
  <2> QED BY <1>1, <2>1, ToldIsKept
<1>10. CASE ReadCplc
  <2>1. LET found == [info EXCEPT !.privlen = 1]
        IN DOMAIN found = DOMAIN info /\ found.scp = info.scp
           /\ found.keysets = info.keysets /\ found.warnings = info.warnings
    BY <1>0
  <2>2. /\ pc = "cplc"
        /\ (\E error : DiscoveryFails(error)) \/ GoOn(info) \/ GoOn([info EXCEPT !.privlen = 1])
    BY <1>10 DEF ReadCplc
  <2>3. CASE GoOn([info EXCEPT !.privlen = 1])
    BY <2>1, <2>2, <2>3, ToldIsKept
  <2> QED BY <1>1, <2>2, <2>3, ToldIsKept
<1> QED BY <1>3, <1>4, <1>5, <1>6, <1>7, <1>8, <1>9, <1>10 DEF DiscoveryNext

\* The channel works by the CardInfo and leaves it as it is.
LEMMA NextKeepsTold ==
  ASSUME ToldInv, [Next]_vars
  PROVE  ToldInv'
<1>1. DiscoveryNext \/ UNCHANGED discoveryVars
  BY Zenon DEF Next, vars, OpenScp, OpenFails, IuAnswered, EaAccepted, SendRefused, Send,
               CardAnswers, Receive, CloseChannel
<1>2. CASE UNCHANGED discoveryVars
  BY <1>2 DEF discoveryVars, ToldInv, InfoFields, CardGiven, VariantsTold, KeysTold
<1> QED BY <1>1, <1>2, DiscoveryKeepsTold

\* A CardInfo that discover_card returns has every usable variant and every key the
\* card lists, each version once and in the card's order, or the fallback and its
\* warning: for templates of any length.
THEOREM CardIsTold == Spec => []DiscoveryTellsTheCard
<1>1. Init => ToldInv
  BY DEF Init, DiscoveryInit, NoInfo, ToldInv, InfoFields, CardGiven, VariantsTold, KeysTold,
         PastCrd, PastKit
<1>2. ToldInv /\ [Next]_vars => ToldInv'
  BY NextKeepsTold
<1>3. ToldInv => DiscoveryTellsTheCard
  <2> SUFFICES ASSUME ToldInv, pc = "known" PROVE DiscoveryTellsTheCard
    BY DEF DiscoveryTellsTheCard
  <2> DEFINE keys == IF card.kit.answer = "ok" THEN KeysIn(card.kit.entries) ELSE <<>>
  <2>1. ListsKeys(info.keysets, keys)
    <3>1. info.keysets = IF card.kit.answer = "ok" THEN Keysets(card.kit.entries) ELSE <<>>
      BY DEF ToldInv, KeysTold, PastKit
    <3>2. CASE card.kit.answer = "ok"
      <4>1. card.kit.entries \in Seq(KeyEntries)
        BY TemplatesAssumption DEF ToldInv, CardGiven
      <4> QED BY <3>1, <3>2, <4>1, KeysetsAreListed
    <3>3. CASE card.kit.answer # "ok"
      BY <3>1, <3>3 DEF ListsKeys
    <3> QED BY <3>2, <3>3
  <2>2. LET usable == IF card.crd.answer = "ok" THEN UsableVariants(card.crd.entries) ELSE <<>>
        IN \/ info.scp = usable
           \/ /\ usable = <<>> /\ info.scp = <<FALLBACK_SCP>>
              /\ "CardRecognitionDataMissing" \in info.warnings
    BY DEF ToldInv, VariantsTold, PastCrd
  <2> QED BY <2>1, <2>2, Zenon DEF ListsKeys, DiscoveryTellsTheCard
<1> QED BY <1>1, <1>2, <1>3, PTL DEF Spec
=============================================================================
