------------------------- MODULE CardChannel_proofs -------------------------
(***************************************************************************)
(* Proofs about CardChannel, for every number of slots and of commands,    *)
(* for both transports and without bounds on what is sent.                 *)
(***************************************************************************)
EXTENDS CardChannel, SequenceTheorems, FiniteSetTheorems, WellFoundedInduction, TLAPS

------------------------------------------------------------------------------
(***************************************************************************)
(* Operators of the model                                                  *)
(***************************************************************************)

\* A set of numbers that is not empty has a least element.
LEMMA SmallestIndex ==
  ASSUME NEW T, T \subseteq Nat, T # {}
  PROVE  \E x \in T : \A y \in T : x <= y
<1>1. PICK x \in T : \A y \in T : ~ (<<y, x>> \in OpToRel(<, Nat))
  BY WFMin, NatLessThanWellFounded
<1>2. ASSUME NEW y \in T, y < x PROVE FALSE
  <2>1. <<y, x>> \in OpToRel(<, Nat)
    BY <1>2 DEF OpToRel
  <2> QED BY <2>1, <1>1, <1>2
<1> QED BY <1>2

\* derive_session finds a free slot of the right table whenever there is one.
LEMMA FirstFreeIsFree ==
  ASSUME NEW table \in [Handles -> Slot], NEW p \in Protos, ~ TableFull(table, p)
  PROVE  /\ FirstFree(table, p) \in Handles
         /\ FirstFree(table, p)[1] = p
         /\ IsFree(table[FirstFree(table, p)])
<1> DEFINE Free == {i \in 1 .. MaxSessionSlots : IsFree(table[<<p, i>>])}
<1>1. Free \subseteq Nat /\ Free # {}
  BY SlotsAssumption DEF TableFull
<1>2. PICK i \in Free : \A j \in Free : i <= j
  BY <1>1, SmallestIndex
<1>3. \A j \in 1 .. (i - 1) : ~ IsFree(table[<<p, j>>])
  BY <1>2, SlotsAssumption
<1>4. <<p, i>> \in Handles /\ IsFree(table[<<p, i>>])
  BY <1>2 DEF Handles
<1> QED BY <1>3, <1>4 DEF FirstFree

\* wrap keeps the keys of the slot and appends the command to its chain.
LEMMA WrapExtendsChain ==
  ASSUME NEW p \in Protos, NEW slot \in Slot, NEW c \in Commands
  PROVE  /\ Wrap(p, slot, c) \in Slot
         /\ Wrap(p, slot, c).key = slot.key
         /\ Wrap(p, slot, c).chain = Append(slot.chain, c)
<1>1. Append(slot.chain, c) \in Seq(Commands) /\ <<c>> \in Seq(Commands)
  BY DEF Slot
<1>2. (c = EA(TRUE)) \in BOOLEAN
  OBVIOUS
<1> DEFINE latched == IF slot.authed THEN slot.rmac ELSE c = EA(TRUE)
           covered == IF p = "SCP02" /\ slot.authed /\ slot.rmac THEN <<c>> ELSE slot.rbuf
<1>3. Wrap(p, slot, c) = [slot EXCEPT !.chain = Append(@, c), !.authed = TRUE,
                                      !.rmac = latched, !.rbuf = covered]
  BY Zenon DEF Wrap
<1>4. latched \in BOOLEAN /\ covered \in Seq(Commands)
  BY <1>1, <1>2 DEF Slot
<1> HIDE DEF latched, covered
<1> QED BY <1>1, <1>3, <1>4 DEF Slot

\* unwrap frees the slot or keeps its keys and its chain.
LEMMA UnwrapKeepsChain ==
  ASSUME NEW p \in Protos, NEW slot \in Slot, NEW r \in RApduType
  PROVE  /\ Unwrap(p, slot, r) \in Slot
         /\ \/ IsFree(Unwrap(p, slot, r))
            \/ /\ Unwrap(p, slot, r).key = slot.key
               /\ Unwrap(p, slot, r).chain = slot.chain
<1>1. FreeSlot \in Slot /\ IsFree(FreeSlot)
  BY DEF FreeSlot, FreshSlot, Slot, IsFree
<1>2. CASE ~ Verify(p, slot, r)
  BY <1>1, <1>2 DEF Unwrap
<1>3. CASE Verify(p, slot, r) /\ p = "SCP02" /\ slot.rmac
  <2>1. Unwrap(p, slot, r) = [slot EXCEPT !.rchain = r.rchain, !.rbuf = <<>>]
    BY <1>3 DEF Unwrap
  <2>2. r.rchain \in Seq(ExchangeRecord) /\ <<>> \in Seq(Commands)
    BY DEF RApduType
  <2> QED BY <2>1, <2>2 DEF Slot
<1>4. CASE Verify(p, slot, r) /\ ~ (p = "SCP02" /\ slot.rmac)
  <2>1. Unwrap(p, slot, r) = slot
    BY <1>4 DEF Unwrap
  <2> QED BY <2>1
<1> QED BY <1>2, <1>3, <1>4

\* A slot derive_session has just filled holds its keys and has wrapped nothing.
LEMMA FreshSlotType ==
  ASSUME NEW k \in Nat
  PROVE  FreshSlot(k) \in Slot /\ FreshSlot(k).key = k /\ FreshSlot(k).chain = <<>>
  BY DEF FreshSlot, Slot

\* EXTERNAL AUTHENTICATE is a command like any other to wrap.
LEMMA EAIsCommand == \A rmac \in BOOLEAN : EA(rmac) \in Commands
  BY DEF EA, Commands, EACommands

\* A request queue of one message is typed when the message is.
LEMMA OneRequest ==
  ASSUME NEW m \in CApduType
  PROVE  <<m>> \in Seq(CApduType)
OBVIOUS

\* What the host sends and the card answers are well-formed APDUs.
LEMMA HostMessages ==
  ASSUME NEW p \in Protos, NEW k \in Nat, NEW slot \in Slot
  PROVE  /\ Plain("SELECT") \in CApduType /\ Plain("GET DATA") \in CApduType
         /\ InitUpdate(p, k) \in CApduType
         /\ Secure(p, slot) \in CApduType
<1>1. <<>> \in Seq(Commands)
  OBVIOUS
<1> QED BY <1>1 DEF Plain, InitUpdate, Secure, CApduType, Protos, Slot

\* What the card answers, in the clear or under a MAC, is well formed.
LEMMA CardMessages ==
  ASSUME NEW p \in Protos, NEW k \in Nat, NEW sw \in SWs, NEW ans \in Place,
         NEW chain \in Seq(Commands), NEW rchain \in Seq(ExchangeRecord)
  PROVE  /\ PlainAnswer(sw, ans) \in RApduType
         /\ IuAnswer(p, k) \in RApduType
         /\ MacAnswer(p, sw, k, chain, rchain, ans) \in RApduType
<1>1. <<>> \in Seq(Commands) /\ <<>> \in Seq(ExchangeRecord)
  OBVIOUS
<1>2. "ok" \in SWs /\ Nothing \in Place /\ "SCP03" \in Protos /\ 0 \in Nat
  BY DEF SWs, Nothing, Place, Protos
<1> QED BY <1>1, <1>2 DEF PlainAnswer, IuAnswer, MacAnswer, RApduType

------------------------------------------------------------------------------
(***************************************************************************)
(* Type correctness                                                        *)
(***************************************************************************)
LEMMA ReceivedType ==
  ASSUME TypeOK, Receive
  PROVE  Answer \in RApduType /\ resp' \in Seq(RApduType)
  BY HeadTailProperties DEF TypeOK, Receive, Answer

\* The command the card takes from the link is one the host put there.
LEMMA RequestType ==
  ASSUME TypeOK, req # <<>>
  PROVE  Request \in CApduType /\ Tail(req) \in Seq(CApduType)
  BY HeadTailProperties DEF TypeOK, Request

\* The empty values of the state's parts.
LEMMA Defaults ==
  /\ NoCtx \in CtxType /\ NoCard \in CardType /\ NoSession \in SessionType
  /\ FreeSlot \in Slot /\ Nothing \in Place
  /\ Plain("SELECT") \in CApduType /\ Plain("GET DATA") \in CApduType
<1>1. NoHandle \in Handles /\ Nothing \in Place /\ "SCP03" \in Protos
  BY SlotsAssumption DEF NoHandle, Handles, Protos, Nothing, Place
<1>2. <<>> \in Seq(Commands) /\ <<>> \in Seq(ExchangeRecord)
  OBVIOUS
<1>3. NoCtx \in CtxType
  BY <1>1 DEF NoCtx, CtxType
<1>4. NoCard \in CardType
  BY <1>1, <1>2 DEF NoCard, CardType
<1>5. NoSession \in SessionType
  BY <1>1 DEF NoSession, SessionType
<1>6. FreeSlot \in Slot
  BY FreshSlotType DEF FreeSlot
<1>7. Plain("SELECT") \in CApduType /\ Plain("GET DATA") \in CApduType
  BY <1>1, <1>2 DEF Plain, CApduType
<1> QED BY <1>1, <1>3, <1>4, <1>5, <1>6, <1>7

\* A history with one more command under some keys.
LEMMA ExtendHistory ==
  ASSUME NEW f \in [Keys -> Seq(Commands)], NEW k, NEW c \in Commands
  PROVE  [f EXCEPT ![k] = Append(@, c)] \in [Keys -> Seq(Commands)]
  BY AppendProperties

\* What a workflow leaves behind when it returns.
LEMMA ReturnType ==
  ASSUME NEW o \in OutcomeType, Return(o)
  PROVE  /\ pc' \in {"idle", "select", "iu", "ea", "cmd", "probe"}
         /\ ctx' \in CtxType
         /\ outcome' \in OutcomeType
  BY Defaults DEF Return

\* Every way transmit, open_scp and a workflow can end is an outcome.
LEMMA OutcomeTypes ==
  /\ Done \in OutcomeType /\ Failed \in OutcomeType /\ Pending \in OutcomeType
  /\ Outcome("parts") \in OutcomeType /\ Outcome("table full") \in OutcomeType
  BY DEF Done, Failed, Pending, Outcome, OutcomeType, Nothing, Place, SWs

\* A new manager, table and card are well formed.
LEMMA InitType == Init => TypeOK
<1> SUFFICES ASSUME Init PROVE TypeOK
  OBVIOUS
<1> USE DEF Init
<1>1. session \in SessionType /\ ctx \in CtxType /\ card \in CardType
  BY Defaults
<1>2. slots \in [Handles -> Slot]
  BY Defaults
<1>3. outcome \in OutcomeType
  BY OutcomeTypes
<1>4. issued \in [Keys -> Seq(Commands)] /\ executed \in [Keys -> Seq(Commands)]
  BY EmptySeq
<1>5. req \in Seq(CApduType) /\ resp \in Seq(RApduType)
  BY EmptySeq
<1> QED BY <1>1, <1>2, <1>3, <1>4, <1>5 DEF TypeOK

\* Every step of host, link and card keeps every variable to its type.
LEMMA NextType == TypeOK /\ [Next]_vars => TypeOK'
<1> SUFFICES ASSUME TypeOK, [Next]_vars PROVE TypeOK'
  OBVIOUS
<1> USE DEF TypeOK, hostVars, cardVars, linkVars, vars
<1>1. ASSUME NEW p \in Protos, NEW rmac \in BOOLEAN, NEW good \in BOOLEAN,
             OpenScp(p, rmac, good)
      PROVE  TypeOK'
  <2>2. ctx' \in CtxType
    BY <1>1, Defaults DEF OpenScp, CtxType
  <2>3. req' \in Seq(CApduType)
    BY <1>1, Defaults, AppendProperties DEF OpenScp, Send
  <2> QED BY <1>1, <2>2, <2>3, OutcomeTypes DEF OpenScp
<1>2. CASE SelectAnswered
  <2>1. resp' \in Seq(RApduType)
    BY <1>2, ReceivedType DEF SelectAnswered
  <2>2. lastKey + 1 \in Nat /\ InitUpdate(ctx.p, lastKey + 1) \in CApduType
    <3>1. ctx.p \in Protos /\ lastKey + 1 \in Nat
      BY DEF CtxType
    <3>2. FreeSlot \in Slot
      BY Defaults
    <3> QED BY <3>1, <3>2, HostMessages
  <2>3. ctx' \in CtxType
    BY <1>2, <2>2 DEF SelectAnswered, CtxType
  <2>4. req' \in Seq(CApduType)
    BY <1>2, <2>2, AppendProperties DEF SelectAnswered, Send
  <2> QED BY <1>2, <2>1, <2>2, <2>3, <2>4 DEF SelectAnswered
<1>3. CASE OpenRefused
  BY <1>3, ReceivedType, ReturnType, OutcomeTypes DEF OpenRefused
<1>4. CASE SessionTableFull
  BY <1>4, ReceivedType, ReturnType, OutcomeTypes DEF SessionTableFull
<1>5. CASE ChecksFail
  <2>1. ctx.key \in Nat
    BY DEF CtxType
  <2>2. FreshSlot(ctx.key) \in Slot
    BY <2>1, FreshSlotType
  <2>3. slots' \in [Handles -> Slot]
    BY <1>5, <2>2 DEF ChecksFail
  <2>4. lost' \in Nat
    BY <1>5 DEF ChecksFail
  <2> QED BY <1>5, <2>3, <2>4, ReceivedType, ReturnType, OutcomeTypes DEF ChecksFail
<1>6. CASE SendExternalAuthenticate
  <2> DEFINE h == FirstFree(slots, ctx.p)
             slot == Wrap(ctx.p, FreshSlot(ctx.key), EA(ctx.rmac))
  <2>1. ctx.key \in Nat /\ ctx.p \in Protos /\ ctx.rmac \in BOOLEAN
    BY DEF CtxType
  <2>2. h \in Handles
    BY <1>6, <2>1, FirstFreeIsFree DEF SendExternalAuthenticate
  <2>3. EA(ctx.rmac) \in Commands
    BY <2>1, EAIsCommand
  <2>4. slot \in Slot
    BY <2>1, <2>3, FreshSlotType, WrapExtendsChain
  <2>5. Secure(ctx.p, slot) \in CApduType
    BY <2>1, <2>4, HostMessages
  <2>6. /\ slots' = [slots EXCEPT ![h] = slot]
        /\ ctx' = [ctx EXCEPT !.h = h]
        /\ req' = Append(req, Secure(ctx.p, slot))
        /\ issued' = [issued EXCEPT ![ctx.key] = Append(@, EA(ctx.rmac))]
        /\ pc' = "ea"
        /\ resp' \in Seq(RApduType)
        /\ UNCHANGED <<session, cardVars, outcome, lastKey, broken, lost>>
    BY <1>6, ReceivedType DEF SendExternalAuthenticate, Send
  <2> HIDE DEF h, slot
  <2>7. ctx' \in CtxType
    BY <2>2, <2>6 DEF CtxType
  <2>8. issued' \in [Keys -> Seq(Commands)]
    BY <2>3, <2>6, ExtendHistory
  <2>9. slots' \in [Handles -> Slot]
    BY <2>4, <2>6
  <2>10. req' \in Seq(CApduType)
    BY <2>5, <2>6, AppendProperties
  <2> QED BY <2>6, <2>7, <2>8, <2>9, <2>10
<1>7. CASE ChannelOpened
  <2>1. session' \in SessionType /\ lost' \in Nat
    BY <1>7 DEF ChannelOpened, SessionType, CtxType
  <2> QED BY <1>7, <2>1, ReceivedType, ReturnType, OutcomeTypes DEF ChannelOpened
<1>8. CASE ExternalAuthFail
  <2>1. lost' \in Nat
    BY <1>8 DEF ExternalAuthFail
  <2> QED BY <1>8, <2>1, ReceivedType, ReturnType, OutcomeTypes DEF ExternalAuthFail
<1>9. ASSUME NEW c \in Ops, Transmit(c) PROVE TypeOK'
  <2> DEFINE p == session.h[1]
             slot == Wrap(p, Held, c)
  <2>1. /\ session.h \in Handles /\ p \in Protos /\ Held \in Slot
        /\ c \in Commands /\ Held.key \in Nat
    BY DEF SessionType, Handles, Held, Slot, Commands
  <2>2. slot \in Slot /\ slot.key = Held.key
    BY <2>1, WrapExtendsChain
  <2>3. Secure(p, slot) \in CApduType
    BY <2>1, <2>2, HostMessages
  <2>4. /\ slots' = [slots EXCEPT ![session.h] = slot]
        /\ req' = Append(req, Secure(p, slot))
        /\ ctx' = [NoCtx EXCEPT !.p = p, !.h = session.h, !.key = slot.key,
                                !.ask = PlaceOf(Secure(p, slot))]
        /\ issued' = [issued EXCEPT ![slot.key] = Append(@, c)]
        /\ pc' = "cmd" /\ outcome' = Pending
        /\ UNCHANGED <<session, resp, cardVars, lastKey, broken, lost>>
    BY <1>9 DEF Transmit, Send
  <2> HIDE DEF p, slot
  <2>5. issued' \in [Keys -> Seq(Commands)]
    BY <2>1, <2>4, ExtendHistory
  <2>6. slots' \in [Handles -> Slot]
    BY <2>1, <2>2, <2>4
  <2>7. req' \in Seq(CApduType)
    BY <2>3, <2>4, AppendProperties
  <2>8. ctx' \in CtxType
    <3>1. slot.key \in Nat /\ slot.chain \in Seq(Commands)
      BY <2>2 DEF Slot
    <3>2. Len(slot.chain) \in Nat
      BY <3>1, LenProperties
    <3>3. PlaceOf(Secure(p, slot)) \in Place
      BY <3>1, <3>2 DEF PlaceOf, Secure, Place
    <3> QED BY <3>1, <3>3, <2>1, <2>4, Defaults DEF CtxType
  <2> QED BY <2>4, <2>5, <2>6, <2>7, <2>8, OutcomeTypes
<1>10. CASE TransmitRefused
  BY <1>10, OutcomeTypes DEF TransmitRefused
<1>11. CASE TransmitAnswered
  <2>1. Answer \in RApduType /\ resp' \in Seq(RApduType)
    BY <1>11, ReceivedType DEF TransmitAnswered
  <2>2. ctx.h \in Handles /\ ctx.p \in Protos /\ ctx.ask \in Place /\ ctx.key \in Nat
    BY DEF CtxType
  <2>3. Unwrap(ctx.p, slots[ctx.h], Answer) \in Slot
    BY <2>1, <2>2, UnwrapKeepsChain
  <2>4. slots' \in [Handles -> Slot] /\ broken' \subseteq Nat
    BY <1>11, <2>2, <2>3 DEF TransmitAnswered
  <2>5. [what |-> "answer", ask |-> ctx.ask, ans |-> Answer.ans, sw |-> Answer.sw] \in OutcomeType
    BY <2>1, <2>2 DEF OutcomeType, RApduType
  <2> QED BY <1>11, <2>1, <2>4, <2>5, ReturnType, OutcomeTypes DEF TransmitAnswered
<1>22. CASE TransmitGarbled
  <2>1. ctx.key \in Nat
    BY DEF CtxType
  <2>2. slots' \in [Handles -> Slot] /\ broken' \subseteq Nat
    BY <1>22, <2>1, Defaults DEF TransmitGarbled
  <2> QED BY <1>22, <2>2, ReceivedType, ReturnType, OutcomeTypes DEF TransmitGarbled
<1>12. CASE CloseChannel \/ IntoParts
  <2>2. session' \in SessionType /\ slots' \in [Handles -> Slot]
    BY <1>12, Defaults DEF CloseChannel, IntoParts, ReleaseChannel
  <2> QED BY <1>12, <2>2, OutcomeTypes DEF CloseChannel, IntoParts
<1>13. CASE Discover
  <2>2. ctx' \in CtxType /\ card' \in CardType
    BY <1>13, Defaults, BoundsAssumption DEF Discover, CtxType
  <2>3. req' \in Seq(CApduType) /\ resp' \in Seq(RApduType)
    <3>1. Plain("SELECT") \in CApduType
      BY Defaults
    <3>2. <<Plain("SELECT")>> \in Seq(CApduType)
      BY <3>1, OneRequest
    <3> QED BY <1>13, <3>2, EmptySeq DEF Discover
  <2> QED BY <1>13, <2>2, <2>3, OutcomeTypes DEF Discover
<1>14. CASE DiscoverResetFails
  BY <1>14, OutcomeTypes, EmptySeq DEF DiscoverResetFails
<1>15. CASE ProbeNext
  <2>1. ctx' \in CtxType
    <3>1. ctx.left - 1 \in Nat
      <4>1. ctx.left \in Nat
        BY DEF CtxType
      <4>2. ctx.left > 0
        BY <1>15 DEF ProbeNext
      <4> QED BY <4>1, <4>2
    <3> QED BY <1>15, <3>1 DEF ProbeNext, CtxType
  <2>2. req' \in Seq(CApduType)
    BY <1>15, Defaults, AppendProperties DEF ProbeNext, Send
  <2> QED BY <1>15, <2>1, <2>2, ReceivedType DEF ProbeNext
<1>16. CASE ProbeEnds
  BY <1>16, ReceivedType, ReturnType, OutcomeTypes DEF ProbeEnds
<1>17. CASE LinkError
  <2>1. lost' \in Nat /\ req' \in Seq(CApduType) /\ resp' \in Seq(RApduType)
    BY <1>17 DEF LinkError, AbandonedSlots
  <2> QED BY <1>17, <2>1, ReturnType, OutcomeTypes DEF LinkError
<1>18. CASE Timeout
  <2>1. lost' \in Nat
    BY <1>18 DEF Timeout, AbandonedSlots
  <2> QED BY <1>18, <2>1, ReturnType, OutcomeTypes DEF Timeout
<1>19. CASE CardNext
  <2>1. ASSUME req # <<>>, NEW r \in RApduType, Reply(r)
        PROVE  req' \in Seq(CApduType) /\ resp' \in Seq(RApduType)
    BY <2>1, RequestType DEF Reply
  <2>2. Nothing \in Place /\ NoCard \in CardType /\ "ok" \in SWs /\ "error" \in SWs
    BY Defaults DEF SWs
  <2>3. CASE CardSelect
    <3>1. \E r \in RApduType : Reply(r)
      BY <2>2, <2>3, CardMessages, EmptySeq DEF CardSelect, Protos
    <3> QED BY <3>1, <2>1, <2>2, <2>3 DEF CardSelect, HasRequest
  <2>4. CASE CardGetData
    <3>1. \E r \in RApduType : Reply(r)
      BY <2>2, <2>4, CardMessages, EmptySeq DEF CardGetData, Protos
    <3> QED BY <3>1, <2>1, <2>4 DEF CardGetData, HasRequest
  <2>5. CASE CardInitUpdate
    <3>1. Request.p \in Protos /\ Request.key \in Nat
      BY <2>5, RequestType DEF CardInitUpdate, HasRequest, CApduType
    <3>2. \E r \in RApduType : Reply(r)
      BY <2>2, <2>5, <3>1, CardMessages, EmptySeq DEF CardInitUpdate
    <3>3. card' \in CardType
      BY <2>2, <2>5, <3>1 DEF CardInitUpdate, CardType
    <3> QED BY <2>1, <2>5, <3>2, <3>3 DEF CardInitUpdate, HasRequest
  <2>6. ASSUME HasRequest("SM")
        PROVE  /\ Request \in CApduType /\ Request.chain \in Seq(Commands)
               /\ PlaceOf(Request) \in Place
    <3>1. Request \in CApduType
      BY <2>6, RequestType DEF HasRequest
    <3>2. Request.chain \in Seq(Commands) /\ Request.key \in Nat
      BY <3>1 DEF CApduType
    <3>3. Len(Request.chain) \in Nat
      BY <3>2, LenProperties
    <3> QED BY <3>1, <3>2, <3>3 DEF PlaceOf, Place
  <2>7. ASSUME HasRequest("SM"), MacVerifies
        PROVE  Last(Request.chain) \in Commands
    <3>1. Len(Request.chain) \in 1 .. Len(Request.chain)
      BY <2>6, <2>7 DEF MacVerifies, CardType
    <3> QED BY <2>6, <2>7, <3>1, ElementOfSeq DEF Last
  <2>8. CASE CardAuthenticate
    <3>1. \E r \in RApduType : Reply(r)
      BY <2>2, <2>6, <2>8, CardMessages, EmptySeq DEF CardAuthenticate, Protos
    <3>2. card' \in CardType
      BY <2>6, <2>8 DEF CardAuthenticate, CardType
    <3>3. executed' \in [Keys -> Seq(Commands)]
      BY <2>7, <2>8, ExtendHistory DEF CardAuthenticate
    <3> QED BY <2>1, <2>8, <3>1, <3>2, <3>3 DEF CardAuthenticate, HasRequest
  <2>9. CASE CardExecute
    <3>1. PICK sw \in SWs :
            LET pair == [cmd |-> <<Last(Request.chain)>>, sw |-> sw]
                at == PlaceOf(Request)
            IN  /\ card' = [card EXCEPT !.chain = Request.chain,
                                        !.rchain = IF card.p = "SCP02" /\ card.rmac
                                                     THEN Append(@, pair) ELSE @]
                /\ Reply(CASE ~ card.rmac -> PlainAnswer(sw, at)
                           [] card.rmac /\ card.p = "SCP02" ->
                                MacAnswer("SCP02", sw, card.key, <<>>, Append(card.rchain, pair), at)
                           [] card.rmac /\ card.p = "SCP03" /\ sw = "ok" ->
                                MacAnswer("SCP03", sw, card.key, Request.chain, <<>>, at)
                           [] OTHER -> PlainAnswer(sw, at))
      BY <2>9 DEF CardExecute
    <3> DEFINE pair == [cmd |-> <<Last(Request.chain)>>, sw |-> sw]
               at == PlaceOf(Request)
    <3>2. pair \in ExchangeRecord
      <4>1. Last(Request.chain) \in Commands
        BY <2>7, <2>9 DEF CardExecute
      <4> QED BY <4>1 DEF ExchangeRecord
    <3>3. Append(card.rchain, pair) \in Seq(ExchangeRecord) /\ card.key \in Nat
      BY <3>2 DEF CardType
    <3>4. card' \in CardType
      <4> DEFINE extended == IF card.p = "SCP02" /\ card.rmac
                               THEN Append(card.rchain, pair) ELSE card.rchain
      <4>1. extended \in Seq(ExchangeRecord)
        BY <3>3 DEF CardType
      <4>2. card' = [card EXCEPT !.chain = Request.chain, !.rchain = extended]
        BY <3>1
      <4> HIDE DEF extended
      <4> QED BY <2>6, <2>9, <4>1, <4>2 DEF CardExecute, CardType
    <3>5. /\ PlainAnswer(sw, at) \in RApduType
          /\ MacAnswer("SCP02", sw, card.key, <<>>, Append(card.rchain, pair), at) \in RApduType
          /\ MacAnswer("SCP03", sw, card.key, Request.chain, <<>>, at) \in RApduType
      BY <2>6, <2>9, <3>3, CardMessages, EmptySeq DEF CardExecute, Protos
    <3>6. \E r \in RApduType : Reply(r)
      BY <3>1, <3>5
    <3>7. executed' \in [Keys -> Seq(Commands)]
      BY <2>7, <2>9, ExtendHistory DEF CardExecute
    <3> QED BY <2>1, <2>9, <3>4, <3>6, <3>7 DEF CardExecute, HasRequest
  <2>10. CASE CardRefuse
    <3>1. \E r \in RApduType : Reply(r)
      BY <2>2, <2>6, <2>10, CardMessages, EmptySeq DEF CardRefuse, Protos
    <3> QED BY <2>1, <2>2, <2>10, <3>1 DEF CardRefuse, HasRequest
  <2> QED BY <1>19, <2>3, <2>4, <2>5, <2>8, <2>9, <2>10 DEF CardNext
<1>20. CASE CardInterrupted
  BY <1>20, Defaults DEF CardInterrupted
<1>21. CASE UNCHANGED vars
  BY <1>21
<1> QED
  BY <1>1, <1>2, <1>3, <1>4, <1>5, <1>6, <1>7, <1>8, <1>9, <1>10, <1>11, <1>12, <1>13,
     <1>14, <1>15, <1>16, <1>17, <1>18, <1>19, <1>20, <1>21, <1>22 DEF Next, CallerNext, AnswerNext

(***************************************************************************)
(* Every variable keeps its type: what the manager, the backend, the link  *)
(* and the card hold are well formed after any sequence of calls.          *)
(***************************************************************************)
THEOREM TypeCorrect == Spec => []TypeOK
<1>1. Init => TypeOK
  BY InitType
<1>2. TypeOK /\ [Next]_vars => TypeOK'
  BY NextType
<1> QED BY <1>1, <1>2, PTL DEF Spec

------------------------------------------------------------------------------
(***************************************************************************)
(* What the card accepts under a set of session keys is always a prefix of *)
(* what the host wrapped under them, for every number of keys, slots and   *)
(* commands, and for both transports.                                      *)
(*                                                                         *)
(* ExecutedInOrder alone is not inductive: it says nothing of the chains   *)
(* and of the commands under way that the next step compares.  InStep adds *)
(* that.  Its preservation is argued for four kinds of steps: quiet ones,  *)
(* and those that start a session, issue a command or accept one.          *)
(***************************************************************************)

(***************************************************************************)
(* Prefixes                                                                *)
(***************************************************************************)
LEMMA PrefixElements ==
  ASSUME NEW S, NEW s \in Seq(S), NEW t \in Seq(S)
  PROVE  IsPrefix(s, t) <=> /\ Len(s) <= Len(t)
                            /\ \A i \in 1 .. Len(s) : s[i] = t[i]
<1>1. Len(s) \in Nat /\ Len(t) \in Nat
  BY LenProperties
<1>2. SUFFICES ASSUME Len(s) <= Len(t)
               PROVE  SubSeq(s, 1, Len(s)) = SubSeq(t, 1, Len(s))
                        <=> \A i \in 1 .. Len(s) : s[i] = t[i]
  BY DEF IsPrefix
<1>3. SubSeq(s, 1, Len(s)) = s
  BY SubSeqFull
<1>4. \A i \in 1 .. Len(s) : t[i] \in S
  BY <1>1, <1>2, ElementOfSeq
<1> DEFINE u == SubSeq(t, 1, Len(s))
<1>5. /\ u \in Seq(S) /\ Len(u) = Len(s)
      /\ \A i \in 1 .. Len(s) : u[i] = t[i]
  BY <1>1, <1>4, SubSeqProperties
<1> HIDE DEF u
<1>6. s = u <=> \A i \in 1 .. Len(s) : s[i] = u[i]
  BY <1>5, SeqEqual
<1> QED BY <1>3, <1>5, <1>6 DEF u

\* A chaining value stands for the commands it was computed over: the order on them.
LEMMA PrefixFacts ==
  ASSUME NEW S, NEW s \in Seq(S), NEW t \in Seq(S), NEW e \in S
  PROVE  /\ IsPrefix(s, s) /\ IsPrefix(<<>>, t)
         /\ IsPrefix(s, t) => IsPrefix(s, Append(t, e))
         /\ IsPrefix(s, <<>>) => s = <<>>
<1>1. IsPrefix(s, s)
  BY PrefixElements, LenProperties
<1>2. IsPrefix(<<>>, t)
  <2> DEFINE z == <<>>
  <2>1. z \in Seq(S) /\ Len(z) = 0 /\ Len(t) \in Nat
    BY EmptySeq, LenProperties
  <2> HIDE DEF z
  <2>2. Len(z) <= Len(t) /\ \A i \in 1 .. Len(z) : z[i] = t[i]
    BY <2>1
  <2>3. IsPrefix(z, t)
    BY <2>1, <2>2, PrefixElements
  <2> QED BY <2>3 DEF z
<1>3. ASSUME IsPrefix(s, t) PROVE IsPrefix(s, Append(t, e))
  <2> DEFINE u == Append(t, e)
  <2>1. /\ u \in Seq(S) /\ Len(u) = Len(t) + 1
        /\ \A i \in 1 .. Len(t) : u[i] = t[i]
    BY AppendProperties
  <2>2. Len(s) \in Nat /\ Len(t) \in Nat
    BY LenProperties
  <2>3. Len(s) <= Len(t) /\ \A i \in 1 .. Len(s) : s[i] = t[i]
    BY <1>3, PrefixElements
  <2> HIDE DEF u
  <2>4. Len(s) <= Len(u) /\ \A i \in 1 .. Len(s) : s[i] = u[i]
    BY <2>1, <2>2, <2>3
  <2>5. IsPrefix(s, u)
    BY <2>1, <2>4, PrefixElements
  <2> QED BY <2>5 DEF u
<1>4. IsPrefix(s, <<>>) => s = <<>>
  BY EmptySeq, LenProperties DEF IsPrefix
<1> QED BY <1>1, <1>2, <1>3, <1>4

\* Taking a message from the link leaves the others as they were.
LEMMA TailElements ==
  ASSUME NEW S, NEW s \in Seq(S), s # <<>>
  PROVE  /\ Tail(s) \in Seq(S) /\ Len(Tail(s)) = Len(s) - 1
         /\ \A i \in 1 .. (Len(s) - 1) : Tail(s)[i] = s[i + 1]
<1>1. Tail(s) \in Seq(S) /\ Len(Tail(s)) = Len(s) - 1
  BY HeadTailProperties
<1> QED BY <1>1, LenProperties

------------------------------------------------------------------------------
(***************************************************************************)
(* Requests under way                                                      *)
(***************************************************************************)

\* Requests that were there before, or that are neither secure nor INITIALIZE
\* UPDATE: nothing RequestsInStep speaks of is added, and nothing is doubled.
NothingNew ==
  \E f \in [DOMAIN req' -> Nat] :
    \A i \in DOMAIN req' :
      \/ req'[i].kind \notin {"SM", "IU"}
      \/ /\ f[i] \in DOMAIN req /\ req'[i] = req[f[i]]
         /\ \A j \in DOMAIN req' : f[j] = f[i] => j = i

\* An answer the card sends brings no new command under way.
LEMMA AnsweredAddsNothing ==
  ASSUME TypeOK, req # <<>>, req' = Tail(req)
  PROVE  NothingNew
<1> DEFINE f == [i \in DOMAIN req' |-> i + 1]
<1>1. Len(req) \in Nat /\ Len(req) > 0 /\ DOMAIN req = 1 .. Len(req)
  BY LenProperties, EmptySeq DEF TypeOK
<1>4. /\ req' \in Seq(CApduType) /\ Len(req') = Len(req) - 1
      /\ \A i \in 1 .. (Len(req) - 1) : req'[i] = req[i + 1]
  BY TailElements DEF TypeOK
<1>5. Len(req') = Len(req) - 1 /\ DOMAIN req' = 1 .. (Len(req) - 1)
  BY <1>1, <1>4, LenProperties
<1>6. \A i \in DOMAIN req' : req'[i] = req[i + 1] /\ i + 1 \in DOMAIN req
  BY <1>1, <1>4, <1>5
<1>7. f \in [DOMAIN req' -> Nat]
  BY <1>5
<1>8. \A i \in DOMAIN req' :
        /\ f[i] \in DOMAIN req /\ req'[i] = req[f[i]]
        /\ \A j \in DOMAIN req' : f[j] = f[i] => j = i
  BY <1>5, <1>6
<1> QED BY <1>7, <1>8 DEF NothingNew

\* A command in the clear brings no wrapped command under way.
LEMMA PlainAddsNothing ==
  ASSUME TypeOK, NEW m \in CApduType, m.kind \notin {"SM", "IU"}, Send(m)
  PROVE  NothingNew
<1> DEFINE f == [i \in DOMAIN req' |-> i]
<1>1. /\ req' \in Seq(CApduType) /\ Len(req') = Len(req) + 1
      /\ \A i \in 1 .. Len(req) : req'[i] = req[i]
      /\ req'[Len(req) + 1] = m
  BY AppendProperties DEF TypeOK, Send
<1>2. Len(req) \in Nat /\ DOMAIN req = 1 .. Len(req) /\ DOMAIN req' = 1 .. (Len(req) + 1)
  BY <1>1, LenProperties DEF TypeOK
<1>3. f \in [DOMAIN req' -> Nat]
  BY <1>2
<1>4. ASSUME NEW i \in DOMAIN req', req'[i].kind \in {"SM", "IU"}
      PROVE  /\ f[i] \in DOMAIN req /\ req'[i] = req[f[i]]
             /\ \A j \in DOMAIN req' : f[j] = f[i] => j = i
  <2>1. i # Len(req) + 1
    BY <1>1, <1>4
  <2> QED BY <1>1, <1>2, <2>1
<1> QED BY <1>3, <1>4 DEF NothingNew

\* Giving up what is on the link brings no new command under way.
LEMMA StartingAfreshAddsNothing ==
  ASSUME \/ req' = <<>>
         \/ \E m \in CApduType : m.kind \notin {"SM", "IU"} /\ req' = <<m>>
         \/ req' = req /\ TypeOK
  PROVE  NothingNew
<1> DEFINE f == [i \in DOMAIN req' |-> i]
<1>1. DOMAIN req' \subseteq Nat
  BY LenProperties DEF TypeOK
<1>2. f \in [DOMAIN req' -> Nat]
  BY <1>1
<1>3. \A i \in DOMAIN req' :
        \/ req'[i].kind \notin {"SM", "IU"}
        \/ /\ f[i] \in DOMAIN req /\ req'[i] = req[f[i]]
           /\ \A j \in DOMAIN req' : f[j] = f[i] => j = i
  OBVIOUS
<1> QED BY <1>2, <1>3 DEF NothingNew

------------------------------------------------------------------------------
(***************************************************************************)
(* Four kinds of steps                                                     *)
(***************************************************************************)

\* A slot in use holds keys that were drawn.
LEMMA LiveKeys ==
  ASSUME InStep, NEW g \in Handles, ~ IsFree(slots[g])
  PROVE  slots[g].key \in Keys
<1>1. slots[g] \in Slot /\ lastKey \in Nat
  BY DEF InStep, TypeOK
<1>2. slots[g].key \in Nat /\ slots[g].key # 0
  BY <1>1 DEF Slot, IsFree
<1>3. slots[g].key <= lastKey /\ lastKey <= MaxKeys
  BY DEF InStep, SlotsInStep, HandshakeFresh
<1> QED BY <1>1, <1>2, <1>3, BoundsAssumption DEF Keys

\* Nothing is wrapped and nothing accepted: slots and the card's end of the
\* session are kept or given up, and nothing new is under way.
LEMMA QuietStep ==
  ASSUME InStep, TypeOK', NothingNew,
         UNCHANGED <<issued, executed, lastKey>>,
         card' = card \/ card' = NoCard,
         \A h \in Handles : \/ slots'[h].key = 0
                            \/ slots'[h].key = slots[h].key /\ slots'[h].chain = slots[h].chain,
         pc' = "select" => lastKey < MaxKeys,
         pc' = "iu" => pc = "iu" /\ ctx' = ctx
  PROVE  InStep'
<1> USE DEF InStep
<1>1. ExecutedInOrder'
  BY DEF ExecutedInOrder
<1>2. HandshakeFresh'
  BY DEF HandshakeFresh, Keys
<1>3. SlotsInStep'
  BY DEF SlotsInStep, IsFree
<1>4. CardInStep'
  BY DEF CardInStep, NoCard
<1>5. RequestsInStep'
  <2>1. PICK f \in [DOMAIN req' -> Nat] :
          \A i \in DOMAIN req' :
            \/ req'[i].kind \notin {"SM", "IU"}
            \/ /\ f[i] \in DOMAIN req /\ req'[i] = req[f[i]]
               /\ \A j \in DOMAIN req' : f[j] = f[i] => j = i
    BY DEF NothingNew
  <2>2. ASSUME NEW i \in DOMAIN req', req'[i].kind = "SM"
        PROVE  /\ req'[i].key \in Keys /\ req'[i].chain # <<>>
               /\ IsPrefix(req'[i].chain, issued[req'[i].key])
    BY <2>1, <2>2 DEF RequestsInStep
  <2>3. ASSUME NEW i \in DOMAIN req', req'[i].kind = "IU"
        PROVE  /\ req'[i].key \in Keys /\ req'[i].key <= lastKey
               /\ executed[req'[i].key] = <<>> /\ card'.key # req'[i].key
               /\ \A j \in DOMAIN req' :
                    req'[j].kind = "IU" /\ req'[j].key = req'[i].key => j = i
    <3>1. /\ f[i] \in DOMAIN req /\ req'[i] = req[f[i]]
          /\ \A j \in DOMAIN req' : f[j] = f[i] => j = i
      BY <2>1, <2>3
    <3>2. /\ req'[i].key \in Keys /\ req'[i].key <= lastKey
          /\ executed[req'[i].key] = <<>> /\ card.key # req'[i].key
      BY <3>1, <2>3 DEF RequestsInStep
    <3>3. card'.key # req'[i].key
      BY <3>2 DEF NoCard, Keys
    <3>4. ASSUME NEW j \in DOMAIN req', req'[j].kind = "IU", req'[j].key = req'[i].key
          PROVE  j = i
      <4>1. f[j] \in DOMAIN req /\ req'[j] = req[f[j]]
        BY <2>1, <3>4
      <4>2. f[j] = f[i]
        BY <3>1, <3>4, <4>1, <2>3 DEF RequestsInStep
      <4> QED BY <3>1, <4>2
    <3> QED BY <3>2, <3>3, <3>4
  <2> QED BY <2>2, <2>3 DEF RequestsInStep
<1> QED BY <1>1, <1>2, <1>3, <1>4, <1>5

\* A command is wrapped under k, in the one slot that holds k, and sent.
LEMMA IssueStep ==
  ASSUME InStep, TypeOK',
         NEW k \in Keys, NEW c \in Commands, NEW h \in Handles, NEW s \in Slot,
         NEW m \in CApduType,
         issued' = [issued EXCEPT ![k] = Append(@, c)],
         slots' = [slots EXCEPT ![h] = s], s.key = k, s.chain = Append(issued[k], c),
         \A g \in Handles \ {h} : slots[g].key # k,
         k <= lastKey,
         Send(m), m.kind = "SM", m.key = k, m.chain = s.chain,
         UNCHANGED <<executed, card, lastKey>>,
         pc' \notin {"select", "iu"}
  PROVE  InStep'
<1> USE DEF InStep
<1>1. /\ issued \in [Keys -> Seq(Commands)] /\ executed \in [Keys -> Seq(Commands)]
      /\ issued'[k] = Append(issued[k], c)
      /\ \A q \in Keys \ {k} : issued'[q] = issued[q]
  BY DEF TypeOK
<1>2. \A q \in Keys : IsPrefix(issued[q], issued'[q])
  BY <1>1, PrefixFacts
<1>3. ASSUME NEW t \in Seq(Commands), NEW q \in Keys, IsPrefix(t, issued[q])
      PROVE  IsPrefix(t, issued'[q])
  BY <1>1, <1>3, PrefixFacts
<1>4. ExecutedInOrder'
  BY <1>1, <1>3 DEF ExecutedInOrder
<1>5. HandshakeFresh'
  <2>1. lastKey \in Nat /\ k \in Nat /\ lastKey' = lastKey
    BY DEF TypeOK, Keys
  <2>2. ASSUME NEW q \in Keys, q > lastKey PROVE issued'[q] = <<>>
    <3>1. issued[q] = <<>> /\ q \in Nat
      BY <2>2 DEF HandshakeFresh, Keys
    <3>2. q # k
      BY <2>1, <2>2, <3>1
    <3> QED BY <1>1, <3>1, <3>2
  <2>3. lastKey <= MaxKeys
    BY DEF HandshakeFresh
  <2> QED BY <2>1, <2>2, <2>3 DEF HandshakeFresh
<1>6. SlotsInStep'
  <2>1. \A g \in Handles : slots'[g] = IF g = h THEN s ELSE slots[g]
    BY DEF TypeOK
  <2>2. \A g \in Handles : ~ IsFree(slots[g]) => slots[g].key \in Keys
    BY LiveKeys
  <2>3. ASSUME NEW g \in Handles, ~ IsFree(slots'[g])
        PROVE  /\ slots'[g].key <= lastKey
               /\ slots'[g].chain = issued'[slots'[g].key]
               /\ \A d \in Handles : slots'[d].key = slots'[g].key => d = g
    <3>1. CASE g = h
      BY <1>1, <2>1, <3>1
    <3>2. CASE g # h
      <4>1. slots'[g] = slots[g] /\ ~ IsFree(slots[g]) /\ slots[g].key \in Keys
        BY <2>1, <2>2, <2>3, <3>2
      <4>2. slots[g].key # k
        BY <3>2
      <4>3. /\ slots[g].key <= lastKey /\ slots[g].chain = issued[slots[g].key]
            /\ \A d \in Handles : slots[d].key = slots[g].key => d = g
        BY <4>1 DEF SlotsInStep
      <4> QED BY <1>1, <2>1, <4>1, <4>2, <4>3
    <3> QED BY <3>1, <3>2
  <2> QED BY <2>3 DEF SlotsInStep
<1>7. CardInStep'
  BY DEF CardInStep
<1>8. RequestsInStep'
  <2>1. /\ Len(req) \in Nat /\ DOMAIN req = 1 .. Len(req) /\ DOMAIN req' = 1 .. (Len(req) + 1)
        /\ \A i \in DOMAIN req : req'[i] = req[i] /\ req[i] \in CApduType
        /\ req'[Len(req) + 1] = m
    BY LenProperties, AppendProperties, ElementOfSeq DEF TypeOK, Send
  <2>2. ASSUME NEW i \in DOMAIN req', req'[i].kind = "SM"
        PROVE  /\ req'[i].key \in Keys /\ req'[i].chain # <<>>
               /\ IsPrefix(req'[i].chain, issued'[req'[i].key])
    <3>1. CASE i \in DOMAIN req
      <4>1. /\ req[i].key \in Keys /\ req[i].chain # <<>>
            /\ IsPrefix(req[i].chain, issued[req[i].key])
        BY <2>1, <2>2, <3>1 DEF RequestsInStep
      <4>2. req[i].chain \in Seq(Commands)
        BY <2>1, <3>1 DEF CApduType
      <4> QED BY <1>3, <2>1, <3>1, <4>1, <4>2
    <3>2. CASE i = Len(req) + 1
      <4>1. m.chain = issued'[k] /\ issued'[k] \in Seq(Commands) /\ m.chain # <<>>
        BY <1>1, AppendProperties
      <4> QED BY <2>1, <3>2, <4>1, PrefixFacts
    <3> QED BY <2>1, <3>1, <3>2
  <2>3. ASSUME NEW i \in DOMAIN req', req'[i].kind = "IU"
        PROVE  /\ i \in DOMAIN req /\ req'[i] = req[i]
    BY <2>1, <2>3
  <2> QED BY <2>2, <2>3 DEF RequestsInStep
<1> QED BY <1>4, <1>5, <1>6, <1>7, <1>8

\* The card accepts the next command of its session.
LEMMA AcceptStep ==
  ASSUME InStep, TypeOK', HasRequest("SM"), MacVerifies,
         card'.key = card.key, card'.chain = Request.chain,
         executed' = [executed EXCEPT ![card.key] = Append(@, Last(Request.chain))],
         req' = Tail(req),
         UNCHANGED hostVars
  PROVE  InStep'
<1> USE DEF InStep, hostVars
<1>1. /\ executed \in [Keys -> Seq(Commands)] /\ issued \in [Keys -> Seq(Commands)]
      /\ req \in Seq(CApduType) /\ req # <<>> /\ Request \in CApduType
      /\ Request.chain \in Seq(Commands)
  <2>1. req # <<>> /\ TypeOK
    BY DEF HasRequest
  <2>2. Request \in CApduType
    BY <2>1, RequestType
  <2> QED BY <2>1, <2>2 DEF TypeOK, CApduType
<1>2. /\ Request = req[1] /\ 1 \in DOMAIN req
  BY <1>1, LenProperties, EmptySeq DEF Request
<1>3. /\ card.key \in Keys /\ Request.key = card.key
      /\ IsPrefix(Request.chain, issued[card.key])
  BY <1>2 DEF RequestsInStep, HasRequest, MacVerifies
<1>4. card.chain = executed[card.key] /\ card.key <= lastKey
  BY <1>3 DEF CardInStep, Keys
<1>5. executed'[card.key] = Request.chain
  BY <1>1, <1>3, <1>4 DEF MacVerifies
<1>6. \A q \in Keys \ {card.key} : executed'[q] = executed[q]
  BY <1>1
<1>7. ExecutedInOrder'
  BY <1>3, <1>5, <1>6 DEF ExecutedInOrder
<1>8. HandshakeFresh' /\ SlotsInStep'
  BY DEF HandshakeFresh, SlotsInStep
<1>9. CardInStep'
  BY <1>4, <1>5 DEF CardInStep
<1>10. RequestsInStep'
  <2>1. /\ Len(req) \in Nat /\ DOMAIN req = 1 .. Len(req) /\ DOMAIN req' = 1 .. (Len(req) - 1)
        /\ \A i \in DOMAIN req' : req'[i] = req[i + 1] /\ i + 1 \in DOMAIN req
    <3>1. /\ Tail(req) \in Seq(CApduType) /\ Len(Tail(req)) = Len(req) - 1
          /\ \A i \in 1 .. (Len(req) - 1) : Tail(req)[i] = req[i + 1]
      BY <1>1, TailElements
    <3>2. Len(req) \in Nat /\ Len(req) > 0 /\ DOMAIN req = 1 .. Len(req)
      BY <1>1, LenProperties, EmptySeq
    <3>3. DOMAIN req' = 1 .. (Len(req) - 1)
      BY <3>1, LenProperties
    <3> QED BY <3>1, <3>2, <3>3
  <2>2. ASSUME NEW i \in DOMAIN req', req'[i].kind = "SM"
        PROVE  /\ req'[i].key \in Keys /\ req'[i].chain # <<>>
               /\ IsPrefix(req'[i].chain, issued'[req'[i].key])
    BY <2>1, <2>2 DEF RequestsInStep
  <2>3. ASSUME NEW i \in DOMAIN req', req'[i].kind = "IU"
        PROVE  /\ req'[i].key \in Keys /\ req'[i].key <= lastKey'
               /\ executed'[req'[i].key] = <<>> /\ card'.key # req'[i].key
               /\ \A j \in DOMAIN req' :
                    req'[j].kind = "IU" /\ req'[j].key = req'[i].key => j = i
    <3>1. /\ req'[i].key \in Keys /\ req'[i].key <= lastKey
          /\ executed[req'[i].key] = <<>> /\ card.key # req'[i].key
          /\ \A j \in DOMAIN req :
                    req[j].kind = "IU" /\ req[j].key = req'[i].key => j = i + 1
      BY <2>1, <2>3 DEF RequestsInStep
    <3>2. executed'[req'[i].key] = <<>>
      BY <1>6, <3>1
    <3>3. ASSUME NEW j \in DOMAIN req', req'[j].kind = "IU", req'[j].key = req'[i].key
          PROVE  j = i
      <4>1. j + 1 = i + 1
        BY <2>1, <3>1, <3>3
      <4> QED BY <2>1, <4>1
    <3> QED BY <3>1, <3>2, <3>3
  <2> QED BY <2>2, <2>3 DEF RequestsInStep
<1> QED BY <1>7, <1>8, <1>9, <1>10

\* A challenge is drawn and INITIALIZE UPDATE sent: its keys are new to everyone.
LEMMA StartStep ==
  ASSUME InStep, TypeOK', pc = "select", pc' = "iu",
         lastKey' = lastKey + 1, ctx'.key = lastKey + 1,
         Send(InitUpdate(ctx.p, lastKey + 1)),
         UNCHANGED <<slots, issued, executed, card>>
  PROVE  InStep'
<1> USE DEF InStep
<1> DEFINE k == lastKey + 1
           m == InitUpdate(ctx.p, k)
<1>1. k \in Keys /\ k <= MaxKeys /\ lastKey \in Nat /\ k > lastKey
  BY BoundsAssumption DEF HandshakeFresh, Keys, TypeOK
<1>2. issued[k] = <<>>
  BY <1>1 DEF HandshakeFresh
<1>3. executed[k] = <<>>
  <2>1. IsPrefix(executed[k], issued[k])
    BY <1>1 DEF ExecutedInOrder
  <2>2. executed[k] \in Seq(Commands)
    BY <1>1 DEF TypeOK
  <2>3. EA(TRUE) \in Commands
    BY EAIsCommand
  <2> QED BY <1>2, <2>1, <2>2, <2>3, PrefixFacts
<1>4. \A h \in Handles : slots[h].key # k
  <2>1. ASSUME NEW h \in Handles, slots[h].key = k PROVE FALSE
    <3>1. ~ IsFree(slots[h])
      BY <1>1, <2>1 DEF IsFree
    <3> QED BY <1>1, <2>1, <3>1 DEF SlotsInStep
  <2> QED BY <2>1
<1>5. card.key # k
  BY <1>1 DEF CardInStep
<1>6. ExecutedInOrder'
  BY DEF ExecutedInOrder
<1>7. HandshakeFresh'
  <2>1. \A q \in Keys : q > k => issued[q] = <<>>
    BY <1>1 DEF HandshakeFresh, Keys
  <2> QED BY <1>1, <1>2, <1>4, <2>1 DEF HandshakeFresh
<1>8. SlotsInStep'
  <2>1. \A h \in Handles : slots[h].key \in Nat
    BY DEF TypeOK, Slot
  <2> QED BY <1>1, <2>1 DEF SlotsInStep
<1>9. CardInStep'
  <2>1. card.key \in Nat
    BY DEF TypeOK, CardType
  <2> QED BY <1>1, <2>1 DEF CardInStep
<1>10. RequestsInStep'
  <2>1. m.kind = "IU" /\ m.key = k
    BY DEF InitUpdate
  <2>2. m \in CApduType
    <3>1. ctx.p \in Protos /\ FreeSlot \in Slot
      BY Defaults DEF TypeOK, CtxType
    <3>2. k \in Nat
      BY <1>1
    <3> HIDE DEF k
    <3> QED BY <3>1, <3>2, HostMessages
  <2> HIDE DEF m
  <2>3. /\ Len(req) \in Nat /\ DOMAIN req = 1 .. Len(req) /\ DOMAIN req' = 1 .. (Len(req) + 1)
        /\ \A i \in DOMAIN req : req'[i] = req[i]
        /\ req'[Len(req) + 1] = m
    BY <2>2, LenProperties, AppendProperties DEF TypeOK, Send, m
  <2>4. \A i \in DOMAIN req : req[i].kind = "IU" => req[i].key # k /\ req[i].key <= k
    BY <1>1 DEF RequestsInStep, Keys
  <2> QED BY <1>1, <1>3, <1>5, <2>1, <2>3, <2>4 DEF RequestsInStep
<1> QED BY <1>6, <1>7, <1>8, <1>9, <1>10

\* The card starts a session with the keys of an INITIALIZE UPDATE.
LEMMA CardStartStep ==
  ASSUME InStep, TypeOK', HasRequest("IU"),
         card' = [NoCard EXCEPT !.key = Request.key, !.p = Request.p],
         req' = Tail(req),
         UNCHANGED <<hostVars, executed>>
  PROVE  InStep'
<1> USE DEF InStep, hostVars
<1>1. /\ req \in Seq(CApduType) /\ req # <<>>
      /\ Len(req) \in Nat /\ Len(req) > 0 /\ DOMAIN req = 1 .. Len(req)
  BY LenProperties, EmptySeq DEF HasRequest, TypeOK
<1>2. Request = req[1] /\ 1 \in DOMAIN req /\ req[1].kind = "IU"
  BY <1>1 DEF Request, HasRequest
<1>3. /\ req[1].key \in Keys /\ req[1].key <= lastKey /\ executed[req[1].key] = <<>>
      /\ \A j \in DOMAIN req : req[j].kind = "IU" /\ req[j].key = req[1].key => j = 1
  BY <1>2 DEF RequestsInStep
<1>4. card'.key = req[1].key /\ card'.chain = <<>>
  BY <1>2 DEF NoCard
<1>5. ExecutedInOrder' /\ HandshakeFresh' /\ SlotsInStep'
  BY DEF ExecutedInOrder, HandshakeFresh, SlotsInStep
<1>6. CardInStep'
  BY <1>3, <1>4 DEF CardInStep
<1>7. RequestsInStep'
  <2>1. /\ DOMAIN req' = 1 .. (Len(req) - 1)
        /\ \A i \in DOMAIN req' : req'[i] = req[i + 1] /\ i + 1 \in DOMAIN req /\ i + 1 # 1
    <3>1. /\ Tail(req) \in Seq(CApduType) /\ Len(Tail(req)) = Len(req) - 1
          /\ \A i \in 1 .. (Len(req) - 1) : Tail(req)[i] = req[i + 1]
      BY <1>1, TailElements
    <3>2. DOMAIN req' = 1 .. (Len(req) - 1)
      BY <3>1, LenProperties
    <3> QED BY <1>1, <3>1, <3>2
  <2>2. ASSUME NEW i \in DOMAIN req', req'[i].kind = "SM"
        PROVE  /\ req'[i].key \in Keys /\ req'[i].chain # <<>>
               /\ IsPrefix(req'[i].chain, issued'[req'[i].key])
    BY <2>1, <2>2 DEF RequestsInStep
  <2>3. ASSUME NEW i \in DOMAIN req', req'[i].kind = "IU"
        PROVE  /\ req'[i].key \in Keys /\ req'[i].key <= lastKey'
               /\ executed'[req'[i].key] = <<>> /\ card'.key # req'[i].key
               /\ \A j \in DOMAIN req' :
                    req'[j].kind = "IU" /\ req'[j].key = req'[i].key => j = i
    <3>1. /\ req'[i].key \in Keys /\ req'[i].key <= lastKey
          /\ executed[req'[i].key] = <<>>
          /\ \A j \in DOMAIN req :
                    req[j].kind = "IU" /\ req[j].key = req'[i].key => j = i + 1
      BY <2>1, <2>3 DEF RequestsInStep
    <3>2. card'.key # req'[i].key
      BY <1>3, <1>4, <2>1, <2>3
    <3>3. ASSUME NEW j \in DOMAIN req', req'[j].kind = "IU", req'[j].key = req'[i].key
          PROVE  j = i
      <4>1. j + 1 = i + 1
        BY <2>1, <3>1, <3>3
      <4> QED BY <2>1, <4>1
    <3> QED BY <3>1, <3>2, <3>3
  <2> QED BY <2>2, <2>3 DEF RequestsInStep
<1> QED BY <1>5, <1>6, <1>7

\* A slot is taken for keys under which nothing was wrapped, and given up at once.
LEMMA OrphanStep ==
  ASSUME InStep, TypeOK', ChecksFail
  PROVE  InStep'
<1> USE DEF InStep, cardVars
<1> DEFINE h == FirstFree(slots, ctx.p)
<1>1. /\ pc = "iu" /\ pc' = "idle"
      /\ slots' = [slots EXCEPT ![h] = FreshSlot(ctx.key)]
      /\ UNCHANGED <<req, card, executed, lastKey, issued>>
  BY DEF ChecksFail, Return
<1>2. h \in Handles /\ IsFree(slots[h])
  BY FirstFreeIsFree DEF ChecksFail, TypeOK, CtxType
<1>3. /\ ctx.key \in Keys /\ ctx.key = lastKey /\ issued[ctx.key] = <<>>
      /\ \A g \in Handles : slots[g].key # ctx.key
  BY <1>1 DEF HandshakeFresh
<1>4. FreshSlot(ctx.key).key = ctx.key /\ FreshSlot(ctx.key).chain = <<>>
  BY DEF FreshSlot
<1> HIDE DEF h
<1>5. \A g \in Handles : slots'[g] = IF g = h THEN FreshSlot(ctx.key) ELSE slots[g]
  BY <1>1 DEF TypeOK
<1>6. ExecutedInOrder' /\ CardInStep' /\ RequestsInStep' /\ HandshakeFresh'
  BY <1>1 DEF ExecutedInOrder, CardInStep, RequestsInStep, HandshakeFresh
<1>7. SlotsInStep'
  <2>1. lastKey \in Nat
    BY DEF TypeOK
  <2>2. ASSUME NEW g \in Handles, ~ IsFree(slots'[g])
        PROVE  /\ slots'[g].key <= lastKey'
               /\ slots'[g].chain = issued'[slots'[g].key]
               /\ \A d \in Handles : slots'[d].key = slots'[g].key => d = g
    <3>1. CASE g = h
      BY <1>1, <1>3, <1>4, <1>5, <2>1, <3>1
    <3>2. CASE g # h
      <4>1. slots'[g] = slots[g] /\ ~ IsFree(slots[g])
        BY <1>5, <2>2, <3>2
      <4>2. /\ slots[g].key <= lastKey /\ slots[g].chain = issued[slots[g].key]
            /\ \A d \in Handles : slots[d].key = slots[g].key => d = g
        BY <4>1 DEF SlotsInStep
      <4> QED BY <1>1, <1>3, <1>4, <1>5, <3>2, <4>1, <4>2
    <3> QED BY <3>1, <3>2
  <2> QED BY <2>2 DEF SlotsInStep
<1> QED BY <1>6, <1>7

------------------------------------------------------------------------------
(***************************************************************************)
(* Every step                                                              *)
(***************************************************************************)
LEMMA InitInStep == Init => InStep
<1> SUFFICES ASSUME Init PROVE InStep
  OBVIOUS
<1>1. TypeOK
  BY InitType
<1>2. ExecutedInOrder
  BY DEF ExecutedInOrder, Init, IsPrefix
<1>3. HandshakeFresh
  BY BoundsAssumption DEF HandshakeFresh, Init
<1>4. SlotsInStep
  BY DEF SlotsInStep, Init, FreeSlot, FreshSlot, IsFree
<1>5. CardInStep
  BY DEF CardInStep, Init, NoCard
<1>6. RequestsInStep
  BY DEF RequestsInStep, Init
<1> QED BY <1>1, <1>2, <1>3, <1>4, <1>5, <1>6 DEF InStep

\* The APDUs in the clear add nothing.
LEMMA PlainKinds ==
  \A kind \in {"SELECT", "GET DATA"} :
    Plain(kind) \in CApduType /\ Plain(kind).kind \notin {"SM", "IU"}
<1>1. Plain("SELECT").kind = "SELECT" /\ Plain("GET DATA").kind = "GET DATA"
  BY DEF Plain
<1> QED BY <1>1, Defaults

\* Every step of host, link and card keeps the card in step with the slot.
LEMMA NextInStep == InStep /\ [Next]_vars => InStep'
<1> SUFFICES ASSUME InStep, [Next]_vars PROVE InStep'
  OBVIOUS
<1>t. TypeOK /\ TypeOK'
  BY NextType DEF InStep
<1> USE DEF hostVars, cardVars, linkVars, vars
<1>1. ASSUME NEW p \in Protos, NEW rmac \in BOOLEAN, NEW good \in BOOLEAN,
             OpenScp(p, rmac, good)
      PROVE  InStep'
  <2>1. NothingNew
    BY <1>1, <1>t, PlainKinds, PlainAddsNothing DEF OpenScp
  <2> QED BY <1>1, <1>t, <2>1, QuietStep DEF OpenScp
<1>2. CASE SelectAnswered
  <2>1. ctx'.key = lastKey + 1
    BY <1>2, <1>t DEF SelectAnswered, TypeOK, CtxType
  <2> QED BY <1>2, <1>t, <2>1, StartStep DEF SelectAnswered
<1>3. CASE OpenRefused \/ SessionTableFull \/ ExternalAuthFail \/ ProbeEnds
  <2>1. NothingNew
    BY <1>3, <1>t, StartingAfreshAddsNothing
       DEF OpenRefused, SessionTableFull, ExternalAuthFail, ProbeEnds
  <2>2. UNCHANGED <<slots, issued, executed, card, lastKey>> /\ pc' = "idle"
    BY <1>3 DEF OpenRefused, SessionTableFull, ExternalAuthFail, ProbeEnds, Return
  <2> QED BY <1>t, <2>1, <2>2, QuietStep
<1>4. CASE ChecksFail
  BY <1>4, <1>t, OrphanStep
<1>5. CASE SendExternalAuthenticate
  <2> DEFINE h == FirstFree(slots, ctx.p)
             k == ctx.key
             c == EA(ctx.rmac)
             s == Wrap(ctx.p, FreshSlot(k), c)
             m == Secure(ctx.p, s)
  <2>1. ctx.p \in Protos /\ ctx.rmac \in BOOLEAN /\ k \in Nat
    BY <1>t DEF TypeOK, CtxType
  <2>2. /\ k \in Keys /\ k <= lastKey /\ issued[k] = <<>>
        /\ \A g \in Handles : slots[g].key # k
    BY <1>5, <1>t DEF SendExternalAuthenticate, InStep, HandshakeFresh, TypeOK
  <2>3. h \in Handles
    BY <1>5, <1>t, <2>1, FirstFreeIsFree DEF SendExternalAuthenticate, TypeOK
  <2>4. c \in Commands
    BY <2>1, EAIsCommand
  <2>5. s \in Slot /\ s.key = k /\ s.chain = Append(issued[k], c)
    <3>1. FreshSlot(k) \in Slot /\ FreshSlot(k).key = k /\ FreshSlot(k).chain = <<>>
      BY <2>1, FreshSlotType
    <3> QED BY <2>1, <2>2, <2>4, <3>1, WrapExtendsChain
  <2>6. m \in CApduType
    BY <2>1, <2>5, HostMessages
  <2>7. m.kind = "SM" /\ m.key = k /\ m.chain = s.chain
    BY <2>5 DEF Secure
  <2>8. /\ issued' = [issued EXCEPT ![k] = Append(@, c)]
        /\ slots' = [slots EXCEPT ![h] = s]
        /\ Send(m) /\ pc' = "ea"
        /\ UNCHANGED <<executed, card, lastKey>>
    BY <1>5 DEF SendExternalAuthenticate
  <2> HIDE DEF h, k, c, s, m
  <2> QED BY <1>t, <2>2, <2>3, <2>4, <2>5, <2>6, <2>7, <2>8, IssueStep
<1>6. CASE ChannelOpened
  <2>1. NothingNew
    BY <1>6, <1>t, StartingAfreshAddsNothing DEF ChannelOpened
  <2> QED BY <1>6, <1>t, <2>1, QuietStep DEF ChannelOpened, Return
<1>7. ASSUME NEW c \in Ops, Transmit(c) PROVE InStep'
  <2> DEFINE h == session.h
             p == session.h[1]
             k == Held.key
             s == Wrap(p, Held, c)
             m == Secure(p, s)
  <2>1. h \in Handles /\ p \in Protos /\ Held \in Slot /\ c \in Commands
    BY <1>t DEF TypeOK, SessionType, Handles, Held, Commands
  <2>2. /\ k \in Keys /\ k <= lastKey /\ Held.chain = issued[k]
        /\ \A g \in Handles \ {h} : slots[g].key # k
    <3>1. ~ IsFree(slots[h])
      BY <1>7 DEF Transmit, CanWrap, Held
    <3> QED BY <2>1, <3>1, LiveKeys DEF InStep, SlotsInStep, Held
  <2>3. s \in Slot /\ s.key = k /\ s.chain = Append(issued[k], c)
    BY <2>1, <2>2, WrapExtendsChain
  <2>4. m \in CApduType
    <3>1. k \in Nat
      BY <2>2 DEF Keys
    <3> QED BY <2>1, <2>3, <3>1, HostMessages
  <2>5. m.kind = "SM" /\ m.key = k /\ m.chain = s.chain
    BY <2>3 DEF Secure
  <2>6. /\ issued' = [issued EXCEPT ![k] = Append(@, c)]
        /\ slots' = [slots EXCEPT ![h] = s]
        /\ Send(m) /\ pc' = "cmd"
        /\ UNCHANGED <<executed, card, lastKey>>
    BY <1>7, <2>3 DEF Transmit
  <2> HIDE DEF h, p, k, s, m
  <2> QED BY <1>t, <2>1, <2>2, <2>3, <2>4, <2>5, <2>6, IssueStep
<1>8. CASE TransmitRefused
  <2>1. NothingNew
    BY <1>8, <1>t, StartingAfreshAddsNothing DEF TransmitRefused
  <2> QED BY <1>8, <1>t, <2>1, QuietStep DEF TransmitRefused
<1>9. CASE TransmitAnswered
  <2> DEFINE s == Unwrap(ctx.p, slots[ctx.h], Answer)
  <2>1. ctx.h \in Handles /\ ctx.p \in Protos /\ Answer \in RApduType
    BY <1>9, <1>t, ReceivedType DEF TransmitAnswered, TypeOK, CtxType
  <2>2. slots \in [Handles -> Slot] /\ slots' = [slots EXCEPT ![ctx.h] = s]
    BY <1>9, <1>t DEF TransmitAnswered, TypeOK
  <2>3. \/ s.key = 0
        \/ s.key = slots[ctx.h].key /\ s.chain = slots[ctx.h].chain
    BY <2>1, <2>2, UnwrapKeepsChain DEF IsFree
  <2>4. NothingNew
    BY <1>9, <1>t, StartingAfreshAddsNothing DEF TransmitAnswered
  <2>5. UNCHANGED <<issued, executed, card, lastKey>> /\ pc' = "idle"
    BY <1>9 DEF TransmitAnswered, Return
  <2> HIDE DEF s
  <2>6. \A g \in Handles :
          \/ slots'[g].key = 0
          \/ slots'[g].key = slots[g].key /\ slots'[g].chain = slots[g].chain
    BY <2>1, <2>2, <2>3
  <2> QED BY <1>t, <2>4, <2>5, <2>6, QuietStep
<1>16. CASE TransmitGarbled
  <2>1. NothingNew
    BY <1>16, <1>t, StartingAfreshAddsNothing DEF TransmitGarbled
  <2>2. UNCHANGED <<issued, executed, card, lastKey>> /\ pc' = "idle"
    BY <1>16 DEF TransmitGarbled, Return
  <2>3. \A g \in Handles : slots'[g].key = 0 \/ slots'[g] = slots[g]
    <3>1. FreeSlot.key = 0
      BY DEF FreeSlot, FreshSlot
    <3> QED BY <1>16, <1>t, <3>1 DEF TransmitGarbled, TypeOK
  <2> QED BY <1>t, <2>1, <2>2, <2>3, QuietStep
<1>10. CASE CloseChannel \/ IntoParts
  <2>1. NothingNew
    BY <1>10, <1>t, StartingAfreshAddsNothing DEF CloseChannel, IntoParts
  <2>2. UNCHANGED <<issued, executed, card, lastKey, pc, ctx>> /\ pc = "idle"
    BY <1>10 DEF CloseChannel, IntoParts
  <2>3. \A g \in Handles :
          \/ slots'[g].key = 0
          \/ slots'[g].key = slots[g].key /\ slots'[g].chain = slots[g].chain
    <3>1. slots' = slots \/ slots' = [slots EXCEPT ![session.h] = FreeSlot]
      BY <1>10 DEF CloseChannel, IntoParts, ReleaseChannel
    <3>2. FreeSlot.key = 0
      BY DEF FreeSlot, FreshSlot
    <3> QED BY <1>t, <3>1, <3>2 DEF TypeOK
  <2> QED BY <1>t, <2>1, <2>2, <2>3, QuietStep
<1>11. CASE Discover
  <2>1. NothingNew
    BY <1>11, PlainKinds, StartingAfreshAddsNothing DEF Discover
  <2> QED BY <1>11, <1>t, <2>1, QuietStep DEF Discover
<1>12. CASE DiscoverResetFails \/ LinkError
  <2>1. NothingNew
    BY <1>12, StartingAfreshAddsNothing DEF DiscoverResetFails, LinkError
  <2>2. UNCHANGED <<slots, issued, executed, card, lastKey>> /\ pc' = "idle"
    BY <1>12 DEF DiscoverResetFails, LinkError, Return
  <2> QED BY <1>t, <2>1, <2>2, QuietStep
<1>13. CASE ProbeNext
  <2>1. NothingNew
    BY <1>13, <1>t, PlainKinds, PlainAddsNothing DEF ProbeNext
  <2> QED BY <1>13, <1>t, <2>1, QuietStep DEF ProbeNext
<1>14. CASE Timeout \/ CardInterrupted \/ UNCHANGED vars
  <2>1. NothingNew
    BY <1>14, <1>t, StartingAfreshAddsNothing DEF Timeout, CardInterrupted
  <2>2. /\ UNCHANGED <<slots, issued, executed, lastKey>>
        /\ card' = card \/ card' = NoCard
        /\ pc' = "idle" \/ (pc' = pc /\ ctx' = ctx)
    BY <1>14 DEF Timeout, CardInterrupted, Return
  <2>3. pc' = "select" => lastKey < MaxKeys
    BY <2>2 DEF InStep, HandshakeFresh
  <2> QED BY <1>t, <2>1, <2>2, <2>3, QuietStep
<1>15. CASE CardNext
  <2>1. ASSUME req # <<>>, req' = Tail(req), UNCHANGED <<hostVars, executed>>,
               card' = card \/ card' = NoCard
        PROVE  InStep'
    <3>1. NothingNew
      BY <1>t, <2>1, AnsweredAddsNothing
    <3>2. pc' = "select" => lastKey < MaxKeys
      BY <2>1 DEF InStep, HandshakeFresh
    <3> QED BY <1>t, <2>1, <3>1, <3>2, QuietStep
  <2>2. CASE CardSelect \/ CardGetData \/ CardRefuse
    BY <2>1, <2>2 DEF CardSelect, CardGetData, CardRefuse, HasRequest, Reply
  <2>3. CASE CardInitUpdate
    BY <1>t, <2>1, <2>3, CardStartStep DEF CardInitUpdate, Reply, HasRequest
  <2>4. CASE CardAuthenticate
    <3>1. card'.key = card.key /\ card'.chain = Request.chain
      BY <1>t, <2>4 DEF CardAuthenticate, TypeOK, CardType
    <3> QED BY <1>t, <2>4, <3>1, AcceptStep DEF CardAuthenticate, Reply
  <2>5. CASE CardExecute
    <3>1. card'.key = card.key /\ card'.chain = Request.chain /\ req' = Tail(req)
      BY <1>t, <2>5 DEF CardExecute, Reply, TypeOK, CardType
    <3> QED BY <1>t, <2>5, <3>1, AcceptStep DEF CardExecute
  <2> QED BY <1>15, <2>2, <2>3, <2>4, <2>5 DEF CardNext
<1> QED
  BY <1>1, <1>2, <1>3, <1>4, <1>5, <1>6, <1>7, <1>8, <1>9, <1>10, <1>11, <1>12, <1>13,
     <1>14, <1>15, <1>16 DEF Next, CallerNext, AnswerNext

(***************************************************************************)
(* Both ends stay in step, hence the card never runs a command twice, out  *)
(* of order, after a gap, or one nobody wrapped, whatever is lost, late,   *)
(* retried or reset.                                                       *)
(***************************************************************************)
THEOREM EndsInStep == Spec => []InStep
  BY InitInStep, NextInStep, PTL DEF Spec

\* A card executes the commands wrapped for a session in their order, none twice:
\* what wrap's counter and chaining value, and the card's check of both, are for.
THEOREM OrderIsKept == Spec => []ExecutedInOrder
<1>1. InStep => ExecutedInOrder
  BY DEF InStep
<1> QED BY <1>1, EndsInStep, PTL

------------------------------------------------------------------------------
(***************************************************************************)
(* The session slots: the handle the manager retains keeps its keys, keys  *)
(* torn down stay so, and slots are given up in two ways.                  *)
(*                                                                         *)
(* HandleKeepsItsKeys is not inductive: between derive_session and the     *)
(* answer to EXTERNAL AUTHENTICATE the keys are the handshake's, and while *)
(* a command is under way a failure frees the slot by the handle of that   *)
(* exchange.  SlotsKept follows the keys through both.                     *)
(***************************************************************************)

\* Keys torn down were drawn before, and no slot holds them.
BrokenWereDrawn ==
  /\ broken \subseteq 1 .. lastKey
  /\ \A h \in Handles : slots[h].key \notin broken

\* The retained handle names its keys, at its level, until they are torn down.
SessionKept ==
  session.open /\ session.key \notin broken =>
    /\ session.key \in Keys /\ Held.key = session.key
    /\ Held.authed /\ Held.rmac = session.rmac

\* A handshake has keys that were not torn down, in a slot of its level.
HandshakeKept ==
  /\ pc = "iu" => ctx.key \notin broken
  /\ pc = "ea" => /\ ctx.key \in Keys /\ slots[ctx.h].key = ctx.key
                  /\ slots[ctx.h].authed /\ slots[ctx.h].rmac = ctx.rmac

\* A command under way was wrapped by the slot of the retained handle.
ExchangeKept ==
  pc = "cmd" => /\ session.open /\ ctx.h = session.h
                /\ ctx.key \in Keys /\ Held.key = ctx.key /\ Held.authed

SlotsKept == BrokenWereDrawn /\ SessionKept /\ HandshakeKept /\ ExchangeKept

------------------------------------------------------------------------------
(***************************************************************************)
(* Operators of the model                                                  *)
(***************************************************************************)

\* wrap authenticates a slot and latches its level at the first command only.
LEMMA WrapLatchesLevel ==
  ASSUME NEW p \in Protos, NEW slot \in Slot, NEW c \in Commands
  PROVE  /\ Wrap(p, slot, c).authed
         /\ slot.authed => Wrap(p, slot, c).rmac = slot.rmac
         /\ ~ slot.authed => (Wrap(p, slot, c).rmac <=> c = EA(TRUE))
  BY DEF Wrap, Slot

\* Later commands leave the level alone.
LEMMA WrapKeepsLevel ==
  ASSUME NEW p \in Protos, NEW slot \in Slot, NEW c \in Commands, slot.authed
  PROVE  Wrap(p, slot, c).authed /\ Wrap(p, slot, c).rmac = slot.rmac
  BY DEF Wrap, Slot

\* unwrap leaves keys and level alone, or frees the slot.
LEMMA UnwrapKeepsLevel ==
  ASSUME NEW p \in Protos, NEW slot \in Slot, NEW r \in RApduType
  PROVE  /\ ~ Verify(p, slot, r) => Unwrap(p, slot, r) = FreeSlot
         /\ Verify(p, slot, r) => /\ Unwrap(p, slot, r).key = slot.key
                                  /\ Unwrap(p, slot, r).authed = slot.authed
                                  /\ Unwrap(p, slot, r).rmac = slot.rmac
<1>1. CASE ~ Verify(p, slot, r)
  BY <1>1 DEF Unwrap
<1>2. CASE Verify(p, slot, r) /\ p = "SCP02" /\ slot.rmac
  <2>1. Unwrap(p, slot, r) = [slot EXCEPT !.rchain = r.rchain, !.rbuf = <<>>]
    BY <1>2 DEF Unwrap
  <2> QED BY <1>2, <2>1 DEF Slot
<1>3. CASE Verify(p, slot, r) /\ ~ (p = "SCP02" /\ slot.rmac)
  <2>1. Unwrap(p, slot, r) = slot
    BY <1>3 DEF Unwrap
  <2> QED BY <1>3, <2>1
<1> QED BY <1>1, <1>2, <1>3

\* EXTERNAL AUTHENTICATE asks for an R-MAC or does not.
LEMMA EALevel == \A rmac \in BOOLEAN : EA(rmac) = EA(TRUE) <=> rmac
  BY DEF EA

\* A freed slot holds no keys.
LEMMA FreeSlotKey == FreeSlot.key = 0
  BY DEF FreeSlot, FreshSlot

------------------------------------------------------------------------------
(***************************************************************************)
(* The manager's end of the session                                        *)
(***************************************************************************)
LEMMA InitSlotsKept == Init => SlotsKept
<1> SUFFICES ASSUME Init PROVE SlotsKept
  OBVIOUS
<1>1. BrokenWereDrawn
  BY DEF Init, BrokenWereDrawn
<1>2. SessionKept
  BY DEF Init, SessionKept, NoSession
<1>3. HandshakeKept /\ ExchangeKept
  BY DEF Init, HandshakeKept, ExchangeKept
<1> QED BY <1>1, <1>2, <1>3 DEF SlotsKept

\* Steps that leave the session and its slot alone.
LEMMA SlotsUntouched ==
  ASSUME SlotsKept, UNCHANGED <<session, slots, broken, lastKey>>,
         \/ pc' \notin {"iu", "ea", "cmd"}
         \/ pc' = pc /\ ctx' = ctx
  PROVE  SlotsKept'
<1> USE DEF SlotsKept
<1>1. BrokenWereDrawn'
  BY DEF BrokenWereDrawn
<1>2. SessionKept'
  BY DEF SessionKept, Held
<1>3. HandshakeKept'
  BY DEF HandshakeKept
<1>4. ExchangeKept'
  BY DEF ExchangeKept, Held
<1> QED BY <1>1, <1>2, <1>3, <1>4

\* A free slot is given the keys of the handshake, by derive_session.
LEMMA SlotTaken ==
  ASSUME InStep, SlotsKept, pc = "iu",
         NEW h \in Handles, IsFree(slots[h]), NEW s \in Slot, s.key = ctx.key,
         slots' = [slots EXCEPT ![h] = s],
         UNCHANGED <<session, broken, lastKey>>
  PROVE  BrokenWereDrawn' /\ SessionKept'
<1>1. slots \in [Handles -> Slot] /\ session.h \in Handles
  BY DEF InStep, TypeOK, SessionType
<1>2. ctx.key \notin broken
  BY DEF SlotsKept, HandshakeKept
<1>3. BrokenWereDrawn'
  BY <1>1, <1>2 DEF SlotsKept, BrokenWereDrawn
<1>4. ASSUME session.open, session.key \notin broken
      PROVE  slots'[session.h] = slots[session.h]
  <2>1. Held.key \in Keys
    BY <1>4 DEF SlotsKept, SessionKept
  <2>2. session.h # h
    BY <2>1, BoundsAssumption DEF Held, IsFree, Keys
  <2> QED BY <1>1, <2>2
<1>5. SessionKept'
  BY <1>4 DEF SlotsKept, SessionKept, Held
<1> QED BY <1>3, <1>5

\* The keys a command was wrapped under are torn down.
LEMMA TornDown ==
  ASSUME InStep, SlotsKept, pc = "cmd",
         slots' = [slots EXCEPT ![ctx.h] = FreeSlot],
         broken' = broken \cup {ctx.key},
         pc' = "idle", UNCHANGED <<session, lastKey>>
  PROVE  SlotsKept'
<1>1. slots \in [Handles -> Slot] /\ session.h \in Handles /\ lastKey \in Nat
  BY DEF InStep, TypeOK, SessionType
<1>2. /\ session.open /\ ctx.h = session.h
      /\ ctx.key \in Keys /\ slots[ctx.h].key = ctx.key
  BY DEF SlotsKept, ExchangeKept, Held
<1>3. ctx.key <= lastKey /\ \A g \in Handles : slots[g].key = ctx.key => g = ctx.h
  <2>1. ~ IsFree(slots[ctx.h])
    BY <1>2, BoundsAssumption DEF Keys, IsFree
  <2> QED BY <1>1, <1>2, <2>1 DEF InStep, SlotsInStep
<1>4. BrokenWereDrawn'
  <2>1. ctx.key \in 1 .. lastKey
    BY <1>1, <1>2, <1>3, BoundsAssumption DEF Keys
  <2>2. broken' \subseteq 1 .. lastKey /\ 0 \notin broken'
    <3>1. broken \subseteq 1 .. lastKey
      BY DEF SlotsKept, BrokenWereDrawn
    <3>2. broken' \subseteq 1 .. lastKey
      BY <2>1, <3>1
    <3>3. 0 \notin 1 .. lastKey
      BY <1>1
    <3> QED BY <3>2, <3>3
  <2>3. \A g \in Handles : slots'[g].key \notin broken'
    BY <1>1, <1>3, <2>2, FreeSlotKey DEF SlotsKept, BrokenWereDrawn
  <2> QED BY <2>2, <2>3 DEF BrokenWereDrawn
<1>5. SessionKept'
  <2>1. ASSUME session.key \notin broken' PROVE FALSE
    <3>1. session.key = ctx.key
      BY <1>2, <2>1 DEF SlotsKept, SessionKept, Held
    <3> QED BY <2>1, <3>1
  <2> QED BY <2>1 DEF SessionKept
<1>6. HandshakeKept' /\ ExchangeKept'
  BY DEF HandshakeKept, ExchangeKept
<1> QED BY <1>4, <1>5, <1>6 DEF SlotsKept

\* Every step of host, link and card keeps the retained handle to its keys.
LEMMA NextSlotsKept == InStep /\ SlotsKept /\ [Next]_vars => SlotsKept'
<1> SUFFICES ASSUME InStep, SlotsKept, [Next]_vars PROVE SlotsKept'
  OBVIOUS
<1>t. TypeOK /\ TypeOK'
  BY NextType DEF InStep
<1> USE DEF hostVars, cardVars, linkVars, vars
<1>1. ASSUME NEW p \in Protos, NEW rmac \in BOOLEAN, NEW good \in BOOLEAN,
             OpenScp(p, rmac, good)
      PROVE  SlotsKept'
  BY <1>1, SlotsUntouched DEF OpenScp
<1>2. CASE SelectAnswered
  <2>1. lastKey \in Nat /\ ctx \in CtxType
    BY <1>t DEF TypeOK
  <2>2. /\ lastKey' = lastKey + 1 /\ pc' = "iu" /\ ctx'.key = lastKey + 1
        /\ UNCHANGED <<session, slots, broken>>
    BY <1>2, <2>1 DEF SelectAnswered, CtxType
  <2>3. lastKey + 1 \notin broken /\ BrokenWereDrawn'
    BY <2>1, <2>2 DEF SlotsKept, BrokenWereDrawn
  <2>4. SessionKept' /\ HandshakeKept' /\ ExchangeKept'
    BY <2>2, <2>3 DEF SlotsKept, SessionKept, HandshakeKept, ExchangeKept, Held
  <2> QED BY <2>3, <2>4 DEF SlotsKept
<1>3. CASE OpenRefused \/ SessionTableFull \/ ExternalAuthFail \/ ProbeEnds \/ LinkError
           \/ Timeout
  BY <1>3, SlotsUntouched
     DEF OpenRefused, SessionTableFull, ExternalAuthFail, ProbeEnds, LinkError, Timeout, Return
<1>4. CASE ChecksFail
  <2> DEFINE h == FirstFree(slots, ctx.p)
  <2>1. h \in Handles /\ IsFree(slots[h])
    BY <1>4, <1>t, FirstFreeIsFree DEF ChecksFail, TypeOK, CtxType
  <2>2. FreshSlot(ctx.key) \in Slot /\ FreshSlot(ctx.key).key = ctx.key
    BY <1>t, FreshSlotType DEF TypeOK, CtxType
  <2>3. /\ pc = "iu" /\ pc' = "idle"
        /\ slots' = [slots EXCEPT ![h] = FreshSlot(ctx.key)]
        /\ UNCHANGED <<session, broken, lastKey>>
    BY <1>4 DEF ChecksFail, Return
  <2> HIDE DEF h
  <2>4. BrokenWereDrawn' /\ SessionKept'
    BY <2>1, <2>2, <2>3, SlotTaken
  <2>5. HandshakeKept' /\ ExchangeKept'
    BY <2>3 DEF HandshakeKept, ExchangeKept
  <2> QED BY <2>4, <2>5 DEF SlotsKept
<1>5. CASE SendExternalAuthenticate
  <2> DEFINE h == FirstFree(slots, ctx.p)
             c == EA(ctx.rmac)
             s == Wrap(ctx.p, FreshSlot(ctx.key), c)
  <2>1. ctx.p \in Protos /\ ctx.rmac \in BOOLEAN /\ ctx.key \in Nat
    BY <1>t DEF TypeOK, CtxType
  <2>2. h \in Handles /\ IsFree(slots[h])
    BY <1>5, <1>t, <2>1, FirstFreeIsFree DEF SendExternalAuthenticate, TypeOK
  <2>3. c \in Commands
    BY <2>1, EAIsCommand
  <2>4. FreshSlot(ctx.key) \in Slot /\ FreshSlot(ctx.key).key = ctx.key
        /\ ~ FreshSlot(ctx.key).authed
    BY <2>1, FreshSlotType DEF FreshSlot
  <2>5. s \in Slot /\ s.key = ctx.key
    BY <2>1, <2>3, <2>4, WrapExtendsChain
  <2>6. s.authed /\ s.rmac = ctx.rmac
    <3>1. s.authed /\ (s.rmac <=> c = EA(TRUE))
      BY <2>1, <2>3, <2>4, WrapLatchesLevel
    <3>2. (c = EA(TRUE)) <=> ctx.rmac
      BY <2>1, EALevel
    <3>3. s.rmac \in BOOLEAN
      BY <2>5 DEF Slot
    <3> HIDE DEF s, c
    <3> QED BY <2>1, <3>1, <3>2, <3>3
  <2>7. /\ pc = "iu" /\ pc' = "ea"
        /\ slots' = [slots EXCEPT ![h] = s]
        /\ ctx' = [ctx EXCEPT !.h = h]
        /\ UNCHANGED <<session, broken, lastKey>>
    BY <1>5 DEF SendExternalAuthenticate
  <2> HIDE DEF h, c, s
  <2>8. BrokenWereDrawn' /\ SessionKept'
    BY <2>2, <2>5, <2>7, SlotTaken
  <2>9. ctx.key \in Keys
    BY <2>7 DEF InStep, HandshakeFresh
  <2>10. ctx'.key = ctx.key /\ ctx'.rmac = ctx.rmac /\ ctx'.h = h /\ slots'[h] = s
    BY <1>t, <2>2, <2>7 DEF TypeOK, CtxType
  <2>11. HandshakeKept' /\ ExchangeKept'
    BY <2>5, <2>6, <2>7, <2>9, <2>10 DEF HandshakeKept, ExchangeKept
  <2> QED BY <2>8, <2>11 DEF SlotsKept
<1>6. CASE ChannelOpened
  <2>1. /\ pc = "ea" /\ pc' = "idle" /\ UNCHANGED <<slots, broken, lastKey>>
        /\ session' = [open |-> TRUE, h |-> ctx.h, key |-> ctx.key, rmac |-> ctx.rmac]
    BY <1>6 DEF ChannelOpened, Return
  <2>2. BrokenWereDrawn'
    BY <2>1 DEF SlotsKept, BrokenWereDrawn
  <2>3. SessionKept'
    BY <2>1 DEF SlotsKept, HandshakeKept, SessionKept, Held
  <2>4. HandshakeKept' /\ ExchangeKept'
    BY <2>1 DEF HandshakeKept, ExchangeKept
  <2> QED BY <2>2, <2>3, <2>4 DEF SlotsKept
<1>7. ASSUME NEW c \in Ops, Transmit(c) PROVE SlotsKept'
  <2> DEFINE p == session.h[1]
             s == Wrap(p, Held, c)
  <2>1. session.h \in Handles /\ p \in Protos /\ Held \in Slot /\ c \in Commands
    BY <1>t DEF TypeOK, SessionType, Handles, Held, Commands
  <2>2. /\ session.open /\ pc' = "cmd" /\ slots' = [slots EXCEPT ![session.h] = s]
        /\ ctx' = [NoCtx EXCEPT !.p = p, !.h = session.h, !.key = s.key,
                                !.ask = PlaceOf(Secure(p, s))]
        /\ UNCHANGED <<session, broken, lastKey>>
    BY <1>7 DEF Transmit
  <2>3. ~ IsFree(Held) /\ Held.authed
    BY <1>7, OpsAssumption DEF Transmit, CanWrap
  <2>4. Held.key \in Keys
    BY <2>1, <2>3, LiveKeys DEF Held
  <2>5. s.key = Held.key /\ s.authed /\ s.rmac = Held.rmac
    <3>1. s.key = Held.key
      BY <2>1, WrapExtendsChain
    <3>2. s.authed /\ s.rmac = Held.rmac
      BY <2>1, <2>3, WrapKeepsLevel
    <3> QED BY <3>1, <3>2
  <2> HIDE DEF s, p
  <2>6. slots'[session.h] = s /\ \A g \in Handles \ {session.h} : slots'[g] = slots[g]
    BY <1>t, <2>1, <2>2 DEF TypeOK
  <2>7. ctx'.h = session.h /\ ctx'.key = s.key
    BY <2>2 DEF NoCtx
  <2>8. BrokenWereDrawn'
    BY <2>1, <2>2, <2>5, <2>6 DEF SlotsKept, BrokenWereDrawn, Held
  <2>9. SessionKept'
    BY <2>2, <2>5, <2>6 DEF SlotsKept, SessionKept, Held
  <2>10. HandshakeKept' /\ ExchangeKept'
    BY <2>2, <2>4, <2>5, <2>6, <2>7 DEF HandshakeKept, ExchangeKept, Held
  <2> QED BY <2>8, <2>9, <2>10 DEF SlotsKept
<1>8. CASE TransmitAnswered
  <2> DEFINE s == Unwrap(ctx.p, slots[ctx.h], Answer)
             ok == Verify(ctx.p, slots[ctx.h], Answer)
  <2>1. ctx.h \in Handles /\ ctx.p \in Protos /\ Answer \in RApduType
    BY <1>8, <1>t, ReceivedType DEF TransmitAnswered, TypeOK, CtxType
  <2>2. slots \in [Handles -> Slot] /\ slots[ctx.h] \in Slot
    BY <1>t, <2>1 DEF TypeOK
  <2>3. /\ pc = "cmd" /\ pc' = "idle" /\ slots' = [slots EXCEPT ![ctx.h] = s]
        /\ broken' = IF ok THEN broken ELSE broken \cup {ctx.key}
        /\ UNCHANGED <<session, lastKey>>
    BY <1>8 DEF TransmitAnswered, Return
  <2>4. /\ ~ ok => s = FreeSlot
        /\ ok => s.key = slots[ctx.h].key /\ s.authed = slots[ctx.h].authed
                 /\ s.rmac = slots[ctx.h].rmac
    BY <2>1, <2>2, UnwrapKeepsLevel
  <2> HIDE DEF s, ok
  <2>5. CASE ~ ok
    BY <2>3, <2>4, <2>5, TornDown
  <2>6. CASE ok
    <3>1. \A g \in Handles : /\ slots'[g].key = slots[g].key
                             /\ slots'[g].authed = slots[g].authed
                             /\ slots'[g].rmac = slots[g].rmac
      BY <2>1, <2>2, <2>3, <2>4, <2>6
    <3>2. session.h \in Handles
      BY <1>t DEF TypeOK, SessionType
    <3>3. BrokenWereDrawn'
      BY <2>3, <2>6, <3>1 DEF SlotsKept, BrokenWereDrawn
    <3>4. SessionKept'
      BY <2>3, <2>6, <3>1, <3>2 DEF SlotsKept, SessionKept, Held
    <3>5. HandshakeKept' /\ ExchangeKept'
      BY <2>3 DEF HandshakeKept, ExchangeKept
    <3> QED BY <3>3, <3>4, <3>5 DEF SlotsKept
  <2> QED BY <2>5, <2>6
<1>9. CASE TransmitGarbled
  BY <1>9, TornDown DEF TransmitGarbled, Return
<1>10. CASE CloseChannel \/ IntoParts
  <2>1. /\ pc' = "idle" /\ session' = NoSession /\ UNCHANGED <<broken, lastKey>>
        /\ slots' = slots \/ slots' = [slots EXCEPT ![session.h] = FreeSlot]
    BY <1>10 DEF CloseChannel, IntoParts, ReleaseChannel
  <2>2. 0 \notin broken
    BY DEF SlotsKept, BrokenWereDrawn
  <2>3. BrokenWereDrawn'
    BY <1>t, <2>1, <2>2, FreeSlotKey DEF SlotsKept, BrokenWereDrawn, TypeOK
  <2>4. SessionKept' /\ HandshakeKept' /\ ExchangeKept'
    BY <2>1 DEF SessionKept, HandshakeKept, ExchangeKept, NoSession
  <2> QED BY <2>3, <2>4 DEF SlotsKept
<1>11. CASE TransmitRefused \/ Discover \/ DiscoverResetFails
  BY <1>11, SlotsUntouched DEF TransmitRefused, Discover, DiscoverResetFails
<1>12. CASE ProbeNext
  BY <1>12, SlotsUntouched DEF ProbeNext
<1>13. CASE CardNext \/ CardInterrupted \/ UNCHANGED vars
  <2>1. UNCHANGED hostVars
    BY <1>13 DEF CardNext, CardSelect, CardGetData, CardInitUpdate, CardAuthenticate,
                 CardExecute, CardRefuse, CardInterrupted
  <2> QED BY <2>1, SlotsUntouched
<1> QED
  BY <1>1, <1>2, <1>3, <1>4, <1>5, <1>6, <1>7, <1>8, <1>9, <1>10, <1>11, <1>12, <1>13
     DEF Next, CallerNext, AnswerNext

\* The retained session is kept in every behaviour.
LEMMA SlotsAreKept == Spec => [](InStep /\ SlotsKept)
<1>1. Init => InStep /\ SlotsKept
  BY InitInStep, InitSlotsKept
<1>2. (InStep /\ SlotsKept) /\ [Next]_vars => (InStep /\ SlotsKept)'
  BY NextInStep, NextSlotsKept
<1> QED BY <1>1, <1>2, PTL DEF Spec

\* open_scp and close_channel never take over or free a slot in use: the handle the
\* manager retains names the keys and the level its channel was opened with, until a
\* failed unwrap tears them down.
THEOREM HandleIsKept == Spec => []HandleKeepsItsKeys
<1>1. SlotsKept => HandleKeepsItsKeys
  BY DEF SlotsKept, SessionKept, HandleKeepsItsKeys, Held
<1> QED BY <1>1, SlotsAreKept, PTL

\* unwrap's tear-down is for good: nothing is wrapped again under keys whose
\* session failed, although the manager keeps the handle.
THEOREM TearDownIsFinal == Spec => BrokenStaysBroken
<1>1. ASSUME InStep, SlotsKept, [Next]_vars
      PROVE  [\A k \in broken : issued'[k] = issued[k]]_vars
  <2>1. TypeOK
    BY <1>1 DEF InStep
  <2>2. \A k \in broken : k \in Keys
    <3>1. lastKey \in Nat /\ lastKey <= MaxKeys
      BY <1>1, <2>1 DEF TypeOK, InStep, HandshakeFresh
    <3> QED BY <1>1, <3>1, BoundsAssumption DEF SlotsKept, BrokenWereDrawn, Keys
  <2>3. ASSUME NEW q, q \notin broken, NEW c, issued' = [issued EXCEPT ![q] = Append(@, c)]
        PROVE  \A k \in broken : issued'[k] = issued[k]
    BY <2>1, <2>2, <2>3 DEF TypeOK
  <2>4. CASE SendExternalAuthenticate
    <3>1. ctx.key \notin broken
      BY <1>1, <2>4 DEF SendExternalAuthenticate, SlotsKept, HandshakeKept
    <3> QED BY <2>3, <2>4, <3>1 DEF SendExternalAuthenticate
  <2>5. ASSUME NEW c \in Ops, Transmit(c)
        PROVE  \A k \in broken : issued'[k] = issued[k]
    <3> DEFINE s == Wrap(session.h[1], Held, c)
    <3>1. session.h \in Handles /\ session.h[1] \in Protos /\ Held \in Slot /\ c \in Commands
      BY <2>1 DEF TypeOK, SessionType, Handles, Held, Commands
    <3>2. s.key = Held.key
      BY <3>1, WrapExtendsChain
    <3>3. s.key \notin broken
      BY <1>1, <3>1, <3>2 DEF SlotsKept, BrokenWereDrawn, Held
    <3>4. issued' = [issued EXCEPT ![s.key] = Append(@, c)]
      BY <2>5 DEF Transmit
    <3> HIDE DEF s
    <3> QED BY <2>3, <3>3, <3>4
  <2>6. ASSUME issued' = issued
        PROVE  \A k \in broken : issued'[k] = issued[k]
    BY <2>6
  <2>7. \/ issued' = issued
        \/ SendExternalAuthenticate
        \/ \E c \in Ops : Transmit(c)
    BY <1>1 DEF Next, CallerNext, AnswerNext, CardNext, hostVars, vars, OpenScp, TransmitRefused,
       CloseChannel, IntoParts, Discover, DiscoverResetFails, SelectAnswered, OpenRefused,
       SessionTableFull, ChecksFail, ChannelOpened, ExternalAuthFail, TransmitAnswered,
       TransmitGarbled, ProbeNext, ProbeEnds, CardSelect, CardGetData, CardInitUpdate,
       CardAuthenticate, CardExecute, CardRefuse, LinkError, Timeout, CardInterrupted
  <2> QED BY <2>4, <2>5, <2>6, <2>7
<1> QED BY <1>1, SlotsAreKept, PTL DEF Spec, BrokenStaysBroken

------------------------------------------------------------------------------
(***************************************************************************)
(* Slots given up                                                          *)
(***************************************************************************)
Orphans == Taken \ InUse

\* Sets of handles are finite, since the tables are.
LEMMA FewHandles ==
  ASSUME NEW S, S \subseteq Handles
  PROVE  IsFiniteSet(S)
<1>1. IsFiniteSet(1 .. MaxSessionSlots)
  BY FS_Interval, SlotsAssumption
<1>2. IsFiniteSet(Protos)
  <2>1. IsFiniteSet({"SCP02"})
    BY FS_Singleton
  <2>2. IsFiniteSet({"SCP02"} \cup {"SCP03"})
    BY <2>1, FS_AddElement
  <2> QED BY <2>2 DEF Protos
<1>3. IsFiniteSet(Handles)
  BY <1>1, <1>2, FS_Product DEF Handles
<1> QED BY <1>3, FS_Subset

\* Steps that orphan no slot.
LEMMA NoneOrphaned ==
  ASSUME TypeOK, OrphansAccountedFor, Orphans' \subseteq Orphans, lost' \in Nat, lost' >= lost
  PROVE  OrphansAccountedFor'
<1>1. Orphans \subseteq Handles
  BY DEF Orphans, Taken
<1>2. IsFiniteSet(Orphans) /\ IsFiniteSet(Orphans')
  BY <1>1, FewHandles
<1>3. Cardinality(Orphans') <= Cardinality(Orphans)
  BY <1>2, FS_Subset
<1>4. Cardinality(Orphans) \in Nat /\ Cardinality(Orphans') \in Nat
  BY <1>2, FS_CardinalityType
<1> QED BY <1>3, <1>4 DEF OrphansAccountedFor, Orphans, TypeOK

\* Steps that orphan one slot, and count it.
LEMMA OneOrphaned ==
  ASSUME TypeOK, OrphansAccountedFor, NEW x \in Handles,
         Orphans' \subseteq Orphans \cup {x}, lost' = lost + 1
  PROVE  OrphansAccountedFor'
<1>1. Orphans \subseteq Handles
  BY DEF Orphans, Taken
<1>2. IsFiniteSet(Orphans)
  BY <1>1, FewHandles
<1>3. /\ IsFiniteSet(Orphans \cup {x})
      /\ Cardinality(Orphans \cup {x}) <= Cardinality(Orphans) + 1
      /\ Cardinality(Orphans) \in Nat
  BY <1>2, FS_AddElement, FS_CardinalityType
<1>4. IsFiniteSet(Orphans') /\ Cardinality(Orphans') <= Cardinality(Orphans \cup {x})
  BY <1>3, FS_Subset
<1>5. Cardinality(Orphans') \in Nat /\ Cardinality(Orphans \cup {x}) \in Nat
  BY <1>3, <1>4, FS_CardinalityType
<1> QED BY <1>3, <1>4, <1>5 DEF OrphansAccountedFor, Orphans, TypeOK

\* Every step counts the slot it orphans.
LEMMA NextOrphans == TypeOK /\ OrphansAccountedFor /\ [Next]_vars => OrphansAccountedFor'
<1> SUFFICES ASSUME TypeOK, OrphansAccountedFor, [Next]_vars PROVE OrphansAccountedFor'
  OBVIOUS
<1>t. /\ slots \in [Handles -> Slot] /\ ctx.h \in Handles /\ session.h \in Handles
      /\ lost \in Nat /\ ctx.p \in Protos /\ ctx.key \in Nat
  BY DEF TypeOK, CtxType, SessionType
<1> USE DEF hostVars, cardVars, linkVars, vars
<1>1. ASSUME UNCHANGED <<session, slots>>, pc # "ea", pc' # "ea", lost' = lost
      PROVE  OrphansAccountedFor'
  <2>1. Orphans' = Orphans
    BY <1>1 DEF Orphans, Taken, InUse
  <2> QED BY <1>1, <1>t, <2>1, NoneOrphaned
<1>2. ASSUME NEW p \in Protos, NEW rmac \in BOOLEAN, NEW good \in BOOLEAN,
             OpenScp(p, rmac, good)
      PROVE  OrphansAccountedFor'
  BY <1>1, <1>2 DEF OpenScp
<1>3. CASE SelectAnswered \/ OpenRefused \/ SessionTableFull \/ ProbeNext \/ ProbeEnds
           \/ TransmitRefused \/ Discover \/ DiscoverResetFails
  BY <1>1, <1>3 DEF SelectAnswered, OpenRefused, SessionTableFull, ProbeNext, ProbeEnds,
                    TransmitRefused, Discover, DiscoverResetFails, Return
<1>4. CASE CardNext \/ CardInterrupted \/ UNCHANGED vars
  <2>1. UNCHANGED hostVars
    BY <1>4 DEF CardNext, CardSelect, CardGetData, CardInitUpdate, CardAuthenticate,
                CardExecute, CardRefuse, CardInterrupted
  <2>2. Orphans' = Orphans
    BY <2>1 DEF Orphans, Taken, InUse
  <2> QED BY <2>1, <2>2, <1>t, NoneOrphaned
<1>5. CASE ChecksFail
  <2> DEFINE h == FirstFree(slots, ctx.p)
  <2>1. h \in Handles
    BY <1>5, <1>t, FirstFreeIsFree DEF ChecksFail
  <2>2. /\ slots' = [slots EXCEPT ![h] = FreshSlot(ctx.key)] /\ session' = session
        /\ lost' = lost + 1 /\ pc = "iu" /\ pc' = "idle"
    BY <1>5 DEF ChecksFail, Return
  <2> HIDE DEF h
  <2>3. Taken' \subseteq Taken \cup {h} /\ InUse' = InUse
    BY <1>t, <2>1, <2>2 DEF Taken, InUse
  <2>4. Orphans' \subseteq Orphans \cup {h}
    BY <2>3 DEF Orphans
  <2> QED BY <2>1, <2>2, <2>4, OneOrphaned
<1>6. CASE SendExternalAuthenticate
  <2> DEFINE h == FirstFree(slots, ctx.p)
             s == Wrap(ctx.p, FreshSlot(ctx.key), EA(ctx.rmac))
  <2>1. h \in Handles
    BY <1>6, <1>t, FirstFreeIsFree DEF SendExternalAuthenticate
  <2>2. /\ slots' = [slots EXCEPT ![h] = s] /\ session' = session
        /\ ctx' = [ctx EXCEPT !.h = h]
        /\ lost' = lost /\ pc = "iu" /\ pc' = "ea"
    BY <1>6 DEF SendExternalAuthenticate
  <2> HIDE DEF h, s
  <2>3. ctx'.h = h
    BY <2>2 DEF TypeOK, CtxType
  <2>4. Taken' \subseteq Taken \cup {h} /\ InUse \cup {h} \subseteq InUse'
    BY <1>t, <2>1, <2>2, <2>3 DEF Taken, InUse
  <2>5. Orphans' \subseteq Orphans
    BY <2>4 DEF Orphans
  <2> QED BY <1>t, <2>2, <2>5, NoneOrphaned
<1>7. CASE ChannelOpened
  <2>1. /\ pc = "ea" /\ pc' = "idle" /\ slots' = slots
        /\ session'.open /\ session'.h = ctx.h
        /\ lost' = IF session.open THEN lost + 1 ELSE lost
    BY <1>7 DEF ChannelOpened, Return
  <2>2. Taken' = Taken
    BY <2>1 DEF Taken
  <2>3. CASE session.open
    <3>1. InUse \subseteq InUse' \cup {session.h}
      BY <1>t, <2>1 DEF InUse
    <3>2. Orphans' \subseteq Orphans \cup {session.h}
      BY <2>2, <3>1 DEF Orphans
    <3> QED BY <1>t, <2>1, <2>3, <3>2, OneOrphaned
  <2>4. CASE ~ session.open
    <3>1. InUse \subseteq InUse'
      BY <1>t, <2>1, <2>4 DEF InUse
    <3>2. Orphans' \subseteq Orphans
      BY <2>2, <3>1 DEF Orphans
    <3> QED BY <1>t, <2>1, <2>4, <3>2, NoneOrphaned
  <2> QED BY <2>3, <2>4
<1>8. CASE ExternalAuthFail \/ LinkError \/ Timeout
  <2>1. /\ pc' = "idle" /\ UNCHANGED <<slots, session>>
        /\ lost' = IF pc = "ea" THEN lost + 1 ELSE lost
    BY <1>8 DEF ExternalAuthFail, LinkError, Timeout, Return, AbandonedSlots
  <2>2. CASE pc = "ea"
    <3>1. Taken' = Taken /\ InUse \subseteq InUse' \cup {ctx.h}
      BY <1>t, <2>1 DEF Taken, InUse
    <3>2. Orphans' \subseteq Orphans \cup {ctx.h}
      BY <3>1 DEF Orphans
    <3> QED BY <1>t, <2>1, <2>2, <3>2, OneOrphaned
  <2>3. CASE pc # "ea"
    BY <1>1, <2>1, <2>3
  <2> QED BY <2>2, <2>3
<1>9. ASSUME NEW c \in Ops, Transmit(c) PROVE OrphansAccountedFor'
  <2> DEFINE s == Wrap(session.h[1], Held, c)
  <2>1. /\ session.open /\ slots' = [slots EXCEPT ![session.h] = s]
        /\ pc = "idle" /\ pc' = "cmd" /\ session' = session /\ lost' = lost
    BY <1>9 DEF Transmit
  <2> HIDE DEF s
  <2>2. /\ Taken' \subseteq Taken \cup {session.h}
        /\ InUse' = InUse /\ session.h \in InUse
    BY <1>t, <2>1 DEF Taken, InUse
  <2>3. Orphans' \subseteq Orphans
    BY <2>2 DEF Orphans
  <2> QED BY <1>t, <2>1, <2>3, NoneOrphaned
<1>10. CASE TransmitAnswered \/ TransmitGarbled
  <2>1. /\ pc = "cmd" /\ pc' = "idle" /\ session' = session /\ lost' = lost
        /\ \E s \in Slot : /\ slots' = [slots EXCEPT ![ctx.h] = s]
                           /\ IsFree(s) \/ s.key = slots[ctx.h].key
    <3>1. CASE TransmitAnswered
      <4>1. Answer \in RApduType /\ slots[ctx.h] \in Slot
        BY <3>1, <1>t, ReceivedType DEF TransmitAnswered
      <4>2. LET s == Unwrap(ctx.p, slots[ctx.h], Answer)
            IN  s \in Slot /\ (IsFree(s) \/ s.key = slots[ctx.h].key)
        BY <4>1, <1>t, UnwrapKeepsChain
      <4> QED BY <3>1, <4>2 DEF TransmitAnswered, Return
    <3>2. CASE TransmitGarbled
      BY <3>2, Defaults, FreeSlotKey DEF TransmitGarbled, Return, IsFree
    <3> QED BY <1>10, <3>1, <3>2
  <2>2. Taken' \subseteq Taken /\ InUse' = InUse
    BY <1>t, <2>1 DEF Taken, InUse, IsFree
  <2>3. Orphans' \subseteq Orphans
    BY <2>2 DEF Orphans
  <2> QED BY <1>t, <2>1, <2>3, NoneOrphaned
<1>11. CASE CloseChannel \/ IntoParts
  <2>1. /\ pc = "idle" /\ pc' = pc /\ lost' = lost
        /\ slots' = IF session.open THEN [slots EXCEPT ![session.h] = FreeSlot] ELSE slots
    BY <1>11 DEF CloseChannel, IntoParts, ReleaseChannel
  <2>2. Taken' \subseteq Taken \ InUse
    BY <1>t, <2>1, FreeSlotKey DEF Taken, InUse, IsFree
  <2>3. Orphans' \subseteq Orphans
    BY <2>2 DEF Orphans
  <2> QED BY <1>t, <2>1, <2>3, NoneOrphaned
<1> QED
  BY <1>2, <1>3, <1>4, <1>5, <1>6, <1>7, <1>8, <1>9, <1>10, <1>11
     DEF Next, CallerNext, AnswerNext

\* Slots are given up in two ways only, by an open that fails after derive_session and
\* by one that replaces a channel still held: `lost' counts both.
THEOREM OrphansAreCounted == Spec => []OrphansAccountedFor
<1>1. Init => OrphansAccountedFor
  <2> SUFFICES ASSUME Init PROVE OrphansAccountedFor
    OBVIOUS
  <2>1. Taken = {}
    BY DEF Init, Taken, IsFree, FreeSlot, FreshSlot
  <2>2. Taken \ InUse = {} /\ lost = 0
    BY <2>1 DEF Init
  <2> QED BY <2>2, FS_EmptySet DEF OrphansAccountedFor
<1>2. (TypeOK /\ OrphansAccountedFor) /\ [Next]_vars => (TypeOK /\ OrphansAccountedFor)'
  BY NextType, NextOrphans
<1> QED BY <1>1, <1>2, InitType, PTL DEF Spec
=============================================================================
