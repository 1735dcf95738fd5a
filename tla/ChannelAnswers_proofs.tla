------------------------ MODULE ChannelAnswers_proofs ------------------------
(***************************************************************************)
(* Whose answer the manager reads, for every number of slots, keys and     *)
(* commands, and for both transports.                                      *)
(*                                                                         *)
(* Neither AnswerBelongs nor OpenedMeansAuthenticated says anything of the *)
(* answers still on the link, which the next step reads.  AnswersKept      *)
(* does, along three ways to know whose answer one is:                     *)
(*   AnswersSay   what a protected answer covers names the command it      *)
(*                answers, so a verified R-MAC identifies it;              *)
(*   CaughtUp     the answer to a fresh host challenge is the last thing   *)
(*                on the link, so that EXTERNAL AUTHENTICATE goes out on   *)
(*                an empty one;                                            *)
(*   OneExchange  without a stream that outlives a timeout there is only   *)
(*                ever one request or answer on the link.                  *)
(***************************************************************************)
EXTENDS CardChannel_proofs

\* What can be read off an answer: INITIALIZE UPDATE names a challenge that was drawn,
\* an R-MAC of SCP03 the chain it covers, one of SCP02 the command.
AnswerSays(r) ==
  /\ r.kind = "IU" => r.key <= lastKey
  /\ r.chain # <<>> => r.ans = [key |-> r.key, n |-> Len(r.chain)]
  /\ r.rchain # <<>> =>
       /\ r.key \in Keys /\ r.ans.key = r.key
       /\ r.ans.n \in 1 .. Len(issued[r.key])
       /\ Last(r.rchain).cmd = <<CommandAt(r.ans)>>
AnswersSay == \A i \in DOMAIN resp : AnswerSays(resp[i])

\* All there is on the link is the last command wrapped under k, or the answer to it.
OnlyThis(k) ==
  \/ /\ resp = <<>> /\ Len(req) = 1
     /\ req[1].kind = "SM" /\ req[1].key = k /\ req[1].chain = issued[k]
  \/ /\ req = <<>> /\ Len(resp) = 1
     /\ resp[1].ans = [key |-> k, n |-> Len(issued[k])]
     /\ resp[1].sw = "ok" => executed[k] = issued[k]

\* The handshake's own INITIALIZE UPDATE, or the answer to it, comes last.
ChallengeLast ==
  pc = "iu" =>
    /\ \A i \in DOMAIN req : req[i].kind = "IU" /\ req[i].key = ctx.key => i = Len(req)
    /\ \A i \in DOMAIN resp :
         resp[i].kind = "IU" /\ resp[i].key = ctx.key => i = Len(resp) /\ req = <<>>

CaughtUp ==
  pc = "ea" => OnlyThis(ctx.key) /\ issued[ctx.key] = <<EA(ctx.rmac)>>

OneExchange ==
  ~ LateAnswers =>
    /\ pc = "idle" => req = <<>> /\ resp = <<>>
    /\ pc # "idle" => Len(req) + Len(resp) = 1
    /\ pc = "cmd" => OnlyThis(ctx.key)

\* The command under way is the last one wrapped under the keys of the slot.
AskedFor ==
  pc = "cmd" =>
    /\ ctx.p = session.h[1]
    /\ issued[ctx.key] # <<>> /\ ctx.ask = [key |-> ctx.key, n |-> Len(issued[ctx.key])]
    /\ Held.rmac /\ ctx.p = "SCP02" => Held.rbuf = <<CommandAt(ctx.ask)>>

NoneInHand == pc # "idle" => outcome.what # "answer"
SessionDrawn == session.open => session.key \in Keys

AnswersKept ==
  /\ AnswersSay /\ ChallengeLast /\ CaughtUp /\ OneExchange /\ AskedFor
  /\ NoneInHand /\ SessionDrawn
  /\ OpenedMeansAuthenticated /\ AnswerBelongs

------------------------------------------------------------------------------
(***************************************************************************)
(* Histories                                                               *)
(***************************************************************************)

\* The card accepts a command that was wrapped, and the next one it had not accepted.
LEMMA VerifiedRequest ==
  ASSUME InStep, HasRequest("SM"), MacVerifies
  PROVE  /\ Request \in CApduType /\ Request.chain \in Seq(Commands)
         /\ card.key \in Keys /\ Request.key = card.key
         /\ Len(Request.chain) \in Nat /\ Len(Request.chain) > 0
         /\ Last(Request.chain) \in Commands
         /\ IsPrefix(Request.chain, issued[card.key])
         /\ Append(executed[card.key], Last(Request.chain)) = Request.chain
<1>1. TypeOK /\ req # <<>> /\ req \in Seq(CApduType) /\ card \in CardType
  BY DEF InStep, TypeOK, HasRequest
<1>2. Request \in CApduType /\ Request.chain \in Seq(Commands) /\ card.chain \in Seq(Commands)
  BY <1>1, RequestType DEF CApduType, CardType
<1>3. Request = req[1] /\ 1 \in DOMAIN req
  BY <1>1, LenProperties, EmptySeq DEF Request
<1>4. /\ card.key \in Keys /\ Request.key = card.key
      /\ IsPrefix(Request.chain, issued[card.key])
  BY <1>3 DEF InStep, RequestsInStep, HasRequest, MacVerifies
<1>5. Len(Request.chain) \in Nat /\ Len(Request.chain) > 0
  <2>1. Len(card.chain) \in Nat
    BY <1>2, LenProperties
  <2> QED BY <2>1 DEF MacVerifies
<1>6. Last(Request.chain) \in Commands
  BY <1>2, <1>5, ElementOfSeq DEF Last
<1>7. card.chain = executed[card.key]
  BY <1>4, BoundsAssumption DEF InStep, CardInStep, Keys
<1> QED BY <1>2, <1>4, <1>5, <1>6, <1>7 DEF MacVerifies

\* wrap and the card add to the end of a history, and nothing else touches one.
LEMMA HistoriesGrow ==
  ASSUME InStep, [Next]_vars
  PROVE  \A k \in Keys :
           /\ Len(issued[k]) <= Len(issued'[k])
           /\ \A i \in 1 .. Len(issued[k]) : issued'[k][i] = issued[k][i]
           /\ executed[k] # <<>> => executed'[k] # <<>> /\ executed'[k][1] = executed[k][1]
<1>t. /\ TypeOK /\ TypeOK'
      /\ issued \in [Keys -> Seq(Commands)] /\ executed \in [Keys -> Seq(Commands)]
      /\ issued' \in [Keys -> Seq(Commands)] /\ executed' \in [Keys -> Seq(Commands)]
  BY NextType DEF InStep, TypeOK
<1>1. \/ issued' = issued
      \/ \E q : \E c \in Commands : issued' = [issued EXCEPT ![q] = Append(@, c)]
  <2>1. CASE SendExternalAuthenticate
    <3>1. ctx.rmac \in BOOLEAN
      BY <1>t DEF TypeOK, CtxType
    <3>2. EA(ctx.rmac) \in Commands
      BY <3>1, EAIsCommand
    <3> QED BY <2>1, <3>2 DEF SendExternalAuthenticate
  <2>2. ASSUME NEW c \in Ops, Transmit(c)
        PROVE  \E q : \E d \in Commands : issued' = [issued EXCEPT ![q] = Append(@, d)]
    BY <2>2 DEF Transmit, Commands
  <2>3. \/ issued' = issued
        \/ SendExternalAuthenticate
        \/ \E c \in Ops : Transmit(c)
    BY DEF Next, CallerNext, AnswerNext, CardNext, hostVars, vars, OpenScp, TransmitRefused,
       CloseChannel, IntoParts, Discover, DiscoverResetFails, SelectAnswered, OpenRefused,
       SessionTableFull, ChecksFail, ChannelOpened, ExternalAuthFail, TransmitAnswered,
       TransmitGarbled, ProbeNext, ProbeEnds, CardSelect, CardGetData, CardInitUpdate,
       CardAuthenticate, CardExecute, CardRefuse, LinkError, Timeout, CardInterrupted
  <2> QED BY <2>1, <2>2, <2>3
<1>2. \/ executed' = executed
      \/ \E q : \E c \in Commands : executed' = [executed EXCEPT ![q] = Append(@, c)]
  <2>2. CASE CardAuthenticate \/ CardExecute
    BY <2>2, VerifiedRequest DEF CardAuthenticate, CardExecute
  <2>3. \/ executed' = executed
        \/ CardAuthenticate \/ CardExecute
    BY DEF Next, CallerNext, AnswerNext, CardNext, hostVars, cardVars, vars, OpenScp,
       TransmitRefused, Transmit, SendExternalAuthenticate,
       CloseChannel, IntoParts, Discover, DiscoverResetFails, SelectAnswered, OpenRefused,
       SessionTableFull, ChecksFail, ChannelOpened, ExternalAuthFail, TransmitAnswered,
       TransmitGarbled, ProbeNext, ProbeEnds, CardSelect, CardGetData, CardInitUpdate,
       CardRefuse, LinkError, Timeout, CardInterrupted
  <2> QED BY <2>2, <2>3
<1>3. ASSUME NEW s \in Seq(Commands), NEW t,
             t = s \/ \E c \in Commands : t = Append(s, c)
      PROVE  /\ Len(s) \in Nat /\ Len(s) <= Len(t)
             /\ \A i \in 1 .. Len(s) : t[i] = s[i]
             /\ s # <<>> => t # <<>> /\ t[1] = s[1]
  <2>1. Len(s) \in Nat /\ (s # <<>> => Len(s) > 0)
    BY LenProperties, EmptySeq
  <2>2. CASE t = s
    BY <2>1, <2>2
  <2>3. ASSUME NEW c \in Commands, t = Append(s, c)
        PROVE  /\ Len(s) <= Len(t) /\ t # <<>>
               /\ \A i \in 1 .. Len(s) : t[i] = s[i]
    BY <2>1, <2>3, AppendProperties
  <2>4. Len(s) > 0 => 1 \in 1 .. Len(s)
    BY <2>1
  <2> QED BY <1>3, <2>1, <2>2, <2>3, <2>4
<1>4. ASSUME NEW k \in Keys
      PROVE  /\ issued'[k] = issued[k] \/ \E c \in Commands : issued'[k] = Append(issued[k], c)
             /\ \/ executed'[k] = executed[k]
                \/ \E c \in Commands : executed'[k] = Append(executed[k], c)
             /\ issued[k] \in Seq(Commands) /\ executed[k] \in Seq(Commands)
  <2>1. issued'[k] = issued[k] \/ \E c \in Commands : issued'[k] = Append(issued[k], c)
    BY <1>t, <1>1
  <2>2. executed'[k] = executed[k] \/ \E c \in Commands : executed'[k] = Append(executed[k], c)
    BY <1>t, <1>2
  <2> QED BY <1>t, <2>1, <2>2
<1> QED BY <1>3, <1>4

------------------------------------------------------------------------------
(***************************************************************************)
(* What the card answers                                                   *)
(***************************************************************************)

\* An answer without an R-MAC says nothing of the command it answers.
LEMMA BareAnswers ==
  ASSUME NEW sw \in SWs, NEW at \in Place
  PROVE  /\ AnswerSays(PlainAnswer(sw, at))
         /\ PlainAnswer(sw, at) \in RApduType
         /\ PlainAnswer(sw, at).kind = "plain"
         /\ PlainAnswer(sw, at).ans = at /\ PlainAnswer(sw, at).sw = sw
<1>1. PlainAnswer(sw, at) \in RApduType
  BY CardMessages, EmptySeq DEF Protos
<1>2. AnswerSays(PlainAnswer(sw, at))
  BY DEF PlainAnswer, AnswerSays
<1> QED BY <1>1, <1>2 DEF PlainAnswer

\* Each request gets one answer, which says what it answers as far as it is protected.
LEMMA CardReplies ==
  ASSUME InStep, CardNext
  PROVE  \E r \in RApduType :
           /\ req # <<>> /\ Reply(r) /\ UNCHANGED hostVars
           /\ AnswerSays(r)
           /\ r.kind = "IU" => Request.kind = "IU" /\ r.key = Request.key
           /\ Request.kind = "SM" =>
                /\ r.ans = PlaceOf(Request)
                /\ r.sw = "ok" => executed'[Request.key] = Request.chain
<1>t. TypeOK /\ Nothing \in Place /\ "ok" \in SWs /\ "error" \in SWs
  BY Defaults DEF InStep, SWs
<1>1. CASE CardSelect
  <2>1. \E sw \in SWs : Reply(PlainAnswer(sw, Nothing))
    BY <1>t, <1>1 DEF CardSelect
  <2> QED BY <1>t, <1>1, <2>1, BareAnswers DEF CardSelect, HasRequest
<1>2. CASE CardGetData
  BY <1>t, <1>2, BareAnswers DEF CardGetData, HasRequest
<1>3. CASE CardInitUpdate
  <2>1. req # <<>> /\ Request = req[1] /\ 1 \in DOMAIN req /\ Request.kind = "IU"
    BY <1>t, <1>3, LenProperties, EmptySeq DEF CardInitUpdate, HasRequest, Request, TypeOK
  <2>2. Request \in CApduType /\ Request.key <= lastKey
    BY <1>t, <2>1, RequestType DEF InStep, RequestsInStep
  <2> DEFINE r == IuAnswer(Request.p, Request.key)
  <2>3. r \in RApduType
    BY <1>t, <2>2, CardMessages, EmptySeq DEF CApduType
  <2>4. r.kind = "IU" /\ r.key = Request.key /\ AnswerSays(r)
    BY <2>2 DEF IuAnswer, AnswerSays
  <2>5. Reply(r) \/ Reply(PlainAnswer("error", Nothing))
    BY <1>3 DEF CardInitUpdate
  <2> HIDE DEF r
  <2> QED BY <1>t, <1>3, <2>1, <2>3, <2>4, <2>5, BareAnswers DEF CardInitUpdate
<1>4. ASSUME HasRequest("SM")
      PROVE  /\ req # <<>> /\ Request.kind = "SM" /\ PlaceOf(Request) \in Place
             /\ Request \in CApduType
  <2>1. Request \in CApduType
    BY <1>t, <1>4, RequestType DEF HasRequest
  <2>2. Len(Request.chain) \in Nat
    BY <2>1, LenProperties DEF CApduType
  <2> QED BY <1>4, <2>1, <2>2 DEF HasRequest, PlaceOf, Place, CApduType
<1>5. CASE CardAuthenticate
  <2>1. executed'[Request.key] = Request.chain
    BY <1>t, <1>5, VerifiedRequest DEF CardAuthenticate, TypeOK
  <2> QED BY <1>t, <1>4, <1>5, <2>1, BareAnswers DEF CardAuthenticate
<1>6. CASE CardRefuse
  BY <1>t, <1>4, <1>6, BareAnswers DEF CardRefuse
<1>7. CASE CardExecute
  <2>v. /\ Request.chain \in Seq(Commands) /\ card.key \in Keys /\ Request.key = card.key
        /\ Len(Request.chain) \in Nat /\ Len(Request.chain) > 0
        /\ Last(Request.chain) \in Commands
        /\ IsPrefix(Request.chain, issued[card.key])
    BY <1>7, VerifiedRequest DEF CardExecute
  <2> DEFINE at == PlaceOf(Request)
             pair(sw) == [cmd |-> <<Last(Request.chain)>>, sw |-> sw]
             m2(sw) == MacAnswer("SCP02", sw, card.key, <<>>, Append(card.rchain, pair(sw)), at)
             m3(sw) == MacAnswer("SCP03", sw, card.key, Request.chain, <<>>, at)
  <2>1. PICK sw \in SWs :
          Reply(PlainAnswer(sw, at)) \/ Reply(m2(sw)) \/ Reply(m3(sw))
    BY <1>7 DEF CardExecute
  <2>2. executed'[Request.key] = Request.chain
    BY <1>t, <1>7, VerifiedRequest DEF CardExecute, TypeOK
  <2>3. at \in Place /\ at = [key |-> Request.key, n |-> Len(Request.chain)]
    BY <1>4, <1>7 DEF CardExecute, PlaceOf
  <2>4. pair(sw) \in ExchangeRecord /\ pair(sw).cmd = <<Last(Request.chain)>>
    BY <2>v DEF ExchangeRecord
  <2>5. card.rchain \in Seq(ExchangeRecord) /\ card.key \in Nat
    BY <1>t DEF TypeOK, CardType
  <2>6. /\ Append(card.rchain, pair(sw)) \in Seq(ExchangeRecord)
        /\ Last(Append(card.rchain, pair(sw))) = pair(sw)
    BY <2>4, <2>5, AppendProperties, LenProperties DEF Last
  <2>7. m2(sw) \in RApduType /\ m3(sw) \in RApduType
    BY <2>v, <2>3, <2>5, <2>6, CardMessages, EmptySeq DEF Protos
  <2>8. at.n \in 1 .. Len(issued[card.key]) /\ CommandAt(at) = Last(Request.chain)
    <3>1. issued[card.key] \in Seq(Commands) /\ Len(issued[card.key]) \in Nat
      BY <1>t, <2>v, LenProperties DEF TypeOK
    <3>2. /\ Len(Request.chain) <= Len(issued[card.key])
          /\ \A i \in 1 .. Len(Request.chain) : Request.chain[i] = issued[card.key][i]
      BY <2>v, <3>1, PrefixElements
    <3> QED BY <2>v, <2>3, <3>1, <3>2 DEF CommandAt, Last
  <2>9. AnswerSays(m2(sw))
    <3>1. /\ m2(sw).kind = "SM" /\ m2(sw).key = card.key /\ m2(sw).chain = <<>>
          /\ m2(sw).rchain = Append(card.rchain, pair(sw)) /\ m2(sw).ans = at
      BY DEF MacAnswer
    <3> HIDE DEF m2
    <3> QED BY <2>v, <2>3, <2>4, <2>6, <2>8, <3>1 DEF AnswerSays
  <2>10. AnswerSays(m3(sw))
    BY <2>v, <2>3 DEF MacAnswer, AnswerSays
  <2>11. /\ m2(sw).kind = "SM" /\ m2(sw).ans = at
         /\ m3(sw).kind = "SM" /\ m3(sw).ans = at
    BY DEF MacAnswer
  <2> HIDE DEF m2, m3, pair, at
  <2>12. at = PlaceOf(Request)
    BY DEF at
  <2>13. \E r \in RApduType :
           Reply(r) /\ AnswerSays(r) /\ r.kind # "IU" /\ r.ans = at
    BY <2>1, <2>3, <2>7, <2>9, <2>10, <2>11, BareAnswers
  <2> QED BY <1>4, <1>7, <2>2, <2>12, <2>13 DEF CardExecute
<1> QED BY <1>1, <1>2, <1>3, <1>5, <1>6, <1>7 DEF CardNext
\* What an answer says stays true while it waits on the link.
LEMMA AnswersStaySaid ==
  ASSUME InStep, AnswersSay, [Next]_vars
  PROVE  AnswersSay'
<1>t. TypeOK /\ TypeOK' /\ resp \in Seq(RApduType) /\ lastKey \in Nat
      /\ issued \in [Keys -> Seq(Commands)]
  BY NextType DEF InStep, TypeOK
<1>1. lastKey' = lastKey \/ lastKey' = lastKey + 1
  BY DEF Next, CallerNext, AnswerNext, CardNext, hostVars, vars, OpenScp, TransmitRefused,
     Transmit, SendExternalAuthenticate,
     CloseChannel, IntoParts, Discover, DiscoverResetFails, SelectAnswered, OpenRefused,
     SessionTableFull, ChecksFail, ChannelOpened, ExternalAuthFail, TransmitAnswered,
     TransmitGarbled, ProbeNext, ProbeEnds, CardSelect, CardGetData, CardInitUpdate,
     CardAuthenticate, CardExecute, CardRefuse, LinkError, Timeout, CardInterrupted
<1>2. \/ resp' = resp
      \/ resp' = <<>>
      \/ resp # <<>> /\ resp' = Tail(resp)
      \/ \E r \in RApduType : AnswerSays(r) /\ resp' = Append(resp, r)
  <2>1. CASE CardNext
    BY <2>1, CardReplies DEF Reply
  <2>2. CASE CallerNext
    BY <2>2 DEF CallerNext, linkVars, OpenScp, TransmitRefused, Transmit, CloseChannel,
                IntoParts, Discover, DiscoverResetFails
  <2>3. CASE AnswerNext
    BY <2>3 DEF AnswerNext, Receive, SelectAnswered, OpenRefused, SessionTableFull, ChecksFail,
       SendExternalAuthenticate, ChannelOpened, ExternalAuthFail, TransmitAnswered,
       TransmitGarbled, ProbeNext, ProbeEnds
  <2>4. CASE LinkError \/ Timeout \/ CardInterrupted \/ UNCHANGED vars
    BY <2>4 DEF LinkError, Timeout, CardInterrupted, linkVars, vars
  <2> QED BY <2>1, <2>2, <2>3, <2>4 DEF Next
<1>3. ASSUME NEW i \in DOMAIN resp'
      PROVE  \E r \in RApduType : r = resp'[i] /\ AnswerSays(r)
  <2>1. Len(resp) \in Nat /\ DOMAIN resp = 1 .. Len(resp)
        /\ \A j \in 1 .. Len(resp) : resp[j] \in RApduType /\ AnswerSays(resp[j])
    BY <1>t, LenProperties, ElementOfSeq DEF AnswersSay
  <2>2. CASE resp' = resp \/ resp' = <<>>
    BY <2>1, <2>2
  <2>3. CASE resp # <<>> /\ resp' = Tail(resp)
    <3>1. /\ resp' \in Seq(RApduType) /\ Len(resp') = Len(resp) - 1
          /\ \A j \in 1 .. (Len(resp) - 1) : resp'[j] = resp[j + 1]
      BY <1>t, <2>3, TailElements
    <3>2. i \in 1 .. (Len(resp) - 1)
      BY <3>1, LenProperties
    <3> QED BY <2>1, <3>1, <3>2
  <2>4. ASSUME NEW r \in RApduType, AnswerSays(r), resp' = Append(resp, r)
        PROVE  \E q \in RApduType : q = resp'[i] /\ AnswerSays(q)
    <3>1. /\ resp' \in Seq(RApduType) /\ Len(resp') = Len(resp) + 1
          /\ \A j \in 1 .. Len(resp) : resp'[j] = resp[j]
          /\ resp'[Len(resp) + 1] = r
      BY <1>t, <2>4, AppendProperties
    <3>2. i \in 1 .. Len(resp) \/ i = Len(resp) + 1
      BY <2>1, <3>1, LenProperties
    <3> QED BY <2>1, <2>4, <3>1, <3>2
  <2> QED BY <1>2, <2>2, <2>3, <2>4
<1>4. ASSUME NEW r \in RApduType, AnswerSays(r)
      PROVE  /\ r.kind = "IU" => r.key <= lastKey'
             /\ r.chain # <<>> => r.ans = [key |-> r.key, n |-> Len(r.chain)]
             /\ r.rchain # <<>> =>
                  /\ r.key \in Keys /\ r.ans.key = r.key
                  /\ r.ans.n \in 1 .. Len(issued'[r.key])
                  /\ Last(r.rchain).cmd = <<issued'[r.ans.key][r.ans.n]>>
  <2>1. r.kind = "IU" => r.key <= lastKey'
    <3>1. r.key \in Nat
      BY DEF RApduType
    <3> QED BY <1>t, <1>1, <1>4, <3>1 DEF AnswerSays
  <2>2. ASSUME r.rchain # <<>>
        PROVE  /\ r.key \in Keys /\ r.ans.key = r.key
               /\ r.ans.n \in 1 .. Len(issued'[r.key])
               /\ Last(r.rchain).cmd = <<issued'[r.ans.key][r.ans.n]>>
    <3>1. /\ r.key \in Keys /\ r.ans.key = r.key
          /\ r.ans.n \in 1 .. Len(issued[r.key])
          /\ Last(r.rchain).cmd = <<issued[r.ans.key][r.ans.n]>>
      BY <1>4, <2>2 DEF AnswerSays, CommandAt
    <3>2. Len(issued[r.key]) \in Nat /\ Len(issued'[r.key]) \in Nat
      BY <1>t, <3>1, LenProperties DEF TypeOK
    <3>3. /\ Len(issued[r.key]) <= Len(issued'[r.key])
          /\ issued'[r.key][r.ans.n] = issued[r.key][r.ans.n]
      BY <3>1, HistoriesGrow
    <3> QED BY <3>1, <3>2, <3>3
  <2> QED BY <1>4, <2>1, <2>2 DEF AnswerSays
<1>5. ASSUME NEW i \in DOMAIN resp'
      PROVE  /\ resp'[i].kind = "IU" => resp'[i].key <= lastKey'
             /\ resp'[i].chain # <<>> =>
                  resp'[i].ans = [key |-> resp'[i].key, n |-> Len(resp'[i].chain)]
             /\ resp'[i].rchain # <<>> =>
                  /\ resp'[i].key \in Keys /\ resp'[i].ans.key = resp'[i].key
                  /\ resp'[i].ans.n \in 1 .. Len(issued'[resp'[i].key])
                  /\ Last(resp'[i].rchain).cmd = <<issued'[resp'[i].ans.key][resp'[i].ans.n]>>
  <2>1. PICK r \in RApduType : r = resp'[i] /\ AnswerSays(r)
    BY <1>3
  <2> QED BY <1>4, <2>1
<1> QED BY <1>5 DEF AnswersSay, AnswerSays, CommandAt

------------------------------------------------------------------------------
(***************************************************************************)
(* The link                                                                *)
(***************************************************************************)

\* The link seen from the card: it takes the first request and adds an answer.
LEMMA ReplyMoves ==
  ASSUME TypeOK, req # <<>>, NEW r \in RApduType, Reply(r)
  PROVE  /\ Len(req) \in Nat /\ Len(resp) \in Nat /\ Len(req) >= 1
         /\ Request = req[1]
         /\ Len(req') = Len(req) - 1 /\ DOMAIN req' = 1 .. (Len(req) - 1)
         /\ \A i \in DOMAIN req' : req'[i] = req[i + 1] /\ i + 1 \in DOMAIN req
         /\ Len(resp') = Len(resp) + 1 /\ DOMAIN resp' = 1 .. (Len(resp) + 1)
         /\ \A i \in 1 .. Len(resp) : resp'[i] = resp[i] /\ i \in DOMAIN resp
         /\ resp'[Len(resp) + 1] = r
         /\ Len(req) = 1 => req' = <<>>
         /\ resp = <<>> => Len(resp) = 0
<1>1. req \in Seq(CApduType) /\ resp \in Seq(RApduType)
  BY DEF TypeOK
<1>2. /\ Len(req) \in Nat /\ Len(resp) \in Nat /\ Len(req) >= 1
      /\ DOMAIN req = 1 .. Len(req) /\ DOMAIN resp = 1 .. Len(resp)
  BY <1>1, LenProperties, EmptySeq
<1>3. /\ req' \in Seq(CApduType) /\ Len(req') = Len(req) - 1
      /\ \A i \in 1 .. (Len(req) - 1) : req'[i] = req[i + 1]
  BY <1>1, TailElements DEF Reply
<1>4. /\ resp' \in Seq(RApduType) /\ Len(resp') = Len(resp) + 1
      /\ \A i \in 1 .. Len(resp) : resp'[i] = resp[i]
      /\ resp'[Len(resp) + 1] = r
  BY <1>1, AppendProperties DEF Reply
<1>5. DOMAIN req' = 1 .. Len(req') /\ DOMAIN resp' = 1 .. Len(resp')
  BY <1>3, <1>4, LenProperties
<1>6. Len(req) = 1 => req' = <<>>
  BY <1>3, EmptySeq
<1> QED BY <1>1, <1>2, <1>3, <1>4, <1>5, <1>6, EmptySeq DEF Request

\* The link seen from the host: it reads the first answer, and may send a request.
LEMMA ReceiveMoves ==
  ASSUME TypeOK, Receive
  PROVE  /\ Len(req) \in Nat /\ Len(resp) \in Nat /\ Len(resp) >= 1
         /\ 1 \in DOMAIN resp /\ Answer = resp[1] /\ Answer \in RApduType
         /\ Len(resp') = Len(resp) - 1
         /\ Len(resp) = 1 => resp' = <<>>
         /\ Len(req) = 0 => req = <<>>
<1>1. req \in Seq(CApduType) /\ resp \in Seq(RApduType) /\ resp # <<>> /\ resp' = Tail(resp)
  BY DEF TypeOK, Receive
<1>2. Len(resp) \in Nat /\ Len(resp) >= 1 /\ DOMAIN resp = 1 .. Len(resp) /\ Len(req) \in Nat
  BY <1>1, LenProperties, EmptySeq
<1>3. Len(resp') = Len(resp) - 1 /\ resp' \in Seq(RApduType)
  BY <1>1, TailElements
<1> QED BY <1>1, <1>2, <1>3, EmptySeq, ReceivedType DEF Answer

\* The card answers the one request there is with its place, and success only if it ran.
LEMMA OnlyThisKept ==
  ASSUME InStep, CardNext, NEW k \in Keys, OnlyThis(k)
  PROVE  OnlyThis(k)'
<1>1. PICK r \in RApduType :
           /\ req # <<>> /\ Reply(r) /\ UNCHANGED hostVars
           /\ Request.kind = "SM" =>
                /\ r.ans = PlaceOf(Request)
                /\ r.sw = "ok" => executed'[Request.key] = Request.chain
  BY CardReplies
<1>2. /\ resp = <<>> /\ Len(req) = 1
      /\ req[1].kind = "SM" /\ req[1].key = k /\ req[1].chain = issued[k]
  BY <1>1 DEF OnlyThis
<1>3. req' = <<>> /\ Len(resp') = 1 /\ resp'[1] = r /\ Request = req[1]
  BY <1>1, <1>2, ReplyMoves DEF InStep
<1>4. r.ans = [key |-> k, n |-> Len(issued[k])] /\ (r.sw = "ok" => executed'[k] = issued[k])
  BY <1>1, <1>2, <1>3 DEF PlaceOf
<1>5. issued' = issued
  BY <1>1 DEF hostVars
<1> QED BY <1>3, <1>4, <1>5 DEF OnlyThis

\* Fresh keys are nobody's: INITIALIZE UPDATE is sent last and answered last.
LEMMA ChallengeStaysLast ==
  ASSUME InStep, AnswersSay, ChallengeLast, [Next]_vars
  PROVE  ChallengeLast'
<1>t. /\ TypeOK /\ TypeOK' /\ req \in Seq(CApduType) /\ resp \in Seq(RApduType)
      /\ lastKey \in Nat
  BY NextType DEF InStep, TypeOK
<1>1. CASE SelectAnswered
  <2>1. /\ Len(req) \in Nat /\ DOMAIN req = 1 .. Len(req)
        /\ DOMAIN resp = 1 .. Len(resp) /\ Len(resp) \in Nat
    BY <1>t, LenProperties
  <2>2. Receive /\ Send(InitUpdate(ctx.p, lastKey + 1)) /\ ctx'.key = lastKey + 1
    BY <1>1, <1>t DEF SelectAnswered, TypeOK, CtxType
  <2>3. ctx.p \in Protos
    BY <1>t DEF TypeOK, CtxType
  <2>4. InitUpdate(ctx.p, lastKey + 1) \in CApduType
    <3>1. lastKey + 1 \in Nat
      BY <1>t
    <3>2. FreeSlot \in Slot
      BY Defaults
    <3> QED BY <2>3, <3>1, <3>2, HostMessages
  <2>5. /\ Len(req') = Len(req) + 1 /\ \A i \in 1 .. Len(req) : req'[i] = req[i]
        /\ req' \in Seq(CApduType)
    BY <1>t, <2>2, <2>4, AppendProperties DEF Send
  <2>6. \A i \in DOMAIN req' : i # Len(req) + 1 => i \in DOMAIN req /\ req'[i] = req[i]
    BY <2>1, <2>5, LenProperties
  <2>7. \A i \in DOMAIN req : req[i].kind = "IU" => req[i].key <= lastKey
    BY DEF InStep, RequestsInStep
  <2>8. \A i \in DOMAIN resp' : i + 1 \in DOMAIN resp /\ resp'[i] = resp[i + 1]
    <3>1. /\ Tail(resp) \in Seq(RApduType) /\ Len(Tail(resp)) = Len(resp) - 1
          /\ \A i \in 1 .. (Len(resp) - 1) : Tail(resp)[i] = resp[i + 1]
      BY <1>t, <2>2, TailElements DEF Receive
    <3>2. resp' = Tail(resp) /\ DOMAIN resp' = 1 .. (Len(resp) - 1)
      BY <2>2, <3>1, LenProperties DEF Receive
    <3> QED BY <2>1, <3>1, <3>2
  <2>9. \A i \in DOMAIN resp : resp[i].kind = "IU" => resp[i].key <= lastKey
    BY DEF AnswersSay, AnswerSays
  <2>10. ~ (lastKey + 1 <= lastKey)
    BY <1>t
  <2> QED BY <2>2, <2>5, <2>6, <2>7, <2>8, <2>9, <2>10 DEF ChallengeLast
<1>2. CASE CardNext
  <2>1. PICK r \in RApduType :
           /\ req # <<>> /\ Reply(r) /\ UNCHANGED hostVars
           /\ r.kind = "IU" => Request.kind = "IU" /\ r.key = Request.key
    BY <1>2, CardReplies
  <2>2. pc' = pc /\ ctx' = ctx
    BY <2>1 DEF hostVars
  <2>3. CASE pc = "iu"
    <3>1. \A i \in DOMAIN req : req[i].kind = "IU" /\ req[i].key = ctx.key => i = Len(req)
      BY <2>3 DEF ChallengeLast
    <3>2. \A i \in DOMAIN resp : ~ (resp[i].kind = "IU" /\ resp[i].key = ctx.key)
      BY <2>1, <2>3 DEF ChallengeLast
    <3>3. 1 \in DOMAIN req
      BY <1>t, <2>1, LenProperties, EmptySeq
    <3>4. \A i \in DOMAIN req' : req'[i].kind = "IU" /\ req'[i].key = ctx.key => i = Len(req')
      BY <1>t, <2>1, <3>1, ReplyMoves
    <3>5. ASSUME NEW i \in DOMAIN resp', resp'[i].kind = "IU", resp'[i].key = ctx.key
          PROVE  i = Len(resp') /\ req' = <<>>
      <4>1. i = Len(resp) + 1 /\ i = Len(resp') /\ resp'[i] = r
        BY <1>t, <2>1, <3>2, <3>5, ReplyMoves
      <4>2. req[1].kind = "IU" /\ req[1].key = ctx.key
        BY <1>t, <2>1, <3>5, <4>1, ReplyMoves
      <4>3. Len(req) = 1
        BY <3>1, <3>3, <4>2
      <4> QED BY <1>t, <2>1, <4>1, <4>3, ReplyMoves
    <3> QED BY <2>2, <3>4, <3>5 DEF ChallengeLast
  <2> QED BY <2>2, <2>3 DEF ChallengeLast
<1>3. CASE CardInterrupted \/ UNCHANGED vars
  BY <1>3 DEF CardInterrupted, hostVars, linkVars, vars, ChallengeLast
<1>4. \/ pc' # "iu" \/ SelectAnswered \/ CardNext \/ CardInterrupted \/ UNCHANGED vars
  BY DEF Next, CallerNext, AnswerNext, OpenScp, TransmitRefused, Return,
     Transmit, SendExternalAuthenticate,
     CloseChannel, IntoParts, Discover, DiscoverResetFails, OpenRefused,
     SessionTableFull, ChecksFail, ChannelOpened, ExternalAuthFail, TransmitAnswered,
     TransmitGarbled, ProbeNext, ProbeEnds, LinkError, Timeout
<1> QED BY <1>1, <1>2, <1>3, <1>4 DEF ChallengeLast
\* EXTERNAL AUTHENTICATE goes out on an empty link, and its answer comes back alone.
LEMMA HandshakeCaughtUp ==
  ASSUME InStep, SlotsKept, ChallengeLast, CaughtUp, [Next]_vars
  PROVE  CaughtUp'
<1>t. TypeOK /\ TypeOK' /\ ctx \in CtxType /\ issued \in [Keys -> Seq(Commands)]
  BY NextType DEF InStep, TypeOK
<1>1. CASE SendExternalAuthenticate
  <2> DEFINE k == ctx.key
             c == EA(ctx.rmac)
             s == Wrap(ctx.p, FreshSlot(k), c)
             m == Secure(ctx.p, s)
  <2>1. /\ pc = "iu" /\ Receive /\ Answer.kind = "IU" /\ Answer.key = k
        /\ ctx'.key = k /\ ctx'.rmac = ctx.rmac /\ Send(m)
        /\ issued' = [issued EXCEPT ![k] = Append(@, c)]
    BY <1>1, <1>t DEF SendExternalAuthenticate, IuParses, IuChecks, CtxType
  <2>2. k \in Keys /\ issued[k] = <<>>
    BY <2>1 DEF InStep, HandshakeFresh
  <2>3. Len(resp) = 1 /\ req = <<>>
    BY <1>t, <2>1, ReceiveMoves DEF ChallengeLast
  <2>4. resp' = <<>>
    BY <1>t, <2>1, <2>3, ReceiveMoves
  <2>5. issued'[k] = <<c>>
    BY <1>t, <2>1, <2>2
  <2>6. /\ ctx.p \in Protos /\ c \in Commands
        /\ FreshSlot(k) \in Slot /\ FreshSlot(k).key = k /\ FreshSlot(k).chain = <<>>
    BY <1>t, EAIsCommand, FreshSlotType DEF CtxType
  <2>7. s.key = k /\ s.chain = <<c>>
    BY <2>6, WrapExtendsChain
  <2>8. m.kind = "SM" /\ m.key = k /\ m.chain = <<c>>
    BY <2>7 DEF Secure
  <2> HIDE DEF k, c, s, m
  <2>9. req' = <<m>>
    BY <2>1, <2>3 DEF Send
  <2> QED BY <2>1, <2>4, <2>5, <2>8, <2>9 DEF CaughtUp, OnlyThis, c
<1>2. CASE CardNext
  <2>1. pc' = pc /\ ctx' = ctx /\ issued' = issued
    BY <1>2, CardReplies DEF hostVars
  <2>2. CASE pc = "ea"
    <3>1. PICK k \in Keys : k = ctx.key
      BY <2>2 DEF SlotsKept, HandshakeKept
    <3>2. OnlyThis(k) /\ issued[k] = <<EA(ctx.rmac)>>
      BY <2>2, <3>1 DEF CaughtUp
    <3>3. OnlyThis(k)'
      BY <1>2, <3>2, OnlyThisKept
    <3> QED BY <2>1, <3>1, <3>2, <3>3 DEF CaughtUp, OnlyThis
  <2> QED BY <2>1, <2>2 DEF CaughtUp
<1>3. CASE CardInterrupted \/ UNCHANGED vars
  BY <1>3 DEF CardInterrupted, hostVars, linkVars, vars, CaughtUp, OnlyThis
<1>4. \/ pc' # "ea" \/ SendExternalAuthenticate \/ CardNext \/ CardInterrupted \/ UNCHANGED vars
  BY DEF Next, CallerNext, AnswerNext, OpenScp, TransmitRefused, Return, Transmit, SelectAnswered,
     CloseChannel, IntoParts, Discover, DiscoverResetFails, OpenRefused,
     SessionTableFull, ChecksFail, ChannelOpened, ExternalAuthFail, TransmitAnswered,
     TransmitGarbled, ProbeNext, ProbeEnds, LinkError, Timeout
<1> QED BY <1>1, <1>2, <1>3, <1>4 DEF CaughtUp

\* What transmit sends is the last command wrapped under the keys of the slot.
SendsUnder(k, m, c) ==
  /\ issued'[k][Len(issued'[k])] = c /\ issued'[k] # <<>>
  /\ Send(m) /\ m.kind = "SM" /\ m.key = k /\ m.chain = issued'[k]
  /\ ctx'.p = session.h[1] /\ ctx'.key = k
  /\ ctx'.ask = [key |-> k, n |-> Len(issued'[k])]
  /\ slots'[session.h].rmac = Held.rmac
  /\ Held.rmac /\ session.h[1] = "SCP02" => slots'[session.h].rbuf = <<c>>

\* It is sent under keys of the manager's own.
LEMMA TransmitSends ==
  ASSUME InStep, NEW c \in Ops, Transmit(c)
  PROVE  \E k \in Keys, m \in CApduType : SendsUnder(k, m, c)
<1>t. /\ TypeOK /\ issued \in [Keys -> Seq(Commands)] /\ slots \in [Handles -> Slot]
      /\ session.h \in Handles /\ session.h[1] \in Protos
      /\ Held \in Slot /\ c \in Commands
  <2>1. TypeOK
    BY DEF InStep
  <2>2. session.h \in Handles /\ slots \in [Handles -> Slot]
    BY <2>1 DEF TypeOK, SessionType
  <2> QED BY <2>1, <2>2 DEF TypeOK, Handles, Held, Commands
<1> DEFINE p == session.h[1]
           k == Held.key
           s == Wrap(p, Held, c)
           m == Secure(p, s)
<1>1. ~ IsFree(Held) /\ Held.authed
  BY OpsAssumption DEF Transmit, CanWrap
<1>2. k \in Keys /\ Held.chain = issued[k]
  <2>1. k \in Keys
    BY <1>t, <1>1, LiveKeys DEF Held
  <2>2. SlotsInStep
    BY DEF InStep
  <2> QED BY <1>t, <1>1, <2>1, <2>2 DEF SlotsInStep, Held
<1>3. s \in Slot /\ s.key = k /\ s.chain = Append(issued[k], c)
  <2>1. s \in Slot /\ s.key = Held.key /\ s.chain = Append(Held.chain, c)
    BY <1>t, WrapExtendsChain
  <2> QED BY <1>2, <2>1
<1>4. s.rmac = Held.rmac
  BY <1>t, <1>1, WrapKeepsLevel
<1>5. Held.rmac /\ p = "SCP02" => s.rbuf = <<c>>
  BY <1>t, <1>1 DEF Wrap, Slot
<1>6. m \in CApduType /\ m.kind = "SM" /\ m.key = s.key /\ m.chain = s.chain
  <2>1. m \in CApduType
    BY <1>t, <1>3, Defaults, HostMessages DEF Slot
  <2> QED BY <2>1 DEF Secure
<1>7. /\ slots' = [slots EXCEPT ![session.h] = s]
      /\ Send(m)
      /\ ctx' = [NoCtx EXCEPT !.p = p, !.h = session.h, !.key = s.key, !.ask = PlaceOf(m)]
      /\ issued' = [issued EXCEPT ![s.key] = Append(@, c)]
  BY DEF Transmit
<1> HIDE DEF p, k, s, m
<1>8. ctx'.p = p /\ ctx'.key = s.key /\ ctx'.ask = PlaceOf(m)
  BY <1>7 DEF NoCtx
<1>9. /\ issued'[k] = Append(issued[k], c) /\ slots'[session.h] = s
  BY <1>t, <1>2, <1>3, <1>7
<1>10. /\ Len(issued'[k]) = Len(issued[k]) + 1 /\ Len(issued[k]) \in Nat
       /\ issued'[k][Len(issued'[k])] = c /\ issued'[k] # <<>>
  BY <1>t, <1>2, <1>9, AppendProperties, LenProperties
<1>11. PlaceOf(m) = [key |-> k, n |-> Len(issued'[k])]
  BY <1>3, <1>6, <1>9 DEF PlaceOf
<1>12. SendsUnder(k, m, c)
  BY <1>3, <1>4, <1>5, <1>6, <1>7, <1>8, <1>9, <1>10, <1>11 DEF SendsUnder, p
<1> QED BY <1>2, <1>6, <1>12

\* The manager asks for one command at a time, and remembers which.
LEMMA AskedForKept ==
  ASSUME InStep, AskedFor, [Next]_vars
  PROVE  AskedFor'
<1>1. ASSUME NEW c \in Ops, Transmit(c) PROVE AskedFor'
  <2>1. session' = session
    BY <1>1 DEF Transmit
  <2>2. PICK k \in Keys, m \in CApduType : SendsUnder(k, m, c)
    BY <1>1, TransmitSends
  <2>3. CommandAt(ctx.ask)' = c
    BY <2>2 DEF SendsUnder, CommandAt
  <2> QED BY <2>1, <2>2, <2>3 DEF SendsUnder, AskedFor, Held
<1>2. CASE UNCHANGED hostVars
  BY <1>2 DEF hostVars, AskedFor, Held, CommandAt
<1>3. pc' # "cmd" \/ UNCHANGED hostVars \/ \E c \in Ops : Transmit(c)
  BY DEF Next, CallerNext, AnswerNext, CardNext, OpenScp, TransmitRefused, Return, SelectAnswered,
     CloseChannel, IntoParts, Discover, DiscoverResetFails, OpenRefused, SendExternalAuthenticate,
     SessionTableFull, ChecksFail, ChannelOpened, ExternalAuthFail, TransmitAnswered,
     TransmitGarbled, ProbeNext, ProbeEnds, LinkError, Timeout, CardSelect, CardGetData,
     CardInitUpdate, CardAuthenticate, CardExecute, CardRefuse, CardInterrupted, hostVars, vars
<1> QED BY <1>1, <1>2, <1>3 DEF AskedFor
\* Without a stream there is one request or answer on the link while a workflow waits.
LEMMA OneExchangeKept ==
  ASSUME InStep, SlotsKept, OneExchange, [Next]_vars
  PROVE  OneExchange'
<1> SUFFICES ASSUME ~ LateAnswers
             PROVE  /\ pc' = "idle" => req' = <<>> /\ resp' = <<>>
                    /\ pc' # "idle" => Len(req') + Len(resp') = 1
                    /\ pc' = "cmd" => OnlyThis(ctx.key)'
  BY DEF OneExchange
<1>t. TypeOK /\ TypeOK' /\ ctx \in CtxType
  BY NextType DEF InStep, TypeOK
<1>e. /\ pc = "idle" => req = <<>> /\ resp = <<>>
      /\ pc # "idle" => Len(req) + Len(resp) = 1
      /\ pc = "cmd" => OnlyThis(ctx.key)
  BY DEF OneExchange
<1>r. ASSUME Receive, pc # "idle"
      PROVE  req = <<>> /\ resp' = <<>>
  BY <1>t, <1>e, <1>r, ReceiveMoves
<1>s. ASSUME req = <<>>, resp' = <<>>, NEW m, Send(m)
      PROVE  Len(req') = 1 /\ req'[1] = m /\ Len(req') + Len(resp') = 1
  BY <1>s DEF Send
<1>1. CASE CardNext
  <2>1. PICK r \in RApduType : req # <<>> /\ Reply(r) /\ UNCHANGED hostVars
    BY <1>1, CardReplies
  <2>2. pc # "idle" /\ pc' = pc /\ ctx' = ctx
    BY <1>e, <2>1 DEF hostVars
  <2>3. Len(req') + Len(resp') = 1
    BY <1>t, <1>e, <2>1, <2>2, ReplyMoves
  <2>4. CASE pc = "cmd"
    <3>1. PICK k \in Keys : k = ctx.key
      BY <2>4 DEF SlotsKept, ExchangeKept
    <3>2. OnlyThis(k)'
      BY <1>1, <1>e, <2>4, <3>1, OnlyThisKept
    <3> QED BY <2>2, <2>3, <3>1, <3>2 DEF OnlyThis
  <2> QED BY <2>2, <2>3, <2>4
<1>2. ASSUME NEW c \in Ops, Transmit(c)
      PROVE  Len(req') + Len(resp') = 1 /\ OnlyThis(ctx.key)' /\ pc' = "cmd"
  <2>1. pc = "idle" /\ pc' = "cmd" /\ resp' = resp
    BY <1>2 DEF Transmit
  <2>2. PICK k \in Keys, m \in CApduType : SendsUnder(k, m, c)
    BY <1>2, TransmitSends
  <2>3. Send(m) /\ m.kind = "SM" /\ m.key = k /\ m.chain = issued'[k] /\ ctx'.key = k
    BY <2>2 DEF SendsUnder
  <2>4. resp' = <<>> /\ Len(req') = 1 /\ req'[1] = m /\ Len(req') + Len(resp') = 1
    BY <1>e, <1>s, <2>1, <2>3
  <2> QED BY <2>1, <2>3, <2>4 DEF OnlyThis
<1>3. ASSUME NEW p \in Protos, NEW rmac \in BOOLEAN, NEW good \in BOOLEAN,
             OpenScp(p, rmac, good)
      PROVE  Len(req') + Len(resp') = 1 /\ pc' = "select"
  <2>1. pc = "idle" /\ pc' = "select" /\ resp' = resp /\ Send(Plain("SELECT"))
    BY <1>3 DEF OpenScp
  <2> QED BY <1>e, <1>s, <2>1
<1>4. CASE TransmitRefused \/ CloseChannel \/ IntoParts \/ CardInterrupted \/ UNCHANGED vars
  <2>1. /\ UNCHANGED <<req, resp, pc>>
        /\ pc = "idle" \/ UNCHANGED <<ctx, issued, executed>>
    BY <1>4 DEF TransmitRefused, CloseChannel, IntoParts, CardInterrupted, hostVars, linkVars, vars
  <2> QED BY <1>e, <2>1 DEF OnlyThis
<1>5. CASE Discover
  BY <1>5 DEF Discover
<1>6. CASE DiscoverResetFails \/ LinkError
  BY <1>6 DEF DiscoverResetFails, LinkError, Return
<1>7. CASE \/ OpenRefused \/ SessionTableFull \/ ChecksFail \/ ChannelOpened \/ ExternalAuthFail
           \/ TransmitAnswered \/ TransmitGarbled \/ ProbeEnds
  <2>1. Receive /\ pc # "idle" /\ req' = req /\ pc' = "idle"
    BY <1>7 DEF OpenRefused, SessionTableFull, ChecksFail, ChannelOpened, ExternalAuthFail,
                TransmitAnswered, TransmitGarbled, ProbeEnds, Return
  <2> QED BY <1>r, <2>1
<1>8. CASE SelectAnswered \/ SendExternalAuthenticate \/ ProbeNext
  <2>1. Receive /\ pc # "idle" /\ pc' \in {"iu", "ea", "probe"} /\ \E m : Send(m)
    BY <1>8 DEF SelectAnswered, SendExternalAuthenticate, ProbeNext
  <2> QED BY <1>r, <1>s, <2>1
<1>9. ~ Timeout
  BY DEF Timeout
<1> QED
  BY <1>1, <1>2, <1>3, <1>4, <1>5, <1>6, <1>7, <1>8, <1>9 DEF Next, CallerNext, AnswerNext

------------------------------------------------------------------------------
(***************************************************************************)
(* What the manager tells its caller                                       *)
(***************************************************************************)

\* A workflow that waits has taken the last answer out of the caller's hand.
LEMMA NoneInHandKept ==
  ASSUME NoneInHand, [Next]_vars
  PROVE  NoneInHand'
<1>1. Pending.what # "answer" /\ Failed.what # "answer" /\ Done.what # "answer"
  BY DEF Pending, Failed, Done, Outcome
<1>2. \/ pc' = "idle"
      \/ outcome' = Pending
      \/ pc # "idle" /\ outcome' = outcome
      \/ pc' = pc /\ outcome' = outcome
  BY DEF Next, CallerNext, AnswerNext, CardNext, OpenScp, TransmitRefused, Return, SelectAnswered,
     CloseChannel, IntoParts, Discover, DiscoverResetFails, OpenRefused, SendExternalAuthenticate,
     SessionTableFull, ChecksFail, ChannelOpened, ExternalAuthFail, TransmitAnswered, Transmit,
     TransmitGarbled, ProbeNext, ProbeEnds, LinkError, Timeout, CardSelect, CardGetData,
     CardInitUpdate, CardAuthenticate, CardExecute, CardRefuse, CardInterrupted, hostVars, vars
<1> QED BY <1>1, <1>2 DEF NoneInHand

\* Only an open whose EXTERNAL AUTHENTICATE was accepted gives the manager a session.
LEMMA OpenedKept ==
  ASSUME InStep, SlotsKept, CaughtUp, SessionDrawn, OpenedMeansAuthenticated, [Next]_vars
  PROVE  SessionDrawn' /\ OpenedMeansAuthenticated'
<1>t. TypeOK /\ ctx \in CtxType
  BY DEF InStep, TypeOK
<1>1. CASE ChannelOpened
  <2>1. /\ pc = "ea" /\ Receive /\ Answer.sw = "ok" /\ executed' = executed
        /\ session'.key = ctx.key /\ session'.rmac = ctx.rmac
    BY <1>1 DEF ChannelOpened, cardVars
  <2>2. ctx.key \in Keys
    BY <2>1 DEF SlotsKept, HandshakeKept
  <2>3. OnlyThis(ctx.key) /\ issued[ctx.key] = <<EA(ctx.rmac)>>
    BY <2>1 DEF CaughtUp
  <2>4. resp # <<>> /\ Answer = resp[1]
    BY <1>t, <2>1, ReceiveMoves DEF Receive
  <2>5. executed[ctx.key] = <<EA(ctx.rmac)>>
    BY <2>1, <2>3, <2>4 DEF OnlyThis
  <2> QED BY <2>1, <2>2, <2>5 DEF SessionDrawn, OpenedMeansAuthenticated
<1>2. CASE session' = NoSession
  BY <1>2 DEF NoSession, SessionDrawn, OpenedMeansAuthenticated
<1>3. CASE session' = session
  BY <1>3, HistoriesGrow DEF SessionDrawn, OpenedMeansAuthenticated
<1>4. session' = session \/ session' = NoSession \/ ChannelOpened
  BY DEF Next, CallerNext, AnswerNext, CardNext, OpenScp, TransmitRefused, Return, SelectAnswered,
     CloseChannel, IntoParts, Discover, DiscoverResetFails, OpenRefused, SendExternalAuthenticate,
     SessionTableFull, ChecksFail, ExternalAuthFail, TransmitAnswered, Transmit, ReleaseChannel,
     TransmitGarbled, ProbeNext, ProbeEnds, LinkError, Timeout, CardSelect, CardGetData,
     CardInitUpdate, CardAuthenticate, CardExecute, CardRefuse, CardInterrupted, hostVars, vars
<1> QED BY <1>1, <1>2, <1>3, <1>4
\* An answer returned to the caller is the card's to that command, where the code can tell.
LEMMA AnswerTaken ==
  ASSUME InStep, SlotsKept, AnswersSay, OneExchange, AskedFor, TransmitAnswered,
         Verify(ctx.p, slots[ctx.h], Answer)
  PROVE  AnswerBelongs'
<1>t. /\ TypeOK /\ ctx \in CtxType /\ slots \in [Handles -> Slot]
      /\ session.h \in Handles /\ issued \in [Keys -> Seq(Commands)]
  BY DEF InStep, TypeOK, SessionType
<1> DEFINE s == Unwrap(ctx.p, Held, Answer)
<1>1. /\ pc = "cmd" /\ Receive /\ UNCHANGED <<session, issued>>
      /\ outcome' = [what |-> "answer", ask |-> ctx.ask, ans |-> Answer.ans, sw |-> Answer.sw]
  BY DEF TransmitAnswered, Return
<1>2. /\ ctx.h = session.h /\ ctx.key \in Keys /\ Held.key = ctx.key
  BY <1>1 DEF SlotsKept, ExchangeKept
<1>3. /\ ctx.p = session.h[1] /\ ctx.p \in Protos
      /\ issued[ctx.key] # <<>> /\ ctx.ask = [key |-> ctx.key, n |-> Len(issued[ctx.key])]
      /\ Held.rmac /\ ctx.p = "SCP02" => Held.rbuf = <<CommandAt(ctx.ask)>>
  BY <1>1, <1>t DEF AskedFor, CtxType
<1>4. Answer \in RApduType /\ AnswerSays(Answer) /\ Answer = resp[1] /\ resp # <<>>
  BY <1>t, <1>1, ReceiveMoves DEF AnswersSay, Receive
<1>5. Held \in Slot /\ Held.chain = issued[ctx.key]
  <2>1. ~ IsFree(Held) /\ Held \in Slot
    BY <1>t, <1>2, BoundsAssumption DEF Held, IsFree, Keys
  <2>2. SlotsInStep
    BY DEF InStep
  <2> QED BY <1>t, <1>2, <2>1, <2>2 DEF SlotsInStep, Held
<1>6. Verify(ctx.p, Held, Answer)
  BY <1>2 DEF Held
<1>7. Held'.rmac = Held.rmac
  <2>1. slots' = [slots EXCEPT ![session.h] = s]
    BY <1>2 DEF TransmitAnswered, Held
  <2>2. s.rmac = Held.rmac
    BY <1>3, <1>4, <1>5, <1>6, UnwrapKeepsLevel
  <2> HIDE DEF s
  <2> QED BY <1>t, <1>1, <2>1, <2>2 DEF Held
<1>8. ~ LateAnswers => Answer.ans = ctx.ask
  BY <1>1, <1>3, <1>4 DEF OneExchange, OnlyThis
<1>9. Held.rmac /\ ctx.p = "SCP03" /\ Answer.sw = "ok" => Answer.ans = ctx.ask
  <2> SUFFICES ASSUME Held.rmac, ctx.p = "SCP03", Answer.sw = "ok"
               PROVE  Answer.ans = ctx.ask
    OBVIOUS
  <2>1. Answer.key = Held.key /\ Answer.chain = Held.chain
    BY <1>6 DEF Verify
  <2> QED BY <1>2, <1>3, <1>4, <1>5, <2>1 DEF AnswerSays
<1>10. Held.rmac /\ ctx.p = "SCP02" => /\ Answer.ans.key = ctx.ask.key
                                       /\ CommandAt(Answer.ans) = CommandAt(ctx.ask)
  <2> SUFFICES ASSUME Held.rmac, ctx.p = "SCP02"
               PROVE  /\ Answer.ans.key = ctx.ask.key
                      /\ CommandAt(Answer.ans) = CommandAt(ctx.ask)
    OBVIOUS
  <2> DEFINE pair == Exchange(Held, Answer.sw)
  <2>1. Answer.key = Held.key /\ Answer.rchain = Append(Held.rchain, pair)
    BY <1>6 DEF Verify
  <2>2. pair \in ExchangeRecord /\ pair.cmd = Held.rbuf /\ Held.rchain \in Seq(ExchangeRecord)
    BY <1>4, <1>5 DEF Exchange, ExchangeRecord, Slot, RApduType
  <2> HIDE DEF pair
  <2>3. Answer.rchain # <<>> /\ Last(Answer.rchain) = pair
    BY <2>1, <2>2, AppendProperties, LenProperties DEF Last
  <2>4. Answer.ans.key = Answer.key /\ <<CommandAt(Answer.ans)>> = <<CommandAt(ctx.ask)>>
    BY <1>3, <1>4, <2>2, <2>3 DEF AnswerSays
  <2> QED BY <1>2, <1>3, <2>1, <2>4
<1>11. /\ outcome'.ask = ctx.ask /\ outcome'.ans = Answer.ans /\ outcome'.sw = Answer.sw
  BY <1>1
<1>12. /\ CommandAt(outcome.ans)' = CommandAt(Answer.ans)
       /\ CommandAt(outcome.ask)' = CommandAt(ctx.ask)
  BY <1>1, <1>11 DEF CommandAt
<1> QED BY <1>1, <1>3, <1>7, <1>8, <1>9, <1>10, <1>11, <1>12 DEF AnswerBelongs

\* No other step gives the caller an answer or changes the one in hand.
LEMMA AnswerBelongsKept ==
  ASSUME InStep, SlotsKept, AnswersKept, [Next]_vars
  PROVE  AnswerBelongs'
<1> USE DEF AnswersKept
<1>1. CASE TransmitAnswered
  <2>1. CASE Verify(ctx.p, slots[ctx.h], Answer)
    BY <1>1, <2>1, AnswerTaken
  <2>2. CASE ~ Verify(ctx.p, slots[ctx.h], Answer)
    BY <1>1, <2>2 DEF TransmitAnswered, Return, Failed, Outcome, AnswerBelongs
  <2> QED BY <2>1, <2>2
<1>2. CASE UNCHANGED hostVars
  BY <1>2 DEF hostVars, AnswerBelongs, Held, CommandAt
<1>3. ASSUME outcome'.what # "answer" PROVE AnswerBelongs'
  BY <1>3 DEF AnswerBelongs
<1>4. /\ Pending.what # "answer" /\ Failed.what # "answer" /\ Done.what # "answer"
      /\ Outcome("parts").what # "answer" /\ Outcome("table full").what # "answer"
  BY DEF Pending, Failed, Done, Outcome
<1>5. \/ outcome' \in {Pending, Failed, Done, Outcome("parts"), Outcome("table full")}
      \/ pc # "idle" /\ outcome' = outcome
      \/ UNCHANGED hostVars
      \/ TransmitAnswered
  BY DEF Next, CallerNext, AnswerNext, CardNext, OpenScp, TransmitRefused, Return, SelectAnswered,
     CloseChannel, IntoParts, Discover, DiscoverResetFails, OpenRefused, SendExternalAuthenticate,
     SessionTableFull, ChecksFail, ChannelOpened, ExternalAuthFail, Transmit,
     TransmitGarbled, ProbeNext, ProbeEnds, LinkError, Timeout, CardSelect, CardGetData,
     CardInitUpdate, CardAuthenticate, CardExecute, CardRefuse, CardInterrupted, hostVars, vars
<1> QED BY <1>1, <1>2, <1>3, <1>4, <1>5 DEF NoneInHand

\* A new manager has asked for nothing, and nothing is on the link.
LEMMA InitAnswersKept == Init => AnswersKept
<1> SUFFICES ASSUME Init PROVE AnswersKept
  OBVIOUS
<1>1. pc = "idle" /\ req = <<>> /\ resp = <<>> /\ ~ session.open /\ outcome.what = "done"
  BY DEF Init, NoSession, Done, Outcome
<1> QED BY <1>1 DEF AnswersKept, AnswersSay, ChallengeLast, CaughtUp, OneExchange, AskedFor,
                    NoneInHand, SessionDrawn, OpenedMeansAuthenticated, AnswerBelongs

\* Every step of host, link and card keeps track of whose answer is whose.
LEMMA AnswersAreKept == Spec => [](InStep /\ SlotsKept /\ AnswersKept)
<1>1. ASSUME InStep, SlotsKept, AnswersKept, [Next]_vars PROVE AnswersKept'
  <2>1. AnswersSay' /\ ChallengeLast'
    BY <1>1, AnswersStaySaid, ChallengeStaysLast DEF AnswersKept
  <2>2. CaughtUp' /\ OneExchange' /\ AskedFor' /\ NoneInHand'
    BY <1>1, HandshakeCaughtUp, OneExchangeKept, AskedForKept, NoneInHandKept DEF AnswersKept
  <2>3. SessionDrawn' /\ OpenedMeansAuthenticated'
    BY <1>1, OpenedKept DEF AnswersKept
  <2>4. AnswerBelongs'
    BY <1>1, AnswerBelongsKept
  <2> QED BY <2>1, <2>2, <2>3, <2>4 DEF AnswersKept
<1>2. Init => InStep /\ SlotsKept /\ AnswersKept
  BY InitInStep, InitSlotsKept, InitAnswersKept
<1>3. (InStep /\ SlotsKept /\ AnswersKept) /\ [Next]_vars => (InStep /\ SlotsKept /\ AnswersKept)'
  BY <1>1, NextInStep, NextSlotsKept
<1> QED BY <1>2, <1>3, PTL DEF Spec

\* open_scp returns Ok only when the card has accepted the EXTERNAL AUTHENTICATE of this
\* very handshake, at the level the manager reports: its bare 9000 cannot be a late answer
\* to something else, even on a stream that keeps them.
THEOREM OpenedIsAuthenticated == Spec => []OpenedMeansAuthenticated
<1>1. AnswersKept => OpenedMeansAuthenticated
  BY DEF AnswersKept
<1> QED BY <1>1, AnswersAreKept, PTL

\* What transmit returns is the card's answer to the command it sent: always where an
\* exchange leaves nothing behind, and on a stream wherever an R-MAC covers the answer.
THEOREM AnswersAreOwn == Spec => []AnswerBelongs
<1>1. AnswersKept => AnswerBelongs
  BY DEF AnswersKept
<1> QED BY <1>1, AnswersAreKept, PTL

------------------------------------------------------------------------------
(***************************************************************************)
(* The channel implements OrderedChannel                                   *)
(***************************************************************************)

\* A new channel has issued and executed nothing, and holds no answer.
LEMMA InitAbstract == Init => Abstract!Init
  BY DEF Init, Abstract!Init, answerBar, Done, Outcome

\* Where no answer outlives its exchange, each step of host, link and card issues or
\* executes a command, delivers its answer, forgets one, or changes nothing a caller sees.
LEMMA NextAbstract ==
  ASSUME ~ LateAnswers, InStep, SlotsKept, AnswersKept, [Next]_vars
  PROVE  [Abstract!Next]_(Abstract!vars)
<1>t. /\ TypeOK /\ ctx \in CtxType /\ issued \in [Keys -> Seq(Commands)]
      /\ executed \in [Keys -> Seq(Commands)]
  BY DEF InStep, TypeOK
<1> USE DEF Abstract!vars
<1>4. /\ Pending.what # "answer" /\ Failed.what # "answer" /\ Done.what # "answer"
      /\ Outcome("parts").what # "answer" /\ Outcome("table full").what # "answer"
  BY DEF Pending, Failed, Done, Outcome
<1>1. CASE SendExternalAuthenticate
  <2>1. /\ pc = "iu" /\ UNCHANGED <<outcome, executed>>
        /\ issued' = [issued EXCEPT ![ctx.key] = Append(@, EA(ctx.rmac))]
    BY <1>1 DEF SendExternalAuthenticate, cardVars
  <2>2. answerBar' = NoAnswer
    BY <2>1 DEF AnswersKept, NoneInHand, answerBar
  <2>3. ctx.key \in Keys /\ EA(ctx.rmac) \in Commands
    BY <1>t, <2>1, EAIsCommand DEF InStep, HandshakeFresh, CtxType
  <2>4. Abstract!Issue(ctx.key, EA(ctx.rmac))
    BY <2>1, <2>2 DEF Abstract!Issue
  <2> QED BY <2>3, <2>4 DEF Abstract!Next
<1>2. ASSUME NEW c \in Ops, Transmit(c) PROVE Abstract!Next
  <2>1. session.h \in Handles /\ session.h[1] \in Protos /\ Held \in Slot /\ c \in Commands
    BY <1>t DEF TypeOK, SessionType, Handles, Held, Commands
  <2>2. Wrap(session.h[1], Held, c).key = Held.key
    BY <2>1, WrapExtendsChain
  <2>3. /\ issued' = [issued EXCEPT ![Held.key] = Append(@, c)]
        /\ outcome' = Pending /\ executed' = executed
    BY <1>2, <2>2 DEF Transmit, cardVars
  <2>4. Held.key \in Keys
    BY <1>2, <2>1, LiveKeys DEF Transmit, CanWrap, Held
  <2>5. answerBar' = NoAnswer
    BY <1>4, <2>3 DEF answerBar
  <2>6. Abstract!Issue(Held.key, c)
    BY <2>3, <2>5 DEF Abstract!Issue
  <2> QED BY <2>1, <2>4, <2>6 DEF Abstract!Next
<1>3. CASE CardAuthenticate \/ CardExecute
  <2>1. HasRequest("SM") /\ MacVerifies
        /\ executed' = [executed EXCEPT ![card.key] = Append(@, Last(Request.chain))]
        /\ UNCHANGED hostVars
    BY <1>3 DEF CardAuthenticate, CardExecute
  <2>2. /\ Request.chain \in Seq(Commands) /\ card.key \in Keys
        /\ Last(Request.chain) \in Commands
        /\ IsPrefix(Request.chain, issued[card.key])
        /\ Append(executed[card.key], Last(Request.chain)) = Request.chain
    BY <2>1, VerifiedRequest
  <2>3. /\ Len(Request.chain) <= Len(issued[card.key])
        /\ \A i \in 1 .. Len(Request.chain) : Request.chain[i] = issued[card.key][i]
    BY <1>t, <2>2, PrefixElements
  <2>4. /\ Len(executed[card.key]) \in Nat /\ Len(issued[card.key]) \in Nat
        /\ Len(Request.chain) = Len(executed[card.key]) + 1
        /\ Request.chain[Len(executed[card.key]) + 1] = Last(Request.chain)
    BY <1>t, <2>2, AppendProperties, LenProperties
  <2>5. /\ Len(executed[card.key]) < Len(issued[card.key])
        /\ issued[card.key][Len(executed[card.key]) + 1] = Last(Request.chain)
    BY <2>3, <2>4
  <2>6. UNCHANGED <<issued, answerBar>>
    BY <2>1 DEF hostVars, answerBar
  <2>7. Abstract!Execute(card.key)
    BY <2>1, <2>5, <2>6 DEF Abstract!Execute
  <2> QED BY <2>2, <2>7 DEF Abstract!Next
<1>5. CASE TransmitAnswered
  <2>1. pc = "cmd" /\ Receive /\ UNCHANGED <<issued, executed>>
    BY <1>5 DEF TransmitAnswered, cardVars
  <2>2. CASE Verify(ctx.p, slots[ctx.h], Answer)
    <3>1. outcome' = [what |-> "answer", ask |-> ctx.ask, ans |-> Answer.ans, sw |-> Answer.sw]
      BY <1>5, <2>2 DEF TransmitAnswered, Return
    <3>2. /\ ctx.key \in Keys /\ issued[ctx.key] # <<>>
          /\ ctx.ask = [key |-> ctx.key, n |-> Len(issued[ctx.key])]
          /\ OnlyThis(ctx.key)
      BY <2>1 DEF SlotsKept, ExchangeKept, AnswersKept, AskedFor, OneExchange
    <3>3. Answer = resp[1] /\ resp # <<>> /\ Answer.sw \in SWs
      BY <1>t, <2>1, ReceiveMoves DEF Receive, RApduType
    <3>4. Answer.sw = "ok" => Len(executed[ctx.key]) = Len(issued[ctx.key])
      BY <3>2, <3>3 DEF OnlyThis
    <3>5. answerBar' = [key |-> ctx.key, n |-> Len(issued[ctx.key]), sw |-> Answer.sw]
      BY <3>1, <3>2 DEF answerBar
    <3>6. Abstract!Deliver(ctx.key, Answer.sw)
      BY <2>1, <3>2, <3>4, <3>5 DEF Abstract!Deliver
    <3> QED BY <3>2, <3>3, <3>6 DEF Abstract!Next, SWs
  <2>3. CASE ~ Verify(ctx.p, slots[ctx.h], Answer)
    <3>1. outcome' = Failed
      BY <1>5, <2>3 DEF TransmitAnswered, Return
    <3>2. answerBar' = NoAnswer
      BY <1>4, <3>1 DEF answerBar
    <3> QED BY <2>1, <3>2 DEF Abstract!Next, Abstract!Forget
  <2> QED BY <2>2, <2>3
<1>6. ASSUME UNCHANGED <<issued, executed>>,
             \/ outcome' \in {Pending, Failed, Done, Outcome("parts"), Outcome("table full")}
             \/ outcome' = outcome
      PROVE  Abstract!Forget \/ UNCHANGED Abstract!vars
  <2>1. answerBar' = NoAnswer \/ answerBar' = answerBar
    BY <1>4, <1>6 DEF answerBar
  <2> QED BY <1>6, <2>1 DEF Abstract!Forget
<1>7. \/ /\ UNCHANGED <<issued, executed>>
         /\ \/ outcome' \in {Pending, Failed, Done, Outcome("parts"), Outcome("table full")}
            \/ outcome' = outcome
      \/ SendExternalAuthenticate \/ TransmitAnswered \/ CardAuthenticate \/ CardExecute
      \/ \E c \in Ops : Transmit(c)
  BY DEF Next, CallerNext, AnswerNext, CardNext, OpenScp, TransmitRefused, Return, SelectAnswered,
     CloseChannel, IntoParts, Discover, DiscoverResetFails, OpenRefused, cardVars,
     SessionTableFull, ChecksFail, ChannelOpened, ExternalAuthFail,
     TransmitGarbled, ProbeNext, ProbeEnds, LinkError, Timeout, CardSelect, CardGetData,
     CardInitUpdate, CardRefuse, CardInterrupted, hostVars, vars
<1> QED BY <1>1, <1>2, <1>3, <1>5, <1>6, <1>7 DEF Abstract!Next

\* Over PC/SC, where no answer outlives its exchange, the channel is an ordered channel:
\* commands run in the order they were issued, each at most once and none skipped, and a
\* success in the caller's hand means that its command ran.
THEOREM ChannelIsOrdered == ~ LateAnswers => (Spec => ImplementsOrderedChannel)
<1> SUFFICES ASSUME ~ LateAnswers PROVE Spec => ImplementsOrderedChannel
  OBVIOUS
<1>1. Init => Abstract!Init
  BY InitAbstract
<1>2. (InStep /\ SlotsKept /\ AnswersKept) /\ [Next]_vars => [Abstract!Next]_(Abstract!vars)
  BY NextAbstract
<1> QED BY <1>1, <1>2, AnswersAreKept, PTL DEF Spec, ImplementsOrderedChannel, Abstract!Spec
=============================================================================
