----------------------------- MODULE CardChannel -----------------------------
(***************************************************************************)
(* One CardManager, its RustCrypto backend, the link to the card and the   *)
(* card: opening a secure channel, exchanging commands over it, closing    *)
(* it, resetting the card by discovery, and everything that can go wrong   *)
(* between two APDUs.                                                      *)
(*                                                                         *)
(* The manager is single-threaded and blocks in Transport::transmit, so    *)
(* its state between two APDUs is a program counter `pc' naming the        *)
(* exchange it waits for, and the locals of that workflow in `ctx'.  What  *)
(* interleaves with it is the card, the link and, on a shared reader,      *)
(* whoever else uses the card.                                             *)
(*                                                                         *)
(* LateAnswers selects the transport.  FALSE is PC/SC: an exchange returns *)
(* an answer or an error, and nothing of a failed exchange is left behind. *)
(* TRUE is the jcsim TCP stream: a read may time out, the request and its  *)
(* answer stay in the stream, and the next transmit reads them.            *)
(***************************************************************************)
EXTENDS SecureMessaging, SequencesExt

CONSTANTS
  LateAnswers,     \* the transport is a stream that survives a timeout
  ProbeReads,      \* GET DATA reads that discover_card makes after its SELECT
  MaxKeys,         \* bound: INITIALIZE UPDATEs in a behaviour
  MaxCommands,     \* bound: commands wrapped under one set of session keys
  MaxBacklog       \* bound: APDUs a timeout may leave in the stream

ASSUME BoundsAssumption ==
  /\ LateAnswers \in BOOLEAN
  /\ ProbeReads \in Nat
  /\ MaxKeys \in Nat
  /\ MaxCommands \in Nat
  /\ MaxBacklog \in Nat

VARIABLES
  session,     \* CardManager.session, with the keys it was opened with
  slots,       \* the backend's two session tables
  pc,          \* the exchange the manager waits for, or "idle"
  ctx,         \* the locals of the workflow in progress
  req,         \* C-APDUs on their way to the card
  resp,        \* R-APDUs on their way to the host
  card,        \* the card's end of the secure channel
  outcome,     \* what the last workflow returned
  lastKey,     \* host challenges drawn so far: each gives one set of keys
  issued,      \* history: per key set, the commands wrapped
  executed,    \* history: per key set, the commands the card accepted
  broken,      \* history: key sets torn down by a failed unwrap
  lost         \* history: slots given up without being closed

hostVars == <<session, slots, pc, ctx, outcome, lastKey, issued, broken, lost>>
cardVars == <<card, executed>>
linkVars == <<req, resp>>
vars == <<session, slots, pc, ctx, req, resp, card, outcome, lastKey, issued,
          executed, broken, lost>>

Keys == 1 .. MaxKeys

(***************************************************************************)
(* What travels on the link.  A C-APDU is plain (SELECT, GET DATA),        *)
(* INITIALIZE UPDATE with its host challenge, or secure: a command with    *)
(* its C-MAC, which is the key set and the chain that ends in the command. *)
(* An R-APDU is plain, an INITIALIZE UPDATE answer, or protected by an     *)
(* R-MAC.  `ans' is not on the wire: it says which wrapped command the     *)
(* card was answering.                                                     *)
(***************************************************************************)
Nothing == [key |-> 0, n |-> 0]
Place == [key : Nat, n : Nat]

Plain(kind) == [kind |-> kind, p |-> "SCP03", key |-> 0, chain |-> <<>>]
InitUpdate(p, k) == [kind |-> "IU", p |-> p, key |-> k, chain |-> <<>>]
Secure(p, slot) == [kind |-> "SM", p |-> p, key |-> slot.key, chain |-> slot.chain]
PlaceOf(m) == [key |-> m.key, n |-> Len(m.chain)]

PlainAnswer(sw, ans) ==
  [kind |-> "plain", p |-> "SCP03", sw |-> sw, key |-> 0, chain |-> <<>>,
   rchain |-> <<>>, ans |-> ans]
IuAnswer(p, k) ==
  [kind |-> "IU", p |-> p, sw |-> "ok", key |-> k, chain |-> <<>>, rchain |-> <<>>,
   ans |-> Nothing]
MacAnswer(p, sw, k, chain, rchain, ans) ==
  [kind |-> "SM", p |-> p, sw |-> sw, key |-> k, chain |-> chain, rchain |-> rchain,
   ans |-> ans]

NoSession == [open |-> FALSE, h |-> NoHandle, key |-> 0, rmac |-> FALSE]
NoCtx == [p |-> "SCP03", rmac |-> FALSE, good |-> FALSE, key |-> 0, h |-> NoHandle,
          left |-> 0, ask |-> Nothing]
NoCard == [key |-> 0, p |-> "SCP03", authed |-> FALSE, rmac |-> FALSE,
           chain |-> <<>>, rchain |-> <<>>]

Outcome(what) == [what |-> what, ask |-> Nothing, ans |-> Nothing, sw |-> "ok"]
Pending == Outcome("pending")
Failed == Outcome("error")
Done == Outcome("done")

Init ==
  /\ session = NoSession
  /\ slots = [h \in Handles |-> FreeSlot]
  /\ pc = "idle"
  /\ ctx = NoCtx
  /\ req = <<>> /\ resp = <<>>
  /\ card = NoCard
  /\ outcome = Done
  /\ lastKey = 0
  /\ issued = [k \in Keys |-> <<>>]
  /\ executed = [k \in Keys |-> <<>>]
  /\ broken = {}
  /\ lost = 0

------------------------------------------------------------------------------
(***************************************************************************)
(* The manager                                                             *)
(***************************************************************************)

\* transmit: write the C-APDU and wait; on a stream, behind whatever is there.
Send(m) == req' = Append(req, m)

\* The R-APDU the blocked transmit reads: the next one, whichever it answers.
Receive == resp # <<>> /\ resp' = Tail(resp)
Answer == Head(resp)

Return(o) == pc' = "idle" /\ ctx' = NoCtx /\ outcome' = o

(***************************************************************************)
(* open_scp: SELECT the target.  `good' stands for the inputs that decide  *)
(* the checks made after the session keys are derived: the static keys are *)
(* the card's, its pseudo-random challenge verifies and the requested      *)
(* level has a bit the card's `i' parameter allows.                        *)
(***************************************************************************)
OpenScp(p, rmac, good) ==
  /\ pc = "idle" /\ lastKey < MaxKeys
  /\ Send(Plain("SELECT"))
  /\ pc' = "select"
  /\ ctx' = [NoCtx EXCEPT !.p = p, !.rmac = rmac, !.good = good]
  /\ outcome' = Pending
  /\ UNCHANGED <<session, slots, resp, cardVars, lastKey, issued, broken, lost>>

SelectWithStaleChallenge ==
  /\ pc = "select" /\ Receive /\ Answer.sw = "ok"
  /\ lastKey' = IF lastKey = 0 THEN 1 ELSE lastKey
  /\ Send(InitUpdate(ctx.p, lastKey'))
  /\ pc' = "iu"
  /\ ctx' = [ctx EXCEPT !.key = lastKey']
  /\ UNCHANGED <<session, slots, cardVars, outcome, issued, broken, lost>>

SelectAnswered ==
  /\ pc = "select" /\ Receive /\ Answer.sw = "ok"
  /\ Send(InitUpdate(ctx.p, lastKey + 1))
  /\ lastKey' = lastKey + 1
  /\ pc' = "iu"
  /\ ctx' = [ctx EXCEPT !.key = lastKey + 1]
  /\ UNCHANGED <<session, slots, cardVars, outcome, issued, broken, lost>>

\* Fails before anything is derived: an error status word, a target that is not
\* an AID, an INITIALIZE UPDATE response that does not parse, a key version
\* other than the one the caller pinned.
OpenRefused ==
  /\ pc \in {"select", "iu"} /\ Receive
  /\ Return(Failed)
  /\ UNCHANGED <<session, slots, req, cardVars, lastKey, issued, broken, lost>>

IuParses == Answer.kind = "IU" /\ Answer.p = ctx.p /\ Answer.sw = "ok"
IuChecksAnyChallenge == ctx.good
IuChecks == Answer.key = ctx.key /\ ctx.good

SessionTableFull ==
  /\ pc = "iu" /\ Receive /\ IuParses
  /\ TableFull(slots, ctx.p)
  /\ Return(Outcome("table full"))
  /\ UNCHANGED <<session, slots, req, cardVars, lastKey, issued, broken, lost>>

\* Card cryptogram, card challenge or level check fails after derive_session:
\* the error leaves and nobody closes the slot just taken.
ChecksFail ==
  /\ pc = "iu" /\ Receive /\ IuParses /\ ~ IuChecks
  /\ ~ TableFull(slots, ctx.p)
  /\ slots' = [slots EXCEPT ![FirstFree(slots, ctx.p)] = FreshSlot(ctx.key)]
  /\ lost' = lost + 1
  /\ Return(Failed)
  /\ UNCHANGED <<session, req, cardVars, lastKey, issued, broken>>

\* derive_session, all checks pass, EXTERNAL AUTHENTICATE is wrapped and sent.
SendExternalAuthenticate ==
  /\ pc = "iu" /\ Receive /\ IuParses /\ IuChecks
  /\ ~ TableFull(slots, ctx.p)
  /\ LET h == FirstFree(slots, ctx.p)
         slot == Wrap(ctx.p, FreshSlot(ctx.key), EA(ctx.rmac))
     IN  /\ slots' = [slots EXCEPT ![h] = slot]
         /\ ctx' = [ctx EXCEPT !.h = h]
         /\ Send(Secure(ctx.p, slot))
  /\ issued' = [issued EXCEPT ![ctx.key] = Append(@, EA(ctx.rmac))]
  /\ pc' = "ea"
  /\ UNCHANGED <<session, cardVars, outcome, lastKey, broken, lost>>

\* EXTERNAL AUTHENTICATE is answered in the clear.  9000 opens the channel:
\* the manager retains it in place of the one it held, whose slot stays taken.
ChannelOpened ==
  /\ pc = "ea" /\ Receive /\ Answer.sw = "ok"
  /\ session' = [open |-> TRUE, h |-> ctx.h, key |-> ctx.key, rmac |-> ctx.rmac]
  /\ lost' = IF session.open THEN lost + 1 ELSE lost
  /\ Return(Done)
  /\ UNCHANGED <<slots, req, cardVars, lastKey, issued, broken>>

\* Any other answer, one too short for a status word among them.
ExternalAuthFail ==
  /\ pc = "ea" /\ Receive
  /\ lost' = lost + 1
  /\ Return(Failed)
  /\ UNCHANGED <<session, slots, req, cardVars, lastKey, issued, broken>>

(***************************************************************************)
(* transmit_in_session: wrap under whatever the retained handle names,     *)
(* transmit, unwrap.  The backend refuses a dead handle, one that names a  *)
(* session not yet authenticated and a command too long once protected:    *)
(* nothing is sent and the slot is as it was.                              *)
(***************************************************************************)
Held == slots[session.h]

TransmitRefused ==
  /\ pc = "idle" /\ session.open
  /\ outcome' = Failed
  /\ UNCHANGED <<session, slots, pc, ctx, linkVars, cardVars, lastKey, issued,
                 broken, lost>>

Transmit(c) ==
  /\ pc = "idle" /\ session.open /\ CanWrap(Held, c)
  /\ Len(Held.chain) < MaxCommands
  /\ LET p == session.h[1]
         slot == Wrap(p, Held, c)
     IN  /\ slots' = [slots EXCEPT ![session.h] = slot]
         /\ Send(Secure(p, slot))
         /\ ctx' = [NoCtx EXCEPT !.p = p, !.h = session.h, !.key = slot.key,
                                 !.ask = PlaceOf(Secure(p, slot))]
         /\ issued' = [issued EXCEPT ![slot.key] = Append(@, c)]
  /\ pc' = "cmd"
  /\ outcome' = Pending
  /\ UNCHANGED <<session, resp, cardVars, lastKey, broken, lost>>

TransmitAnswered ==
  /\ pc = "cmd" /\ Receive
  /\ LET p == ctx.p
         slot == Unwrap(p, slots[ctx.h], Answer)
         ok == Verify(p, slots[ctx.h], Answer)
     IN  /\ slots' = [slots EXCEPT ![ctx.h] = slot]
         /\ broken' = IF ok THEN broken ELSE broken \cup {ctx.key}
         /\ Return(IF ok THEN [what |-> "answer", ask |-> ctx.ask,
                               ans |-> Answer.ans, sw |-> Answer.sw]
                         ELSE Failed)
  /\ UNCHANGED <<session, req, cardVars, lastKey, issued, lost>>

\* No status word, or data that do not decrypt: torn down like a wrong R-MAC.
TransmitGarbled ==
  /\ pc = "cmd" /\ Receive
  /\ slots' = [slots EXCEPT ![ctx.h] = FreeSlot]
  /\ broken' = broken \cup {ctx.key}
  /\ Return(Failed)
  /\ UNCHANGED <<session, req, cardVars, lastKey, issued, lost>>

(***************************************************************************)
(* close_channel frees the slot the retained handle names; into_parts is   *)
(* close_channel, and gives the backend to whoever builds the next manager *)
(***************************************************************************)
ForgetChannel == session' = NoSession /\ UNCHANGED slots
ReleaseChannel ==
  /\ session' = NoSession
  /\ slots' = IF session.open THEN [slots EXCEPT ![session.h] = FreeSlot] ELSE slots

\* A slot given up by a failed open, then found again through a stale handle,
\* is closed after all: it is the session's handle, not an orphan, then.
CloseChannel ==
  /\ pc = "idle" /\ session.open
  /\ ReleaseChannel
  /\ outcome' = Done
  /\ UNCHANGED <<pc, ctx, linkVars, cardVars, lastKey, issued, broken, lost>>

IntoParts ==
  /\ pc = "idle"
  /\ ReleaseChannel
  /\ outcome' = Outcome("parts")
  /\ UNCHANGED <<pc, ctx, linkVars, cardVars, lastKey, issued, broken, lost>>

(***************************************************************************)
(* discover_card: reset, SELECT, then GET DATA reads.  The reset starts    *)
(* the link afresh: a new TCP stream for jcsim, whose card is left alone,  *)
(* a card reset for PC/SC.  The retained session is not touched.           *)
(***************************************************************************)
Discover ==
  /\ pc = "idle"
  /\ req' = <<Plain("SELECT")>> /\ resp' = <<>>
  /\ card' = IF LateAnswers THEN card ELSE NoCard
  /\ pc' = "probe"
  /\ ctx' = [NoCtx EXCEPT !.left = ProbeReads]
  /\ outcome' = Pending
  /\ UNCHANGED <<session, slots, executed, lastKey, issued, broken, lost>>

DiscoverResetFails ==
  /\ pc = "idle"
  /\ req' = <<>> /\ resp' = <<>>
  /\ outcome' = Failed
  /\ UNCHANGED <<session, slots, pc, ctx, cardVars, lastKey, issued, broken, lost>>

\* For a read, unlike for the SELECT before it, 6A88 means "absent" and is no error.
MayGoOn == Answer.sw = "ok" \/ ctx.left < ProbeReads

ProbeWithoutEnd ==
  /\ pc = "probe" /\ Receive /\ MayGoOn
  /\ Send(Plain("GET DATA"))
  /\ UNCHANGED <<session, slots, pc, ctx, cardVars, outcome, lastKey, issued, broken, lost>>

ProbeNext ==
  /\ pc = "probe" /\ Receive /\ MayGoOn /\ ctx.left > 0
  /\ Send(Plain("GET DATA"))
  /\ ctx' = [ctx EXCEPT !.left = @ - 1]
  /\ UNCHANGED <<session, slots, pc, cardVars, outcome, lastKey, issued, broken, lost>>

\* Every read made; or, at any of them, another error or data that do not parse.
ProbeEnds ==
  /\ pc = "probe" /\ Receive
  /\ \/ MayGoOn /\ ctx.left = 0 /\ Return(Done)
     \/ Return(Failed)
  /\ UNCHANGED <<session, slots, req, cardVars, lastKey, issued, broken, lost>>

(***************************************************************************)
(* transmit returns an error to whichever workflow is waiting, and the     *)
(* workflow returns it at once: a slot taken by an open in progress stays  *)
(* taken, a chain advanced by wrap stays advanced.                         *)
(***************************************************************************)
Waiting == pc # "idle"
AbandonedSlots == IF pc = "ea" THEN lost + 1 ELSE lost

LinkErrorKeepsAnswers ==
  /\ Waiting
  /\ lost' = AbandonedSlots
  /\ Return(Failed)
  /\ UNCHANGED <<session, slots, linkVars, cardVars, lastKey, issued, broken>>

LinkError ==
  /\ Waiting
  /\ req' = <<>> /\ resp' = <<>>
  /\ lost' = AbandonedSlots
  /\ Return(Failed)
  /\ UNCHANGED <<session, slots, cardVars, lastKey, issued, broken>>

\* A read times out on the stream; what was sent, and its answer, remain.
Timeout ==
  /\ Waiting /\ LateAnswers
  /\ Len(req) + Len(resp) <= MaxBacklog
  /\ lost' = AbandonedSlots
  /\ Return(Failed)
  /\ UNCHANGED <<session, slots, linkVars, cardVars, lastKey, issued, broken>>

------------------------------------------------------------------------------
(***************************************************************************)
(* The card: not part of the repository, modelled from what the host       *)
(* expects of it.                                                          *)
(***************************************************************************)
Reply(r) == req' = Tail(req) /\ resp' = Append(resp, r)
Request == Head(req)
HasRequest(kind) == req # <<>> /\ Request.kind = kind

\* SELECT closes the secure channel implicitly; an unknown AID changes nothing.
CardSelect ==
  /\ HasRequest("SELECT")
  /\ \/ card' = NoCard /\ Reply(PlainAnswer("ok", Nothing))
     \/ card' = card /\ Reply(PlainAnswer("error", Nothing))
  /\ UNCHANGED <<hostVars, executed>>

CardGetData ==
  /\ HasRequest("GET DATA")
  /\ \E sw \in SWs : Reply(PlainAnswer(sw, Nothing))
  /\ UNCHANGED <<hostVars, cardVars>>

\* INITIALIZE UPDATE starts a session; an unknown key version is refused.
CardInitUpdate ==
  /\ HasRequest("IU")
  /\ \/ /\ card' = [NoCard EXCEPT !.key = Request.key, !.p = Request.p]
        /\ Reply(IuAnswer(Request.p, Request.key))
     \/ card' = NoCard /\ Reply(PlainAnswer("error", Nothing))
  /\ UNCHANGED <<hostVars, executed>>

\* The C-MAC verifies: same keys, and the chain extends the card's by one.
MacVerifies ==
  /\ Request.key = card.key
  /\ Len(Request.chain) = Len(card.chain) + 1
  /\ Request.chain = Append(card.chain, Last(Request.chain))
  /\ card.authed \/ Len(Request.chain) = 1

CardAuthenticate ==
  /\ HasRequest("SM") /\ MacVerifies /\ ~ card.authed
  /\ card' = [card EXCEPT !.authed = TRUE, !.chain = Request.chain,
                          !.rmac = Request.chain = <<EA(TRUE)>>]
  /\ executed' = [executed EXCEPT ![card.key] = Append(@, Last(Request.chain))]
  /\ Reply(PlainAnswer("ok", PlaceOf(Request)))
  /\ UNCHANGED hostVars

\* The command runs (or is answered by an error of its own, having been
\* accepted).  SCP03 protects success only, SCP02 every answer.
CardExecute ==
  /\ HasRequest("SM") /\ MacVerifies /\ card.authed
  /\ \E sw \in SWs :
       LET pair == [cmd |-> <<Last(Request.chain)>>, sw |-> sw]
           at == PlaceOf(Request)
       IN  /\ card' = [card EXCEPT !.chain = Request.chain,
                                   !.rchain = IF card.p = "SCP02" /\ card.rmac
                                                THEN Append(@, pair) ELSE @]
           /\ Reply(CASE ~ card.rmac -> PlainAnswer(sw, at)
                      [] card.rmac /\ card.p = "SCP02" ->
                           MacAnswer("SCP02", sw, card.key, <<>>, Append(card.rchain, pair), at)
                      [] card.rmac /\ card.p = "SCP03" /\ sw = "ok" ->
                           MacAnswer("SCP03", sw, card.key, Request.chain, <<>>, at)
                      [] OTHER -> PlainAnswer(sw, at))
  /\ executed' = [executed EXCEPT ![card.key] = Append(@, Last(Request.chain))]
  /\ UNCHANGED hostVars

\* A C-MAC that does not verify, a secure command outside a session, or an
\* EXTERNAL AUTHENTICATE the card declines: the session ends.
CardRefuse ==
  /\ HasRequest("SM") /\ (~ MacVerifies \/ ~ card.authed)
  /\ card' = NoCard
  /\ Reply(PlainAnswer("error", PlaceOf(Request)))
  /\ UNCHANGED <<hostVars, executed>>

\* Another program on a shared reader, or a power dip, ends the session.
CardInterrupted ==
  /\ card # NoCard
  /\ card' = NoCard
  /\ UNCHANGED <<hostVars, linkVars, executed>>

------------------------------------------------------------------------------
CallerNext ==
  \/ \E p \in Protos, rmac, good \in BOOLEAN : OpenScp(p, rmac, good)
  \/ \E c \in Ops : Transmit(c)
  \/ TransmitRefused
  \/ CloseChannel
  \/ IntoParts
  \/ Discover \/ DiscoverResetFails

AnswerNext ==
  \/ SelectAnswered \/ OpenRefused
  \/ SessionTableFull \/ ChecksFail \/ SendExternalAuthenticate
  \/ ChannelOpened \/ ExternalAuthFail
  \/ TransmitAnswered \/ TransmitGarbled
  \/ ProbeNext \/ ProbeEnds

CardNext ==
  \/ CardSelect \/ CardGetData \/ CardInitUpdate
  \/ CardAuthenticate \/ CardExecute \/ CardRefuse

Next == CallerNext \/ AnswerNext \/ CardNext \/ LinkError \/ Timeout \/ CardInterrupted

Spec == Init /\ [][Next]_vars

(***************************************************************************)
(* Transport: "Blocking; per-APDU timeout owned by the transport".  While  *)
(* a workflow waits, either an answer comes and is read or transmit gives  *)
(* up: no more than that is assumed, in particular not that a card answers *)
(***************************************************************************)
TransmitReturns == CardNext \/ AnswerNext \/ LinkError \/ Timeout
FairSpec == Spec /\ WF_vars(TransmitReturns)

------------------------------------------------------------------------------
(***************************************************************************)
(* Properties                                                              *)
(***************************************************************************)
SessionType == [open : BOOLEAN, h : Handles, key : Nat, rmac : BOOLEAN]
CtxType == [p : Protos, rmac : BOOLEAN, good : BOOLEAN, key : Nat, h : Handles,
            left : Nat, ask : Place]
CApduType == [kind : {"SELECT", "GET DATA", "IU", "SM"}, p : Protos, key : Nat,
              chain : Seq(Commands)]
RApduType == [kind : {"plain", "IU", "SM"}, p : Protos, sw : SWs, key : Nat,
              chain : Seq(Commands), rchain : Seq(ExchangeRecord), ans : Place]
CardType == [key : Nat, p : Protos, authed : BOOLEAN, rmac : BOOLEAN,
             chain : Seq(Commands), rchain : Seq(ExchangeRecord)]
OutcomeType == [what : {"pending", "error", "done", "answer", "parts", "table full"},
                ask : Place, ans : Place, sw : SWs]

TypeOK ==
  /\ session \in SessionType
  /\ slots \in [Handles -> Slot]
  /\ pc \in {"idle", "select", "iu", "ea", "cmd", "probe"}
  /\ ctx \in CtxType
  /\ req \in Seq(CApduType)
  /\ resp \in Seq(RApduType)
  /\ card \in CardType
  /\ outcome \in OutcomeType
  /\ lastKey \in Nat
  /\ issued \in [Keys -> Seq(Commands)]
  /\ executed \in [Keys -> Seq(Commands)]
  /\ broken \subseteq Nat
  /\ lost \in Nat

(***************************************************************************)
(* What the card has accepted under a set of session keys is a prefix of   *)
(* what the backend wrapped under them: nothing runs twice, out of order   *)
(* or after a gap, whatever is lost, late, retried or reset.  wrap commits *)
(* the chain before transmit, so this is where a lost APDU could bite.     *)
(***************************************************************************)
ExecutedInOrder == \A k \in Keys : IsPrefix(executed[k], issued[k])

(***************************************************************************)
(* Why ExecutedInOrder holds, as an inductive invariant: both ends, and    *)
(* whatever is on its way between them, are in step with the histories.    *)
(***************************************************************************)
\* A handshake in progress has keys nobody has used.
HandshakeFresh ==
  /\ lastKey <= MaxKeys
  /\ pc = "select" => lastKey < MaxKeys
  /\ \A k \in Keys : k > lastKey => issued[k] = <<>>
  /\ pc = "iu" =>
       /\ ctx.key \in Keys /\ ctx.key = lastKey
       /\ issued[ctx.key] = <<>>
       /\ \A h \in Handles : slots[h].key # ctx.key

\* No two slots share keys, and a slot's chain is what was wrapped under its keys.
SlotsInStep ==
  \A h \in Handles : ~ IsFree(slots[h]) =>
    /\ slots[h].key <= lastKey
    /\ slots[h].chain = issued[slots[h].key]
    /\ \A g \in Handles : slots[g].key = slots[h].key => g = h

\* The card's chain is what it has accepted under its keys.
CardInStep ==
  card.key # 0 => card.key <= lastKey /\ card.chain = executed[card.key]

\* What is under way was wrapped, or starts a session the card never had.
RequestsInStep ==
  \A i \in DOMAIN req :
    /\ req[i].kind = "SM" =>
         /\ req[i].key \in Keys /\ req[i].chain # <<>>
         /\ IsPrefix(req[i].chain, issued[req[i].key])
    /\ req[i].kind = "IU" =>
         /\ req[i].key \in Keys /\ req[i].key <= lastKey
         /\ executed[req[i].key] = <<>> /\ card.key # req[i].key
         /\ \A j \in DOMAIN req : req[j].kind = "IU" /\ req[j].key = req[i].key => j = i

InStep ==
  /\ TypeOK /\ ExecutedInOrder
  /\ HandshakeFresh /\ SlotsInStep /\ CardInStep /\ RequestsInStep

(***************************************************************************)
(* The answer transmit returns is the answer of the card to that very      *)
(* command.  Without a stream that survives timeouts this holds at every   *)
(* level; with one, only where the session in the slot asks for an R-MAC   *)
(* that covers the answer: for SCP03 a success status word, for SCP02      *)
(* every answer, up to another exchange of the same command (its R-MAC     *)
(* covers the command, not its place).                                     *)
(***************************************************************************)
CommandAt(place) == issued[place.key][place.n]
AnswerBelongs ==
  outcome.what = "answer" =>
    LET h == session.h[1]
        exact == outcome.ans = outcome.ask
    IN  /\ ~ LateAnswers => exact
        /\ Held.rmac /\ h = "SCP03" /\ outcome.sw = "ok" => exact
        /\ Held.rmac /\ h = "SCP02" =>
             /\ outcome.ans.key = outcome.ask.key
             /\ CommandAt(outcome.ans) = CommandAt(outcome.ask)

(***************************************************************************)
(* open_scp returns Ok only when the card has accepted the EXTERNAL        *)
(* AUTHENTICATE of this very handshake, at the level the manager reports   *)
(* for the channel.  The status word of EXTERNAL AUTHENTICATE carries no   *)
(* MAC, and a late answer read in its place would be believed: what rules  *)
(* one out is that the card cryptogram covers the fresh host challenge, so *)
(* a handshake that gets this far has caught up with the stream.           *)
(***************************************************************************)
OpenedMeansAuthenticated ==
  session.open =>
    /\ executed[session.key] # <<>>
    /\ executed[session.key][1] = EA(session.rmac)

(***************************************************************************)
(* The retained handle names the keys the channel was opened with until a  *)
(* failed unwrap tears them down: no open, failed or not, takes over or    *)
(* frees a slot in use.                                                    *)
(***************************************************************************)
HandleKeepsItsKeys ==
  session.open /\ session.key \notin broken =>
    slots[session.h].key = session.key /\ slots[session.h].rmac = session.rmac

(***************************************************************************)
(* After a failed unwrap nothing is ever wrapped under those keys again    *)
(* (fail-closed tear-down), although the manager keeps the handle.         *)
(***************************************************************************)
BrokenStaysBroken == [][\A k \in broken : issued'[k] = issued[k]]_vars

(***************************************************************************)
(* Slots are given up in two ways only: an open that fails after           *)
(* derive_session, and an open that replaces a channel still held.  A      *)
(* caller who does neither never leaves a slot behind.                     *)
(***************************************************************************)
Taken == {h \in Handles : ~ IsFree(slots[h])}
InUse == {h \in Handles : (session.open /\ h = session.h) \/ (pc = "ea" /\ h = ctx.h)}
OrphansAccountedFor == Cardinality(Taken \ InUse) <= lost

\* Every workflow returns to its caller, with an answer or an error.
WorkflowsReturn == Waiting ~> ~ Waiting

(***************************************************************************)
(* CardManager::into_parts: "so the returned backend starts with a free    *)
(* session table".                                                         *)
(***************************************************************************)
PartsComeFree == outcome.what = "parts" => Taken = {}

(***************************************************************************)
(* ScpSession::security_level: "The effective (capped) security level      *)
(* fixed at channel open": a command the manager can wrap through the      *)
(* handle it retains goes out at the level it reports for the channel.     *)
(***************************************************************************)
ReportedLevelInForce ==
  session.open /\ pc = "idle" /\ slots[session.h].authed => slots[session.h].rmac = session.rmac

(***************************************************************************)
(* The channel refines OrderedChannel: the answer in the caller's hand is  *)
(* that of the last workflow, if it was a transmit that succeeded.         *)
(***************************************************************************)
NoAnswer == [key |-> 0, n |-> 0, sw |-> "error"]
answerBar ==
  IF outcome.what = "answer"
    THEN [key |-> outcome.ask.key, n |-> outcome.ask.n, sw |-> outcome.sw]
    ELSE NoAnswer
Abstract == INSTANCE OrderedChannel WITH answer <- answerBar
ImplementsOrderedChannel == Abstract!Spec
=============================================================================
