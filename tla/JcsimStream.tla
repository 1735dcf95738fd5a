---------------------------- MODULE JcsimStream ----------------------------
(***************************************************************************)
(* The byte stream under JcSimTransport (scll-transport-jcsim/src/lib.rs): *)
(* transmit writes one length-prefixed frame on a TCP connection and reads *)
(* one back, with a timeout on every read of the socket; reset drops the   *)
(* connection and opens another.  CardChannel moves whole frames; this     *)
(* module says when that is right: a call that ends inside a frame leaves  *)
(* the rest of it in the stream, and the next length is then read from the *)
(* middle of an answer.                                                    *)
(*                                                                         *)
(* The other end, the javacard-simulator-apdu-bridge, is not in this       *)
(* repository: it is modelled from the wire protocol the crate states at   *)
(* its head.  A byte is a digit of base Base, a length has HeaderLen of    *)
(* them (256 and 4 in the code).                                           *)
(***************************************************************************)
EXTENDS Integers, SequencesExt

CONSTANTS
  Base, HeaderLen,    \* the length prefix
  RapduMax,           \* RAPDU_MAX: the longest answer transmit returns
  MaxFrame,           \* MAX_FRAME: the longest frame the bridge accepts
  TimeoutTicks,       \* the read timeout of the socket, in ticks
  CApdus, RApdus,     \* what is asked, what the card answers: byte strings
  MaxCalls, MaxResets \* bounds on the history

Byte == 0 .. (Base - 1)

\* n with k of its last digits dropped, for each k: n, n >> 8, n >> 16 ...
Shifted(n) ==
  LET q[k \in 0 .. HeaderLen] == IF k = 0 THEN n ELSE q[k - 1] \div Base IN q

\* A length prefix holds MaxFrame.
ASSUME StreamAssumption ==
  /\ Base \in Nat \ {0, 1}
  /\ {HeaderLen, RapduMax, MaxFrame, TimeoutTicks} \subseteq Nat \ {0}
  /\ Shifted(MaxFrame)[HeaderLen] = 0
  /\ CApdus \cup RApdus \subseteq Seq(Byte)
  /\ \A r \in RApdus : Len(r) <= MaxFrame
  /\ {MaxCalls, MaxResets} \subseteq Nat

VARIABLES
  connected,  \* JcSimTransport.connected
  pc,         \* where transmit is: "idle", reading the "len", the "body"
  got, need,  \* what read_exact has filled of its buffer, and its length
  outcome,    \* what the last call returned
  up, down,   \* bytes written and not yet read, to and from the bridge
  peer,       \* the bridge's end: "serving", "gone", "refused", or "none"
  quiet,      \* ticks since the socket last gave a byte
  waited,     \* ticks since the call began to read
  asked,      \* history: the commands sent whole on this connection,
  forwarded,  \*   those the bridge gave to the card,
  replies,    \*   the card's answers,
  cut,        \*   and whether a call since the connect ended inside a frame
  calls, resets

client  == <<connected, pc, got, need, outcome>>
wire    == <<up, down, peer>>
clocks  == <<quiet, waited>>
traffic == <<forwarded, replies>>
history == <<asked, forwarded, replies, cut>>
bounds  == <<calls, resets>>
vars    == <<client, wire, clocks, history, bounds>>

Outcome(kind, bytes) == [kind |-> kind, bytes |-> bytes]

\* u32::to_be_bytes and from_be_bytes.
ToBeBytes(n)   == [i \in 1 .. HeaderLen |-> Shifted(n)[HeaderLen - i] % Base]
ValueUpTo(d)   ==
  LET v[k \in 0 .. Len(d)] == IF k = 0 THEN 0 ELSE v[k - 1] * Base + d[k] IN v
FromBeBytes(d) == ValueUpTo(d)[Len(d)]

Frame(apdu) == ToBeBytes(Len(apdu)) \o apdu

Init ==
  /\ connected = TRUE /\ pc = "idle" /\ got = <<>> /\ need = 0
  /\ outcome = Outcome("none", <<>>)
  /\ up = <<>> /\ down = <<>> /\ peer = "serving"
  /\ quiet = 0 /\ waited = 0
  /\ asked = <<>> /\ forwarded = <<>> /\ replies = <<>> /\ cut = "no"
  /\ calls = 0 /\ resets = 0

(***************************************************************************)
(* transmit                                                                *)
(***************************************************************************)

\* The C-APDU fits a frame of the bridge.
Framable(capdu) == Len(capdu) <= MaxFrame

\* Mutant: the failure is reported and the link still said to be up.
FailKeepsConnected(kind) ==
  /\ outcome' = Outcome(kind, <<>>)
  /\ pc' = "idle" /\ cut' = "failed"
  /\ UNCHANGED <<connected, got, need>>

\* fail: the link is marked down and the call returns.  The rest of the
\* frame, read or written in part, stays where it is.
Fail(kind) ==
  /\ connected' = FALSE
  /\ outcome' = Outcome(kind, <<>>)
  /\ pc' = "idle" /\ cut' = "failed"
  /\ UNCHANGED <<got, need>>

\* read_exact on a buffer of n bytes.
StartRead(stage, n) ==
  /\ pc' = stage /\ need' = n /\ got' = <<>> /\ quiet' = 0

Called == pc = "idle" /\ calls < MaxCalls /\ calls' = calls + 1 /\ UNCHANGED resets

\* transmit does not look at `connected`: after a failure it goes on with
\* whatever is left of the stream.
Send(capdu) ==
  /\ Called /\ Framable(capdu) /\ peer # "none"
  /\ up' = up \o Frame(capdu)
  /\ asked' = Append(asked, capdu)
  /\ StartRead("len", HeaderLen)
  /\ waited' = 0
  /\ UNCHANGED <<connected, outcome, down, peer, traffic, cut>>

SendRefused(capdu) ==
  /\ Called /\ ~Framable(capdu)
  /\ outcome' = Outcome("ProtocolError", <<>>)
  /\ UNCHANGED <<connected, pc, got, need, wire, clocks, history>>

\* A write fails, maybe after a part of the frame went out.
SendFails(capdu) ==
  /\ Called /\ Framable(capdu)
  /\ \E k \in 0 .. Len(Frame(capdu)) - 1 :
       /\ peer = "none" => k = 0
       /\ up' = up \o SubSeq(Frame(capdu), 1, k)
  /\ Fail(IF peer = "serving" THEN "Timeout" ELSE "ReaderGone")
  /\ UNCHANGED <<down, peer, clocks, asked, traffic>>

\* Mutant: read in the place of read_exact.
ReadReturnsShort == Len(got) = need \/ Len(got) > 0

\* read_exact has filled its buffer.
Complete == Len(got) = need
Blocked  == pc \in {"len", "body"} /\ ~Complete

\* The socket gives some of the bytes that have arrived: one read of those
\* read_exact makes, which starts the timeout anew.
ReadSome ==
  /\ Blocked
  /\ \E k \in 1 .. Len(down) :
       /\ k <= need - Len(got)
       /\ got' = got \o SubSeq(down, 1, k)
       /\ down' = SubSeq(down, k + 1, Len(down))
  /\ quiet' = 0
  /\ UNCHANGED <<connected, pc, need, outcome, up, peer, waited, history, bounds>>

\* Mutant: the check is off by one.
OneMoreAccepted(rlen) == rlen > RapduMax + 1

\* The length of the answer is in: refuse one that fits no R-APDU.
Oversized(rlen) == rlen > RapduMax

LengthRead ==
  /\ pc = "len" /\ Complete
  /\ ~Oversized(FromBeBytes(got))
  /\ StartRead("body", FromBeBytes(got))
  /\ UNCHANGED <<connected, outcome, wire, waited, history, bounds>>

\* The error keeps the link up, and the refused answer in the stream.
LengthRefused ==
  /\ pc = "len" /\ Complete
  /\ Oversized(FromBeBytes(got))
  /\ outcome' = Outcome("ProtocolError", <<>>)
  /\ pc' = "idle"
  /\ cut' = IF cut = "no" THEN "toolong" ELSE cut
  /\ UNCHANGED <<connected, got, need, wire, clocks, asked, traffic, bounds>>

Return ==
  /\ pc = "body" /\ Complete
  /\ outcome' = Outcome("ok", got)
  /\ pc' = "idle"
  /\ UNCHANGED <<connected, got, need, wire, clocks, history, bounds>>

\* Mutant: open forgets set_read_timeout.
NoReadTimeout == FALSE

\* TimedOut and WouldBlock: no byte for the length of the timeout.
ReadTimeout ==
  /\ Blocked /\ quiet = TimeoutTicks
  /\ Fail("Timeout")
  /\ UNCHANGED <<wire, clocks, asked, traffic, bounds>>

\* UnexpectedEof, ConnectionReset, ConnectionAborted.
ReadEof ==
  /\ Blocked /\ down = <<>> /\ peer # "serving"
  /\ Fail("ReaderGone")
  /\ UNCHANGED <<wire, clocks, asked, traffic, bounds>>

Tick ==
  /\ Blocked /\ quiet < TimeoutTicks
  /\ quiet' = quiet + 1 /\ waited' = waited + 1
  /\ UNCHANGED <<client, wire, history, bounds>>

(***************************************************************************)
(* reset: shut the socket, open another                                    *)
(***************************************************************************)
Shut == pc = "idle" /\ resets < MaxResets /\ resets' = resets + 1 /\ UNCHANGED calls

\* What the old connection still held is lost with it.
NewWire(end) == up' = <<>> /\ down' = <<>> /\ peer' = end

Reset ==
  /\ Shut
  /\ NewWire("serving")
  /\ connected' = TRUE
  /\ outcome' = Outcome("reset", <<>>)
  /\ asked' = <<>> /\ forwarded' = <<>> /\ replies' = <<>> /\ cut' = "no"
  /\ UNCHANGED <<pc, got, need, clocks>>

\* The bridge takes no new client: the transport keeps a socket shut down.
ResetFails ==
  /\ Shut
  /\ NewWire("none")
  /\ Fail("Other")
  /\ UNCHANGED <<clocks, asked, traffic>>

(***************************************************************************)
(* The bridge: one frame in, one frame out                                 *)
(***************************************************************************)
Announced == FromBeBytes(SubSeq(up, 1, HeaderLen))
Headed    == peer = "serving" /\ Len(up) >= HeaderLen

Forward(rapdu) ==
  /\ Headed /\ Announced <= MaxFrame
  /\ LET end == HeaderLen + Announced IN
       /\ Len(up) >= end
       /\ forwarded' = Append(forwarded, SubSeq(up, HeaderLen + 1, end))
       /\ up' = SubSeq(up, end + 1, Len(up))
  /\ replies' = Append(replies, rapdu)
  /\ down' = down \o Frame(rapdu)
  /\ UNCHANGED <<client, peer, clocks, asked, cut, bounds>>

\* A frame above the ceiling: the bridge hangs up.
HangUp ==
  /\ Headed /\ Announced > MaxFrame
  /\ peer' = "refused"
  /\ UNCHANGED <<client, up, down, clocks, history, bounds>>

\* The bridge ends; of what it wrote, some may never arrive.
BridgeGone ==
  /\ peer = "serving"
  /\ peer' = "gone"
  /\ \E k \in 0 .. Len(down) : down' = SubSeq(down, 1, k)
  /\ UNCHANGED <<client, up, clocks, history, bounds>>

Next ==
  \/ \E c \in CApdus : Send(c) \/ SendRefused(c) \/ SendFails(c)
  \/ ReadSome \/ LengthRead \/ LengthRefused \/ Return
  \/ ReadTimeout \/ ReadEof \/ Tick
  \/ Reset \/ ResetFails
  \/ \E r \in RApdus : Forward(r)
  \/ HangUp \/ BridgeGone

\* The caller's thread runs and time passes; nothing is asked of the bridge.
Fairness ==
  /\ WF_vars(LengthRead) /\ WF_vars(LengthRefused) /\ WF_vars(Return)
  /\ WF_vars(ReadTimeout) /\ WF_vars(ReadEof) /\ WF_vars(Tick)

Spec == Init /\ [][Next]_vars /\ Fairness

(***************************************************************************)
(* Properties                                                              *)
(***************************************************************************)

\* As long as no call ended inside a frame since the connect, transmit
\* returns the whole answer of the card to the command of that call, however
\* the bytes came in, and leaves nothing of it behind (transmit's read_exact).
AnswerIsWhole ==
  pc = "idle" /\ outcome.kind = "ok" /\ cut = "no" =>
    /\ Len(replies) = Len(asked)
    /\ outcome.bytes = Last(replies)
    /\ down = <<>>

\* A link that is_connected reports as up is at a frame boundary in both
\* directions: the card was given every command that was sent, whole and in
\* order, and each was answered, unless an answer was refused for its length.
\* This is what probe tells its caller (fail clears `connected` on every path,
\* and only a new connection sets it).
LinkUpMeansAligned ==
  pc = "idle" /\ connected /\ cut # "toolong" =>
    /\ up = <<>> /\ down = <<>>
    /\ forwarded = asked /\ Len(replies) = Len(asked)

\* The timeout is per read of the socket, so a call may outwait it (trait
\* Transport says "Per-call timeout enforced inside", transport.rs:19).  What
\* bounds the wait is the buffer, also when the length read is garbage: no more
\* than [u8; 4] and [u8; RAPDU_MAX] are read, a timeout for each byte.
WaitBounded ==
  /\ Len(got) <= need /\ need <= Max({HeaderLen, RapduMax})
  /\ waited <= TimeoutTicks * (HeaderLen + RapduMax)

\* Every call returns, whatever the bridge does (the socket's read timeout).
TransmitReturns == pc # "idle" ~> pc = "idle"
=============================================================================
