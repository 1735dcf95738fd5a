----------------------------- MODULE LoadPackage -----------------------------
(***************************************************************************)
(* load_package: a CAP file's components are streamed, inflated where they *)
(* are compressed, through a ring the caller lends, cut into LOAD blocks   *)
(* and sent to the card one by one.                                        *)
(*                                                                         *)
(* A byte is named <<k, i>>, the i-th of entry k of the ZIP; entry 0 is the*)
(* C4 header.  An exchange with the card is one step: that an answer       *)
(* belongs to its command is the business of CardChannel.                  *)
(***************************************************************************)
EXTENDS CapFile

CONSTANTS
  HeaderBytes,  \* length of C4 and its BER length
  BlockBytes,   \* LOAD_BLOCK_DATA
  MaxBlocks     \* 256: what a block number of one byte can tell apart

ASSUME SizesAssumption ==
  /\ HeaderBytes \in Nat \ {0} /\ BlockBytes \in Nat /\ HeaderBytes <= BlockBytes
  /\ MaxBlocks \in Nat \ {0}

VARIABLES
  zip,         \* the CAP file
  cap,         \* where its components are, once it has been parsed
  pc,          \* "parse", "install", "fill", "send" or "done"
  comp,        \* the component being emitted; 0 while the header is due
  emitted,     \* its bytes handed out so far
  produced,    \* its bytes inflated so far
  ended,       \* its DEFLATE stream has reported Done
  started,     \* the decompressor was reset for it
  ring,        \* InflateCtx.window
  inflating,   \* InflateCtx.state: the stream it is in the middle of, 0 if fresh
  out,         \* the block being filled
  sent,        \* bytes sent in LOAD blocks
  blockNo,     \* the next block's number, modulo MaxBlocks
  blocksSent,
  report,      \* what the call returned
  card         \* the card's load session: file, next block number, state

streamer == <<comp, emitted, produced, ended, started>>
infl == <<ring, inflating>>
loader == <<out, sent, blockNo, blocksSent>>
vars == <<zip, cap, pc, streamer, infl, loader, report, card>>

\* What the directory declares: of the first n components, and of the load file.
DeclaredUpTo(c) ==
  LET sum[n \in 0 .. Len(c)] == IF n = 0 THEN 0 ELSE sum[n - 1] + c[n].declared
  IN sum
Total(c) == HeaderBytes + DeclaredUpTo(c)[Len(c)]
Current == cap[comp]
\* A byte of the load file: the directory entry it is of and its place there.
ByteOf(n, i) == <<cap[n].entry, i>>
Room == BlockBytes - Len(out)
Pending == produced - emitted

NoLoad == [file |-> <<>>, next |-> 0, state |-> "idle"]

Init ==
  /\ zip \in Zips /\ cap = <<>>
  /\ pc = "parse" /\ report = "pending"
  /\ comp = 0 /\ emitted = 0 /\ produced = 0 /\ ended = FALSE /\ started = FALSE
  /\ ring = [p \in 0 .. Window - 1 |-> <<0, 0>>] /\ inflating = 0
  /\ out = <<>> /\ sent = 0 /\ blockNo = 0 /\ blocksSent = 0
  /\ card = NoLoad

Finish(r) == pc' = "done" /\ report' = r

(***************************************************************************)
(* Up to INSTALL [for Load]: the CAP is parsed, its size checked, and the  *)
(* card asked.  A card that holds the package already answers 6A80; one    *)
(* that was left in the middle of a load starts over.  What a parse that   *)
(* fails leaves in the working set is not read again, and left out.        *)
(***************************************************************************)
CapRejected ==
  /\ pc = "parse" /\ parse(zip) # "none"
  /\ Finish("cap")
  /\ UNCHANGED <<zip, cap, streamer, infl, loader, card>>

\* The window once the metadata components were read into it, one over the other.
WindowAfter(locs) ==
  [p \in DOMAIN ring |->
     LET covering == {n \in DOMAIN locs : Materialised(zip, locs[n]) /\ locs[n].own > p}
     IN IF covering = {} THEN ring[p] ELSE <<locs[Max(covering)].entry, p + 1>>]

CapParsed ==
  /\ pc = "parse" /\ parse(zip) = "none"
  /\ \E locs \in {walk_zip(zip)} : cap' = locs /\ ring' = WindowAfter(locs)
  /\ inflating' = 0
  /\ pc' = "install"
  /\ UNCHANGED <<zip, streamer, loader, report, card>>

FitsLoosely(total) == TRUE
Fits(total) == total <= MaxBlocks * BlockBytes

LoadTooLarge ==
  /\ pc = "install" /\ ~ Fits(Total(cap))
  /\ Finish("too large")
  /\ UNCHANGED <<zip, cap, streamer, infl, loader, card>>

\* The card begins a load, or the package is there already.
InstallForLoad ==
  /\ pc = "install" /\ Fits(Total(cap))
  /\ \/ /\ card.state # "loaded"
        /\ inflating' = 0
        /\ pc' = "fill" /\ UNCHANGED <<ring, streamer, loader, report>>
        /\ card' = [NoLoad EXCEPT !.state = "loading"]
     \/ /\ card.state = "loaded"
        /\ Finish("exists")
        /\ UNCHANGED <<streamer, infl, loader, card>>
  /\ UNCHANGED <<zip, cap>>

\* Any other status word, or an error of the link after the card acted or not.
InstallFails ==
  /\ pc = "install" /\ Fits(Total(cap))
  /\ Finish("error")
  /\ card' \in {card, IF card.state = "loaded" THEN card
                      ELSE [NoLoad EXCEPT !.state = "loading"]}
  /\ UNCHANGED <<zip, cap, streamer, infl, loader>>

------------------------------------------------------------------------------
(***************************************************************************)
(* next_block.                                                             *)
(***************************************************************************)
Filling == pc = "fill" /\ comp \in DOMAIN cap /\ Room > 0

\* advance(): the next component, its progress cleared.
Advance ==
  /\ comp' = comp + 1
  /\ emitted' = 0 /\ produced' = 0 /\ ended' = FALSE /\ started' = FALSE

EmitHeader ==
  /\ pc = "fill" /\ comp = 0
  /\ out' = [i \in 1 .. HeaderBytes |-> <<0, i>>]
  /\ Advance
  /\ UNCHANGED <<zip, cap, pc, infl, sent, blockNo, blocksSent, report, card>>

Exhausted(n) == n >= Current.declared

\* A component of any other method is copied from the ZIP, as far as the ZIP goes.
EmitStored ==
  /\ Filling /\ Current.method # "deflate"
  /\ LET take == Min({Current.declared - emitted, Room, Current.left - emitted})
     IN  /\ out' = out \o [i \in 1 .. take |-> ByteOf(comp, emitted + i)]
         /\ IF Exhausted(emitted + take)
              THEN Advance /\ UNCHANGED pc
              ELSE /\ emitted' = emitted + take
                   /\ pc' = IF take = 0 THEN "send" ELSE "fill"
                   /\ UNCHANGED <<comp, produced, ended, started>>
  /\ UNCHANGED <<zip, cap, infl, sent, blockNo, blocksSent, report, card>>

(***************************************************************************)
(* pump: with nothing pending, the decompressor is run once.  It writes on *)
(* from ring position produced until its stream or the ring ends; a stream *)
(* that ends exactly with the ring may take one more run to say so.        *)
(***************************************************************************)
NoResetForNext == inflating
Decompressor == IF started THEN inflating ELSE 0

RingPos == (produced % Window)
Reach == produced + Min({Window - RingPos, Current.own - produced})
PumpingAhead == Filling /\ Current.method = "deflate" /\ Pending < Window /\ ~ ended
Pumping == Filling /\ Current.method = "deflate" /\ Pending = 0 /\ ~ ended
CanInflate == Decompressor \in {0, comp} /\ Reach <= Current.sound

Pump ==
  /\ Pumping /\ CanInflate
  /\ produced' = Reach
  /\ ring' = [p \in DOMAIN ring |->
                IF p \in RingPos .. RingPos + (Reach - produced) - 1
                  THEN ByteOf(comp, produced + (p - RingPos) + 1) ELSE ring[p]]
  /\ \/ Reach = Current.own /\ ended' = TRUE
     \/ Reach = produced + Window - RingPos /\ ended' = FALSE
  /\ started' = TRUE /\ inflating' = comp
  /\ UNCHANGED <<zip, cap, pc, comp, emitted, loader, report, card>>

\* The stream is corrupt within reach, or the decompressor is in another one.
PumpFails ==
  /\ Pumping /\ ~ CanInflate
  /\ Finish("cap")
  /\ UNCHANGED <<zip, cap, streamer, infl, loader, card>>

\* What is pending is copied out of the ring, at most up to its end.
CopyWholeRing == Min({Pending, Window - (emitted % Window)})
CopyLength == Min({Pending, Room, Window - (emitted % Window)})

CopyOut ==
  /\ Filling /\ Current.method = "deflate" /\ Pending > 0
  /\ out' = out \o [i \in 1 .. CopyLength |-> ring[(emitted % Window) + i - 1]]
  /\ emitted' = emitted + CopyLength
  /\ UNCHANGED <<zip, cap, pc, comp, produced, ended, started, infl, sent, blockNo,
                 blocksSent, report, card>>

(***************************************************************************)
(* emit_deflate returns when the block is full or the stream over; only    *)
(* then is the component's size looked at.  A stream that ends before it   *)
(* makes no further progress, and the block is left short.                 *)
(***************************************************************************)
ReturnsWhenFull == Room = 0
ReturnsNow == Room = 0 \/ (ended /\ Pending = 0)

DeflateReturns ==
  /\ pc = "fill" /\ comp \in DOMAIN cap /\ Current.method = "deflate"
  /\ started /\ ReturnsNow
  /\ IF Exhausted(emitted) THEN Advance /\ UNCHANGED pc
                           ELSE pc' = "send" /\ UNCHANGED streamer
  /\ UNCHANGED <<zip, cap, infl, loader, report, card>>

\* Every component emitted, or the block full: next_block returns.
BlockFilled ==
  /\ pc = "fill" /\ comp > 0
  /\ comp > Len(cap) \/ (Room = 0 /\ ~ started)
  /\ pc' = "send"
  /\ UNCHANGED <<zip, cap, streamer, infl, loader, report, card>>

------------------------------------------------------------------------------
(***************************************************************************)
(* The LOAD loop.                                                          *)
(***************************************************************************)
IsLast(n) == n >= Total(cap)

\* Nothing more to send: the loop is left, and the load reported as done.
NothingLeft ==
  /\ pc = "send" /\ out = <<>>
  /\ Finish("ok")
  /\ UNCHANGED <<zip, cap, streamer, infl, loader, card>>

SameNumber == blockNo
NextNumber == (blockNo + 1) % MaxBlocks

\* The card takes a block with the number it expects, and may refuse any.
Takes(last) ==
  [file |-> card.file \o out, next |-> (card.next + 1) % MaxBlocks,
   state |-> IF last THEN "loaded" ELSE "loading"]

BlockAccepted ==
  /\ pc = "send" /\ out # <<>>
  /\ card.state = "loading" /\ blockNo = card.next
  /\ sent' = sent + Len(out)
  /\ card' = Takes(IsLast(sent'))
  /\ blockNo' = NextNumber /\ blocksSent' = blocksSent + 1
  /\ out' = <<>>
  /\ IF IsLast(sent') THEN Finish("ok") ELSE pc' = "fill" /\ UNCHANGED report
  /\ UNCHANGED <<zip, cap, streamer, infl>>

\* It refuses, or the answer is lost with the block or after it was taken.
BlockFails ==
  /\ pc = "send" /\ out # <<>>
  /\ sent' = sent + Len(out)
  /\ \/ card' = card
     \/ card.state = "loading" /\ blockNo = card.next /\ card' = Takes(IsLast(sent'))
  /\ Finish("error")
  /\ UNCHANGED <<zip, cap, streamer, infl, out, blockNo, blocksSent>>

\* The caller calls again, with the working set the last call left behind; the
\* rest of that call is gone.
LoadAgain ==
  /\ pc = "done"
  /\ pc' = "parse" /\ report' = "pending" /\ cap' = <<>>
  /\ comp' = 0 /\ emitted' = 0 /\ produced' = 0 /\ ended' = FALSE /\ started' = FALSE
  /\ out' = <<>> /\ sent' = 0 /\ blockNo' = 0 /\ blocksSent' = 0
  /\ UNCHANGED <<zip, infl, card>>

LoadNext ==
  \/ CapRejected \/ CapParsed \/ LoadTooLarge \/ InstallForLoad \/ InstallFails
  \/ EmitHeader \/ EmitStored \/ Pump \/ PumpFails \/ CopyOut \/ DeflateReturns
  \/ BlockFilled \/ NothingLeft \/ BlockAccepted \/ BlockFails

Next == LoadNext \/ LoadAgain

Spec == Init /\ [][Next]_vars

\* transmit returns (CardChannel!WorkflowsReturn), and the rest is computation.
FairSpec == Spec /\ WF_vars(LoadNext)

------------------------------------------------------------------------------
Place == Nat \X Nat

TypeOK ==
  /\ zip \in Archive /\ cap \in Seq(Location)
  /\ pc \in {"parse", "install", "fill", "send", "done"}
  /\ comp \in 0 .. Len(cap) + 1 /\ emitted \in Nat /\ produced \in Nat
  /\ ended \in BOOLEAN /\ started \in BOOLEAN
  /\ ring \in [0 .. Window - 1 -> Place] /\ inflating \in 0 .. Len(COMPONENT_NAMES)
  /\ out \in Seq(Place) /\ Len(out) <= BlockBytes
  /\ sent \in Nat /\ blockNo \in 0 .. MaxBlocks - 1 /\ blocksSent \in 0 .. MaxBlocks
  /\ report \in {"pending", "ok", "cap", "too large", "exists", "error"}
  /\ card \in [file : Seq(Place), next : 0 .. MaxBlocks - 1,
               state : {"idle", "loading", "loaded"}]

(***************************************************************************)
(* The load file of a well-formed CAP: the header, then each component of  *)
(* C.2 in its order, byte by byte, as its first entry in the ZIP has it.   *)
(***************************************************************************)
BytesOf(k) == [i \in 1 .. zip.entries[k].file.own |-> <<k, i>>]
FileUpTo ==
  LET file[r \in 0 .. Len(COMPONENT_NAMES)] ==
        IF r = 0 THEN [i \in 1 .. HeaderBytes |-> <<0, i>>]
        ELSE IF Named(zip, r) = {} THEN file[r - 1]
        ELSE file[r - 1] \o BytesOf(Min(Named(zip, r)))
  IN file
LoadFile == FileUpTo[Len(COMPONENT_NAMES)]

(***************************************************************************)
(* What the card is given of a well-formed CAP is a prefix of its load     *)
(* file at all times, in whatever order its ZIP lists its components and    *)
(* however they straddle blocks and wrap around the ring, and the block     *)
(* number is the one it expects.                                           *)
(***************************************************************************)
CardGetsTheFile ==
  WellFormed(zip) =>
    /\ IsPrefix(card.file, LoadFile)
    /\ pc = "send" => blockNo = card.next /\ IsPrefix(card.file \o out, LoadFile)

(***************************************************************************)
(* The load of a well-formed CAP is reported as done only when the card    *)
(* has it whole, in as few blocks as can hold it; it fails only by the     *)
(* card or the link; and the last block is flagged with the last byte.     *)
(***************************************************************************)
DoneMeansLoaded ==
  WellFormed(zip) =>
    /\ report \in {"ok", "exists"} => card.state = "loaded"
    /\ report = "ok" => blocksSent = (Total(cap) + BlockBytes - 1) \div BlockBytes
    /\ report # "cap"
    /\ card.state = "loaded" => card.file = LoadFile

(***************************************************************************)
(* The size check is done on what the ZIP's directory declares, the blocks *)
(* are cut from what its components hold.  Even where the two disagree no  *)
(* block number is used twice in a load, though it is counted in one byte. *)
(***************************************************************************)
BlockNumbersAreFresh == pc = "send" /\ out # <<>> => blocksSent < MaxBlocks

(***************************************************************************)
(* A byte waiting in the ring is not overwritten before it is copied out.  *)
(***************************************************************************)
RingKeepsPending ==
  \A i \in emitted + 1 .. produced : ring[(i - 1) % Window] = ByteOf(comp, i)

\* A load ends, whatever the CAP holds and the card answers.
LoadEnds == pc = "parse" ~> pc = "done"

(***************************************************************************)
(* docs/pdd.md: "Post-load: ELF in state LOADED".  A load reported as done *)
(* has left the package on the card.                                       *)
(***************************************************************************)
ReportedIsLoaded == report = "ok" => card.state = "loaded"
=============================================================================
