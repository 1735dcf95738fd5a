-------------------------- MODULE SecureMessaging --------------------------
(***************************************************************************)
(* The host side of SCP02 / SCP03 secure messaging, as the RustCrypto      *)
(* backend keeps it: one slot of the session table per derived session,    *)
(* and what wrap, unwrap, derive and close do to a slot.                   *)
(*                                                                         *)
(* Cryptography is ideal.  A C-MAC is a function of the session keys and   *)
(* of every command wrapped under them so far (each C-MAC is computed over *)
(* the previous one), so the chaining value IS that sequence of commands;  *)
(* an R-MAC is a function of the session keys and of what its input        *)
(* chains.  Encryption hides data the properties never look at and is      *)
(* left out; the levels that matter here are "R-MAC requested" or not.     *)
(*                                                                         *)
(* One set of keys stands for one handshake.  SCP02 derives session keys   *)
(* from the sequence counter of the card alone, and a handshake that dies  *)
(* early may leave that counter, hence the keys, to the next one.  But     *)
(* every chain, of C-MACs as of R-MACs, starts from the MAC of that        *)
(* handshake's EXTERNAL AUTHENTICATE, which carries a cryptogram over its  *)
(* fresh challenge: chains of two handshakes never meet.                   *)
(*                                                                         *)
(* No variables: CardChannel applies these operators to its session table. *)
(***************************************************************************)
EXTENDS Naturals, Sequences

CONSTANTS
  Ops,               \* commands a caller may send in a session
  MaxSessionSlots    \* MAX_SESSION_SLOTS: slots of each protocol's table

\* EXTERNAL AUTHENTICATE, named by the level its P1 asks for.
EA(rmac) == IF rmac THEN "EA_RMAC" ELSE "EA_CMAC"
EACommands == {"EA_RMAC", "EA_CMAC"}
Commands == Ops \cup EACommands

ASSUME SlotsAssumption == MaxSessionSlots \in Nat \ {0}
ASSUME OpsAssumption == Ops \cap EACommands = {}

Protos == {"SCP02", "SCP03"}
SWs == {"ok", "error"}

(***************************************************************************)
(* A handle is an index into the table of its protocol: SCP02 and SCP03    *)
(* sessions live in separate tables.                                       *)
(***************************************************************************)
Handles == Protos \X (1 .. MaxSessionSlots)
NoHandle == <<"SCP03", 1>>

(***************************************************************************)
(* A slot holds the session keys (a number, 0 when the slot is free), the  *)
(* C-MAC chain, the level latched from EXTERNAL AUTHENTICATE and, for      *)
(* SCP02 only, the R-MAC chain and the command the next R-MAC covers.      *)
(***************************************************************************)
ExchangeRecord == [cmd : Seq(Commands), sw : SWs]

Slot == [key : Nat, authed : BOOLEAN, rmac : BOOLEAN, chain : Seq(Commands),
         rchain : Seq(ExchangeRecord), rbuf : Seq(Commands)]

FreshSlot(k) == [key |-> k, authed |-> FALSE, rmac |-> FALSE, chain |-> <<>>,
                 rchain |-> <<>>, rbuf |-> <<>>]
FreeSlot == FreshSlot(0)
IsFree(slot) == slot.key = 0

(***************************************************************************)
(* derive_session: the first free slot of the protocol's table, or the     *)
(* error "session table full".                                             *)
(***************************************************************************)
FirstIndex(table, p) == <<p, 1>>
FirstFree(table, p) ==
  CHOOSE h \in Handles :
    /\ h[1] = p /\ IsFree(table[h])
    /\ \A i \in 1 .. (h[2] - 1) : ~ IsFree(table[<<p, i>>])

TableFull(table, p) == \A i \in 1 .. MaxSessionSlots : ~ IsFree(table[<<p, i>>])

(***************************************************************************)
(* wrap_command.  It refuses a free slot, and anything but EXTERNAL        *)
(* AUTHENTICATE as the first command; the first command latches the level. *)
(* The chain is committed before the command is on the wire.               *)
(***************************************************************************)
CanWrap(slot, c) == ~ IsFree(slot) /\ (slot.authed \/ c \in EACommands)

WrapWithoutChaining(p, slot, c) ==
  [slot EXCEPT !.chain = <<c>>, !.authed = TRUE,
               !.rmac = IF slot.authed THEN @ ELSE c = EA(TRUE)]

Wrap(p, slot, c) ==
  [slot EXCEPT !.chain = Append(@, c),
               !.authed = TRUE,
               !.rmac = IF slot.authed THEN @ ELSE c = EA(TRUE),
               !.rbuf = IF p = "SCP02" /\ slot.authed /\ slot.rmac THEN <<c>> ELSE @]

(***************************************************************************)
(* unwrap_response.  An R-APDU carries its status word and, when the card  *)
(* protected it, an R-MAC: the keys and the chain it covers.  SCP03 checks *)
(* the R-MAC over the current C-MAC chain, and only under a success or     *)
(* warning status word: an error status word is passed through bare.       *)
(* SCP02 checks every response, over its own R-MAC chain extended with     *)
(* this exchange; that chain starts from the C-MAC of EXTERNAL             *)
(* AUTHENTICATE, which the session keys already stand for.                 *)
(***************************************************************************)
Exchange(slot, sw) == [cmd |-> slot.rbuf, sw |-> sw]

VerifyWithoutRMac(p, slot, r) == TRUE

Verify(p, slot, r) ==
  \/ ~ slot.rmac
  \/ p = "SCP03" /\ r.sw = "error"
  \/ p = "SCP03" /\ r.key = slot.key /\ r.chain = slot.chain
  \/ p = "SCP02" /\ r.key = slot.key
                 /\ r.rchain = Append(slot.rchain, Exchange(slot, r.sw))

KeepSlotOnFailure(p, slot, r) ==
  IF p = "SCP02" /\ slot.rmac /\ Verify(p, slot, r)
    THEN [slot EXCEPT !.rchain = r.rchain, !.rbuf = <<>>]
    ELSE slot

\* Any failure tears the session down: the slot is freed and its keys are gone.
Unwrap(p, slot, r) ==
  CASE ~ Verify(p, slot, r)         -> FreeSlot
    [] p = "SCP02" /\ slot.rmac
         /\ Verify(p, slot, r)      -> [slot EXCEPT !.rchain = r.rchain, !.rbuf = <<>>]
    [] OTHER                        -> slot
=============================================================================
