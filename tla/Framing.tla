------------------------------- MODULE Framing -------------------------------
(***************************************************************************)
(* How long everything is: the variant a caller opens a channel with, the  *)
(* size mode and level the two ends settle on, and then every command from *)
(* its builder through the wrap to the card, and its answer back.          *)
(*                                                                         *)
(* A field is its number of bytes.  A MAC is good when both ends count the *)
(* same commands and take it to have the same length; whether it is forged,*)
(* late or lost is the business of CardChannel, and nothing is lost here.  *)
(* Encryption is the padding it needs.  The caller's keys are the card's.  *)
(***************************************************************************)
EXTENDS Discovery, Integers

CONSTANTS
  CardIs,           \* `i' parameters a card may state in its INITIALIZE UPDATE answer
  CardKvns,         \* versions it may answer with
  Forced,           \* variants a caller may force
  RequestedKvns,    \* versions a caller may ask for: 0 leaves it to the card
  RequestedLevels,  \* levels a caller may ask for
  AidLens, HashLens, ParamLens, ChunkLens, RawLens,  \* sizes of a caller's fields
  AnswerLens,       \* data a card may answer with
  MaxCommands       \* bound: commands of one channel

CAPDU_MAX == 261
RAPDU_MAX == 258
LOAD_BLOCK_DATA_240 == 240   \* mutant: the size the header of ssd.rs still names
LOAD_BLOCK_DATA == 223

(***************************************************************************)
(* A level is a set of services, the bits of P1 of EXTERNAL AUTHENTICATE:  *)
(* 01, 02, 10 and 20.                                                      *)
(***************************************************************************)
Services == {"CMAC", "CDEC", "RMAC", "RENC"}

ASSUME FramingAssumption ==
  /\ CardIs \subseteq 0 .. 255 /\ CardKvns \subseteq 1 .. 255 /\ Forced \subseteq Variants
  /\ RequestedKvns \subseteq 0 .. 255 /\ RequestedLevels \subseteq SUBSET Services
  /\ AidLens \subseteq 5 .. 16 /\ HashLens \subseteq 0 .. 64 /\ ParamLens \subseteq 0 .. 255
  /\ ChunkLens \subseteq 1 .. LOAD_BLOCK_DATA /\ RawLens \subseteq 0 .. 255
  /\ AnswerLens \subseteq 0 .. 256 /\ MaxCommands \in Nat

(***************************************************************************)
(* The `i' parameter of SCP03: S16, pseudo-random challenges, R-MAC, R-ENC.*)
(***************************************************************************)
Bit(i, b) == (i \div b) % 2 = 1
I_S16(i) == Bit(i, 8)
I_PSEUDO_RANDOM(i) == Bit(i, 16)
I_RMAC(i) == Bit(i, 32)
I_RENC(i) == Bit(i, 64)

\* Bits of the above only, and no R-ENC without R-MAC.
i_supported(i) == i % 8 = 0 /\ i < 128 /\ (I_RENC(i) => I_RMAC(i))

\* Bytes of a challenge, a cryptogram or a MAC: ScpMode::field_len and mac_len.
FieldLen(i) == IF I_S16(i) THEN 16 ELSE 8
ModeOf(variant) == IF variant.scp = 3 THEN FieldLen(variant.i) ELSE 8

NoVariant == [scp |-> 0, i |-> 0]

\* The highest `i' in scope of SCP03; or the first SCP02 advertised.
Select(advertised, force) ==
  LET scp03 == {i \in 0 .. 255 : i_supported(i) /\ [scp |-> 3, i |-> i] \in Range(advertised)}
      scp02 == {n \in (1 .. MaxScpVariants) \cap DOMAIN advertised :
                  advertised[n] \in Variants /\ advertised[n].scp = 2}
  IN IF force # NoVariant THEN force
     ELSE IF scp03 # {} THEN [scp |-> 3, i |-> Max(scp03)]
     ELSE IF scp02 # {} THEN advertised[Min(scp02)]
     ELSE NoVariant

(***************************************************************************)
(* An answer to INITIALIZE UPDATE: the SCP it states, for SCP03 its `i'    *)
(* parameter, the key version and its length.                              *)
(***************************************************************************)
IuLen03(i) == 13 + 2 * FieldLen(i) + (IF I_PSEUDO_RANDOM(i) THEN 3 ELSE 0)

parse_iu_response03(iu) ==
  IF iu.len < 13 \/ iu.scp # 3 THEN "ScpProtocolUnsupported"
  ELSE IF ~i_supported(iu.i) THEN "NoCommonSecurityLevel"
  ELSE IF iu.len # IuLen03(iu.i) THEN "ScpProtocolUnsupported"
  ELSE "none"

parse_iu_response02(iu) ==
  IF iu.len # 28 \/ iu.scp # 2 THEN "ScpProtocolUnsupported" ELSE "none"

\* What cap_security_level leaves of a requested level: SCP03 goes by the card's
\* answer, SCP02 by the variant chosen before it.
Allowed03(i) ==
  {"CMAC", "CDEC"} \cup (IF I_RMAC(i) THEN {"RMAC"} ELSE {})
                   \cup (IF I_RENC(i) THEN {"RENC"} ELSE {})
Allowed02(i) == {"CMAC", "CDEC"} \cup (IF i \in {21, 85} THEN {"RMAC"} ELSE {})
Allowed(scp, i) == IF scp = 3 THEN Allowed03(i) ELSE Allowed02(i)

(***************************************************************************)
(* What a builder makes: the data it assembles and whether Le follows.     *)
(* push_lv prefixes a field with its length.                               *)
(***************************************************************************)
LV(n) == 1 + n
Command == [data : Nat, le : {"none", "zero", "other"}]
WithLe(data) == [data |-> data, le |-> "zero"]

\* An AES key is padded with zeroes to whole blocks: one of 24 bytes takes 32.  A
\* 3DES key is encrypted block by block.  Its length goes before an AES key only.
EncryptedLen03(key) == IF key = 24 THEN 32 ELSE key
EncryptedLen02(key) == key
KeyBlock(type, key) ==
  IF type = "AES" THEN 3 + EncryptedLen03(key) + 4 ELSE 2 + EncryptedLen02(key) + 4

put_key(type, key) == WithLe(1 + 3 * KeyBlock(type, key))
delete_object(aid) == WithLe(1 + LV(aid))
delete_key(scopes) == WithLe(3 * scopes)
get_status(qualifier) == WithLe(1 + LV(qualifier))
set_card_status(aid) == [data |-> aid, le |-> "none"]
load_block(chunk) == WithLe(chunk)
install_for_load(package, sd, hash) == WithLe(LV(package) + LV(sd) + LV(hash) + 2)
install_for_install_make_selectable(elf, module, instance, privileges, params) ==
  WithLe(LV(elf) + LV(module) + LV(instance) + LV(privileges) + LV(params) + 1)

\* 'C9' with the applet's parameters, 'EF' with the system's if there are any.
build_install_params(applet, system) ==
  1 + LV(applet) + (IF system = 0 THEN 0 ELSE 1 + LV(system))

\* transmit takes any APDU: of case 1 to 4, with whatever Le.
Raw(data, le) == [data |-> data, le |-> le]

\* Commands of a caller whose discovery found privileges to take `privlen' bytes;
\* a privilege of the second or third byte takes three in any case.
Callable(privlen) ==
  {put_key("AES", key) : key \in {16, 24, 32}} \cup {put_key("DES", 16)}
    \cup {delete_object(aid) : aid \in AidLens} \cup {delete_key(n) : n \in 1 .. 2}
    \cup {get_status(aid) : aid \in AidLens \cup {0}}
    \cup {set_card_status(aid) : aid \in AidLens}
    \cup {load_block(chunk) : chunk \in ChunkLens}
    \cup {install_for_load(aid, aid, hash) : aid \in AidLens, hash \in HashLens}
    \cup {install_for_install_make_selectable(aid, aid, aid, privileges,
                                            build_install_params(applet, system)) :
            aid \in AidLens, privileges \in {privlen, 3}, applet \in ParamLens, system \in {0, 5}}
    \cup {Raw(data, le) : data \in RawLens, le \in {"none", "zero", "other"}}

\* build: a data field longer than a short Lc overflows.
Builds(command) == command.data <= 255

(***************************************************************************)
(* A session, at either end: protocol, bytes of a MAC, level, and how many *)
(* commands have gone into its chain of C-MACs (and command counter).      *)
(***************************************************************************)
Session == [scp : {2, 3}, mac : {8, 16}, level : SUBSET Services, chain : Nat]
NoSession == [scp |-> 2, mac |-> 8, level |-> {}, chain |-> 0]

\* The marker 80 always goes in: whole blocks grow by one.
pad80(n) == n + (16 - (n % 16))
pad80_8(n) == n + (8 - (n % 8))

\* Encrypted in blocks of 16 bytes by SCP03, of 8 by SCP02.
Encrypts(session, data) == "CDEC" \in session.level /\ data > 0
Body03(session, data) == IF Encrypts(session, data) THEN pad80(data) ELSE data
Body02(session, data) == IF Encrypts(session, data) THEN pad80_8(data) ELSE data
Body(session, data) == IF session.scp = 3 THEN Body03(session, data) ELSE Body02(session, data)

WrappedLc(session, command) == Body(session, command.data) + session.mac

\* Without data the byte after the header is taken for Lc: an Le other than 00
\* then asks for data that is not there.
ReadsPlain(command) == command.data > 0 \/ command.le # "other"

\* SCP02 MACs the length before encryption and sends the one after: neither may
\* exceed a short Lc.
Wraps03(session, command) == ReadsPlain(command) /\ Body03(session, command.data) + session.mac <= 255
Wraps02(session, command) ==
  ReadsPlain(command) /\ command.data + 8 <= 255 /\ Body02(session, command.data) + 8 <= 255

\* Mutant: the limit is checked before the data is padded.
WrapsUnpadded(session, command) ==
  ReadsPlain(command) /\ command.data + session.mac <= 255

Wraps(session, command) ==
  IF session.scp = 3 THEN Wraps03(session, command) ELSE Wraps02(session, command)

\* SCP03 puts Le back after the C-MAC, if data kept it apart from Lc; SCP02 does not.
LeKept(session, command) == session.scp = 3 /\ command.data > 0 /\ command.le # "none"

Wrapped(session, command) ==
  [lc |-> WrappedLc(session, command) % 256,
   bytes |-> WrappedLc(session, command),
   le |-> LeKept(session, command),
   mac |-> session.mac,
   encrypted |-> Encrypts(session, command.data),
   clear |-> command.data,
   chain |-> session.chain + 1]

Committed(session) == [session EXCEPT !.chain = @ + 1]

(***************************************************************************)
(* The card reads a command by its own session.                            *)
(***************************************************************************)
Rejects == -1
CardReads(session, wire) ==
  LET body == wire.lc - session.mac
  IN IF \/ wire.lc # wire.bytes \/ wire.mac # session.mac \/ body < 0
        \/ wire.chain # session.chain + 1
        \/ wire.encrypted # ("CDEC" \in session.level /\ body > 0)
     THEN Rejects
     ELSE IF wire.encrypted THEN wire.clear ELSE body

\* 9000 and warnings are protected in SCP03; SCP02 protects every status, but a
\* card may leave its errors bare.
Statuses == {"ok", "warning", "error"}
Protected(session, sw, bare) ==
  IF session.scp = 3 THEN sw # "error" ELSE ~(bare /\ sw = "error")

Answer(session, n, sw, bare) ==
  LET protected == Protected(session, sw, bare)
      encrypted == "RENC" \in session.level /\ protected /\ n > 0
      mac == IF "RMAC" \in session.level /\ protected THEN session.mac ELSE 0
  IN [body |-> (IF encrypted THEN pad80(n) ELSE n) + mac, mac |-> mac,
      encrypted |-> encrypted, clear |-> n, sw |-> sw]

\* unwrap_inner: bytes of plain data, or Rejects.
SwIsProtectedAlways(sw) == TRUE   \* mutant: errors are taken to be protected too
sw_is_protected(sw) == sw # "error"

Unwrap03(session, answer) ==
  LET protected == sw_is_protected(answer.sw)
      mac == IF "RMAC" \in session.level /\ protected THEN session.mac ELSE 0
      data == answer.body - mac
  IN IF data < 0 \/ answer.mac < mac THEN Rejects
     ELSE IF "RENC" \notin session.level \/ ~protected \/ data = 0 THEN data
     ELSE IF data % 16 # 0 \/ ~answer.encrypted THEN Rejects
     ELSE answer.clear

\* unwrap_rmac, and nothing to do at a level without R-MAC.
Unwrap02(session, answer) ==
  IF "RMAC" \notin session.level THEN answer.body
  ELSE IF answer.body < 8 \/ answer.mac < 8 THEN Rejects
  ELSE answer.body - 8

Unwrap(session, answer) ==
  IF session.scp = 3 THEN Unwrap03(session, answer) ELSE Unwrap02(session, answer)

-----------------------------------------------------------------------------
VARIABLES
  stage,    \* "closed", "iu", "ea", "open", "sent", "answered" or "broken"
  ask,      \* what the caller asked for: variant, key version, level
  ses,      \* the backend's session
  sd,       \* the card's
  sdI,      \* the `i' the card goes by
  kvn,      \* the version the card answered with
  plain,    \* the command under way
  wire,     \* what was sent of it
  heard,    \* what the card took it for: bytes of data, or Rejects
  reply,    \* what the card answered
  told,     \* what it had to say: bytes of data and status
  got,      \* what the caller got
  outcome   \* how the last call of the channel ended

channelVars == <<stage, ask, ses, sd, sdI, kvn, plain, wire, heard, reply, told, got, outcome>>
vars == <<discoveryVars, channelVars>>

NoAsk == [variant |-> NoVariant, kvn |-> 0, level |-> {}]
NoCommand == Raw(0, "none")
NoWire == Wrapped(NoSession, NoCommand)
Nothing == <<0, "ok">>
NoReply == Answer(NoSession, 0, "ok", FALSE)

ChannelInit ==
  /\ stage = "closed" /\ ask = NoAsk /\ ses = NoSession /\ sd = NoSession
  /\ sdI = 0 /\ kvn = 0 /\ plain = NoCommand /\ wire = NoWire
  /\ heard = 0 /\ reply = NoReply /\ told = Nothing /\ got = Nothing /\ outcome = "none"

Init == DiscoveryInit /\ ChannelInit

\* The call ends, and leaves the caller without a channel.
Ends(error) ==
  /\ stage' = "closed" /\ outcome' = error
  /\ ask' = NoAsk /\ ses' = NoSession /\ sd' = NoSession /\ sdI' = 0 /\ kvn' = 0
  /\ plain' = NoCommand /\ wire' = NoWire /\ heard' = 0
  /\ reply' = NoReply /\ told' = Nothing /\ got' = Nothing

OpenScp(force, version, level) ==
  LET variant == Select(info.scp, force) IN
  /\ pc = "known" /\ stage = "closed"
  /\ IF variant = NoVariant THEN Ends("ScpProtocolUnsupported")
     ELSE /\ stage' = "iu" /\ outcome' = "none"
          /\ ask' = [variant |-> variant, kvn |-> version, level |-> level]
          /\ UNCHANGED <<ses, sd, sdI, kvn, plain, wire, heard, reply, told, got>>
  /\ UNCHANGED discoveryVars

\* SELECT, INITIALIZE UPDATE or EXTERNAL AUTHENTICATE is refused, or lost.
OpenFails ==
  /\ stage \in {"iu", "ea"}
  /\ Ends("refused")
  /\ UNCHANGED discoveryVars

\* What begin refuses, in its order: the answer itself, another key version than
\* a pinned one, a challenge of another size than the mode of the answer's `i',
\* and a level of which nothing is left.
LengthsUnchecked(iu) == FALSE   \* mutant: derive takes a challenge of any length
LengthsDisagree(iu) == ModeOf(ask.variant) # FieldLen(iu.i)
WrongKvn(iu) == ask.kvn # 0 /\ iu.kvn # ask.kvn

Begin03Error(iu) ==
  IF parse_iu_response03(iu) # "none" THEN parse_iu_response03(iu)
  ELSE IF WrongKvn(iu) THEN "KvnMismatch"
  ELSE IF LengthsDisagree(iu) THEN "Backend"
  ELSE IF ask.level \cap Allowed03(iu.i) = {} THEN "NoCommonSecurityLevel"
  ELSE "none"

Begin02Error(iu) ==
  IF parse_iu_response02(iu) # "none" THEN parse_iu_response02(iu)
  ELSE IF WrongKvn(iu) THEN "KvnMismatch"
  ELSE IF ask.level \cap Allowed02(ask.variant.i) = {} THEN "NoCommonSecurityLevel"
  ELSE "none"

BeginError(iu) == IF ask.variant.scp = 3 THEN Begin03Error(iu) ELSE Begin02Error(iu)
EffectiveI(iu) == IF ask.variant.scp = 3 THEN iu.i ELSE ask.variant.i

\* The session begin derives, with EXTERNAL AUTHENTICATE wrapped and its level latched.
Begun(iu) ==
  [scp |-> ask.variant.scp,
   mac |-> IF ask.variant.scp = 3 THEN FieldLen(iu.i) ELSE 8,
   level |-> ask.level \cap Allowed(ask.variant.scp, EffectiveI(iu)), chain |-> 1]
EaWire(session) == Wrapped([session EXCEPT !.level = {}, !.chain = 0],
                           Raw(session.mac, "none"))

IuAnswered(iu) ==
  /\ stage = "iu"
  /\ IF BeginError(iu) # "none" THEN Ends(BeginError(iu))
     ELSE /\ stage' = "ea" /\ ses' = Begun(iu) /\ wire' = EaWire(Begun(iu))
          /\ sd' = [scp |-> iu.scp, mac |-> IF iu.scp = 3 THEN FieldLen(iu.i) ELSE 8,
                    level |-> {}, chain |-> 0]
          /\ sdI' = EffectiveI(iu) /\ kvn' = iu.kvn
          /\ UNCHANGED <<ask, plain, heard, reply, told, got, outcome>>
  /\ UNCHANGED discoveryVars

\* The levels a card may be asked for: never without C-MAC, R-ENC only with all
\* the rest.  It may still refuse one (OpenFails).
CardTakes(level) ==
  "CMAC" \in level /\ ("RENC" \in level => level = Services)

EaAccepted ==
  /\ stage = "ea"
  /\ CardReads(sd, wire) = wire.clear /\ CardTakes(ses.level)
  /\ stage' = "open" /\ outcome' = "ok"
  /\ sd' = [Committed(sd) EXCEPT !.level = ses.level]
  /\ wire' = NoWire
  /\ UNCHANGED <<discoveryVars, ask, ses, sdI, kvn, plain, heard, reply, told, got>>

\* A command that cannot be built or wrapped is refused before anything changes.
Refused(command) == ~Builds(command) \/ ~Wraps(ses, command)

\* Mutant: the chain is committed before the length is checked.
SendRefusedLate(command) ==
  /\ stage = "open" /\ Refused(command)
  /\ ses' = Committed(ses) /\ outcome' = "Backend"
  /\ UNCHANGED <<discoveryVars, stage, ask, sd, sdI, kvn, plain, wire, heard, reply,
                 told, got>>

SendRefused(command) ==
  /\ stage = "open" /\ Refused(command)
  /\ outcome' = IF Builds(command) THEN "Backend" ELSE "Build"
  /\ UNCHANGED <<discoveryVars, stage, ask, ses, sd, sdI, kvn, plain, wire, heard,
                 reply, told, got>>

Send(command) ==
  /\ stage = "open" /\ ~Refused(command) /\ ses.chain <= MaxCommands
  /\ stage' = "sent" /\ outcome' = "none"
  /\ plain' = command
  /\ wire' = Wrapped(ses, command)
  /\ ses' = Committed(ses)
  /\ UNCHANGED <<discoveryVars, ask, sd, sdI, kvn, heard, reply, told, got>>

\* The card executes what it reads, or answers a bare error to what it rejects.
\* An R-APDU holds so much: the card sends no more.
CardAnswers(n, sw, bare) ==
  LET read == CardReads(sd, wire)
      status == IF read = Rejects THEN "error" ELSE sw
      answer == Answer(sd, n, status, bare \/ read = Rejects)
  IN /\ stage = "sent"
     /\ status = "error" => n = 0
     /\ answer.body <= RAPDU_MAX - 2
     /\ stage' = "answered"
     /\ heard' = read /\ reply' = answer /\ told' = <<n, status>>
     /\ sd' = IF read = Rejects THEN sd ELSE Committed(sd)
     /\ UNCHANGED <<discoveryVars, ask, ses, sdI, kvn, plain, wire, got, outcome>>

\* The caller gets the data and status, or the session is torn down.
Receive ==
  LET data == Unwrap(ses, reply) IN
  /\ stage = "answered"
  /\ IF data = Rejects
     THEN stage' = "broken" /\ outcome' = "Backend" /\ UNCHANGED got
     ELSE stage' = "open" /\ outcome' = "ok" /\ got' = <<data, reply.sw>>
  /\ plain' = NoCommand /\ wire' = NoWire /\ heard' = 0 /\ reply' = NoReply
  /\ UNCHANGED <<discoveryVars, ask, ses, sd, sdI, kvn, told>>

CloseChannel ==
  /\ stage \in {"open", "broken"}
  /\ Ends("none")
  /\ UNCHANGED discoveryVars

IuAnswers == {iu \in [scp : {2, 3}, i : CardIs, kvn : CardKvns, len : {12, 28, 29, 32, 45, 48}] :
                iu.scp = 2 => iu.i = CHOOSE i \in CardIs : TRUE}

Next ==
  \/ DiscoveryNext /\ UNCHANGED channelVars
  \/ \E force \in Forced \cup {NoVariant}, version \in RequestedKvns,
        level \in RequestedLevels : OpenScp(force, version, level)
  \/ OpenFails
  \/ \E iu \in IuAnswers : IuAnswered(iu)
  \/ EaAccepted
  \/ \E command \in Callable(info.privlen) : SendRefused(command) \/ Send(command)
  \/ \E n \in AnswerLens, sw \in Statuses, bare \in BOOLEAN : CardAnswers(n, sw, bare)
  \/ Receive
  \/ CloseChannel

Spec == Init /\ [][Next]_vars

-----------------------------------------------------------------------------
FramingTypeOK ==
  /\ stage \in {"closed", "iu", "ea", "open", "sent", "answered", "broken"}
  /\ ask \in [variant : Variants \cup {NoVariant}, kvn : 0 .. 255, level : SUBSET Services]
  /\ ses \in Session /\ sd \in Session
  /\ sdI \in 0 .. 255 /\ kvn \in 0 .. 255
  /\ plain \in Command
  /\ wire.bytes \in 0 .. 255 /\ wire.chain \in Nat /\ wire.mac \in {8, 16}
  /\ heard \in -1 .. 255 /\ reply.body \in 0 .. RAPDU_MAX - 2
  /\ told \in (0 .. 256) \X Statuses /\ got \in (0 .. 256) \X Statuses

\* Once a channel is open the two ends hold the same session, on the terms of the
\* caller: a level it asked for and the card's `i' offers, the version it pinned,
\* and the size mode in which it drew its challenge, though the variant it chose
\* from was advertised long before the card answered with another.
AgreedParameters ==
  stage \in {"open", "sent", "answered"} =>
    /\ ses.scp = sd.scp /\ ses.mac = sd.mac /\ ses.level = sd.level
    /\ ses.scp = ask.variant.scp
    /\ ses.mac = ModeOf(ask.variant)
    /\ ses.level # {} /\ ses.level \subseteq ask.level
    /\ ses.level \subseteq Allowed(ses.scp, sdI)
    /\ ask.kvn \in {0, kvn}

\* Whatever the builder, the level and the mode, the card finds in the bytes sent
\* the data that was to be sent, within one short APDU.  What is refused on the
\* host for its length leaves both ends where they were, and the channel usable.
CardReadsTheCommand ==
  /\ stage = "open" => ses.chain = sd.chain
  /\ stage \in {"sent", "answered"} =>
       5 + wire.bytes + (IF wire.le THEN 1 ELSE 0) <= CAPDU_MAX
  /\ stage = "answered" => heard = plain.data /\ heard = wire.clear

\* The caller gets the data and the status the card answered with, whatever was
\* added to them; a card's error ends a channel only where SCP02 wants it MACed
\* and the card left it bare.
AnswersAreRead ==
  /\ stage = "open" /\ ses.chain > 1 => got = told
  /\ stage = "broken" => ses.scp = 2 /\ told[2] = "error"

\* A LOAD block of any size the parser cuts is never refused, whichever channel is
\* open, and the sizes of LOAD_BLOCK_DATA rely on no level being out of use.
LoadBlocksFit ==
  stage = "open" => \A n \in 1 .. LOAD_BLOCK_DATA : ~Refused(load_block(n))
=============================================================================
