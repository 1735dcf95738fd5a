------------------------------ MODULE Discovery ------------------------------
(***************************************************************************)
(* discover_card: reset, SELECT of the issuer security domain, then one    *)
(* GET DATA per object the card may hold, each of which it may not have.   *)
(* What comes out, the CardInfo, is what the caller opens a channel with   *)
(* (Framing): the SCP variants to choose from, the keysets, the encoding   *)
(* of privileges.                                                          *)
(*                                                                         *)
(* A template is what its TLVs say: a sequence of entries, or broken.  The *)
(* outer tag a card may leave out changes nothing and is not modelled, nor *)
(* are the objects kept for diagnosis (IIN, CIN, raw templates, ATR) beyond*)
(* the answers that make their exchange fail.                              *)
(***************************************************************************)
EXTENDS Naturals, Sequences, FiniteSets, SequencesExt

CONSTANTS
  Cards,            \* what a card may be
  MaxScpVariants,   \* MAX_SCP_VARIANTS
  MaxKeysets,       \* MAX_KEYSETS
  MaxKeysPerSet     \* MAX_KEYS_PER_SET

ASSUME MaximaAssumption ==
  MaxScpVariants \in Nat \ {0} /\ MaxKeysets \in Nat /\ MaxKeysPerSet \in Nat \ {0}

(***************************************************************************)
(* An SCP variant is a protocol and its `i' parameter.  An answer to GET   *)
(* DATA is "ok" with data, "absent" (6A88, or 9000 with nothing), or       *)
(* "refused" (any other status).                                           *)
(***************************************************************************)
Variants == [scp : {2, 3}, i : 0 .. 255]
FALLBACK_SCP == [scp |-> 2, i |-> 85]
Objects == <<"crd", "kit", "cci", "iin", "cin", "cplc">>

\* A 'C0' of a key information template: the identifier and the version, one byte
\* each, then the types of the keys (the rarer ones are one), or the mark of the
\* extended format.
KeyTypes == {"DES", "AES", "other"}
KeyEntries == [kid : 0 .. 255, kvn : 0 .. 255, types : Seq(KeyTypes), extended : BOOLEAN,
               short : BOOLEAN]

ASSUME TemplatesAssumption == \A c \in Cards : c.kit.entries \in Seq(KeyEntries)

VARIABLES
  card,    \* what the card holds: its FCI, and an answer to each GET DATA
  pc,      \* the exchange under way; "idle" before discovery, "known" after it
  given,   \* whether the caller named the ISD
  info,    \* the CardInfo as far as it has been filled in
  result   \* how the last call ended

discoveryVars == <<card, pc, given, info, result>>

NoInfo == [scp |-> <<>>, keysets |-> <<>>, extended |-> FALSE, channels |-> 1,
           privlen |-> 3, warnings |-> {}]

DiscoveryInit ==
  /\ card \in Cards
  /\ pc = "idle" /\ given = FALSE /\ info = NoInfo /\ result = "none"

DiscoveryFails(error) ==
  pc' = "idle" /\ info' = NoInfo /\ result' = error /\ UNCHANGED <<card, given>>

(***************************************************************************)
(* The decoders.                                                           *)
(***************************************************************************)
\* parse_card_recognition: entries of other protocols, or without an OID, are dropped.
UsableVariants(entries) ==
  LET Representable(e) == e.scp \in {2, 3} IN SelectSeq(entries, Representable)

\* Keys of one 'C0': one per type and length; one of unknown type in extended format.
KeysOf(entry) ==
  IF entry.extended THEN <<[kid |-> entry.kid, type |-> "B9"]>>
  ELSE [n \in 1 .. Len(entry.types) |-> [kid |-> entry.kid, type |-> entry.types[n]]]

\* Mutant: a version is looked for in the last keyset only.
PushKeyLast(keysets, kvn, key) ==
  IF keysets # <<>> /\ Last(keysets).kvn = kvn
  THEN [keysets EXCEPT ![Len(keysets)].keys = Append(@, key)]
  ELSE Append(keysets, [kvn |-> kvn, keys |-> <<key>>])

\* push_key: under its version if that is listed, as a new keyset otherwise.
PushKey(keysets, kvn, key) ==
  IF \E n \in DOMAIN keysets : keysets[n].kvn = kvn
  THEN [n \in DOMAIN keysets |->
          IF keysets[n].kvn = kvn
          THEN [keysets[n] EXCEPT !.keys = Append(@, key)] ELSE keysets[n]]
  ELSE Append(keysets, [kvn |-> kvn, keys |-> <<key>>])

\* The keys of the first n entries of a template, in order, each with its version; a
\* 'C0' of fewer than two bytes is skipped.
KeysUpTo(entries) ==
  LET WithVersion(e) == [k \in 1 .. Len(KeysOf(e)) |-> <<e.kvn, KeysOf(e)[k]>>]
      upto[n \in 0 .. Len(entries)] ==
        IF n = 0 THEN <<>>
        ELSE IF entries[n].short THEN upto[n - 1]
        ELSE upto[n - 1] \o WithVersion(entries[n])
  IN upto
KeysIn(entries) == KeysUpTo(entries)[Len(entries)]

\* The first n of them pushed one after the other.
KeysetsUpTo(keys) ==
  LET upto[n \in 0 .. Len(keys)] ==
        IF n = 0 THEN <<>> ELSE PushKey(upto[n - 1], keys[n][1], keys[n][2])
  IN upto
Keysets(entries) == LET keys == KeysIn(entries) IN KeysetsUpTo(keys)[Len(keys)]

TooManyKeys(keysets) ==
  Len(keysets) > MaxKeysets \/ \E n \in DOMAIN keysets : Len(keysets[n].keys) > MaxKeysPerSet

(***************************************************************************)
(* The exchanges.                                                          *)
(***************************************************************************)
Discover(named) ==
  /\ pc = "idle"
  /\ pc' = "select" /\ given' = named /\ info' = NoInfo /\ result' = "none"
  /\ UNCHANGED card

\* The reset or an exchange fails on the link.
DiscoveryLinkFails ==
  pc \notin {"idle", "known"} /\ DiscoveryFails("transport")

\* An AID the caller gives is taken as it is; otherwise the FCI must hold one.
SelectIsd ==
  /\ pc = "select"
  /\ \/ card.fci = "refused" /\ DiscoveryFails("Card")
     \/ ~given /\ card.fci = "broken" /\ DiscoveryFails("Tlv")
     \/ ~given /\ card.fci = "unnamed" /\ DiscoveryFails("IsdAidNotFound")
     \/ /\ card.fci = "named" \/ (given /\ card.fci # "refused")
        /\ pc' = Objects[1] /\ UNCHANGED <<card, given, info, result>>

\* What follows an object: the next one, or the return of the CardInfo.
GoOn(found) ==
  /\ info' = found
  /\ IF pc = "cplc" THEN pc' = "known" /\ result' = "ok"
     ELSE /\ \E n \in DOMAIN Objects : Objects[n] = pc /\ pc' = Objects[n + 1]
          /\ UNCHANGED result
  /\ UNCHANGED <<card, given>>

Warn(found, warning) == [found EXCEPT !.warnings = @ \cup {warning}]

\* Without a usable variant SCP02 is assumed, and the caller warned.
WithVariants(variants) ==
  IF variants = <<>>
  THEN [Warn(info, "CardRecognitionDataMissing") EXCEPT !.scp = <<FALLBACK_SCP>>]
  ELSE [info EXCEPT !.scp = variants]

ReadCrd ==
  /\ pc = "crd"
  /\ \/ card.crd.answer = "absent" /\ GoOn(WithVariants(<<>>))
     \/ card.crd.answer = "refused" /\ DiscoveryFails("Card")
     \/ /\ card.crd.answer = "ok"
        /\ IF card.crd.broken \/ Len(UsableVariants(card.crd.entries)) > MaxScpVariants
           THEN DiscoveryFails("Tlv")
           ELSE GoOn(WithVariants(UsableVariants(card.crd.entries)))

ReadKit ==
  /\ pc = "kit"
  /\ \/ card.kit.answer = "absent" /\ GoOn(Warn(info, "KeyInformationTemplateMissing"))
     \/ card.kit.answer = "refused" /\ DiscoveryFails("Card")
     \/ /\ card.kit.answer = "ok"
        /\ LET keysets == Keysets(card.kit.entries)
           IN IF card.kit.broken \/ TooManyKeys(keysets) THEN DiscoveryFails("Tlv")
              ELSE GoOn([info EXCEPT
                !.keysets = keysets,
                !.extended = \E n \in DOMAIN card.kit.entries :
                               ~card.kit.entries[n].short /\ card.kit.entries[n].extended])

\* channels is the value of 'A0': nothing when it is missing or empty.
ReadCci ==
  /\ pc = "cci"
  /\ \/ card.cci.answer = "absent" /\ GoOn(Warn(info, "CardCapabilityInfoMissing"))
     \/ card.cci.answer = "refused" /\ DiscoveryFails("Card")
     \/ /\ card.cci.answer = "ok"
        /\ IF card.cci.broken THEN DiscoveryFails("Tlv")
           ELSE GoOn(IF card.cci.channels = <<>> THEN info
                     ELSE [info EXCEPT !.channels = Head(card.cci.channels)])

\* Kept for diagnosis: missing ones are not even warned about.
ReadDiagnostic ==
  /\ pc \in {"iin", "cin"}
  /\ \/ card.diagnostics = "refused" /\ DiscoveryFails("Card")
     \/ card.diagnostics # "refused" /\ GoOn(info)

\* NXP JCOP wants one byte of privileges, everything else three.
ReadCplc ==
  /\ pc = "cplc"
  /\ \/ card.cplc = "refused" /\ DiscoveryFails("Card")
     \/ card.cplc = "JCOP" /\ GoOn([info EXCEPT !.privlen = 1])
     \/ card.cplc \in {"absent", "other"} /\ GoOn(info)

DiscoveryNext ==
  \/ \E named \in BOOLEAN : Discover(named)
  \/ DiscoveryLinkFails
  \/ SelectIsd \/ ReadCrd \/ ReadKit \/ ReadCci \/ ReadDiagnostic \/ ReadCplc

-----------------------------------------------------------------------------
\* Those of the first n keys that are listed under a version: SelectSeq, written so
\* that proofs can follow it.
UnderUpTo(keys, kvn) ==
  LET upto[n \in 0 .. Len(keys)] ==
        IF n = 0 THEN <<>>
        ELSE IF keys[n][1] = kvn THEN Append(upto[n - 1], keys[n]) ELSE upto[n - 1]
  IN upto

\* What a discovery that succeeds tells is what the card holds, in the card's
\* order and up to nothing: every SCP02 or SCP03 variant it advertises, and for
\* each key version all the keys the card lists under it, once.  A card that
\* holds more than the CardInfo can is an error, never a shorter list; SCP02 is
\* assumed only for a card that advertises nothing usable, and never unsaid.
DiscoveryTellsTheCard ==
  pc = "known" =>
    LET usable == IF card.crd.answer = "ok" THEN UsableVariants(card.crd.entries) ELSE <<>>
        keys == IF card.kit.answer = "ok" THEN KeysIn(card.kit.entries) ELSE <<>>
        Listed(kvn) == {n \in DOMAIN info.keysets : info.keysets[n].kvn = kvn}
    IN /\ \/ info.scp = usable
          \/ /\ usable = <<>> /\ info.scp = <<FALLBACK_SCP>>
             /\ "CardRecognitionDataMissing" \in info.warnings
       /\ \A n \in DOMAIN keys : Cardinality(Listed(keys[n][1])) = 1
       /\ \A n \in DOMAIN info.keysets :
            LET set == info.keysets[n]
            IN /\ [k \in DOMAIN set.keys |-> <<set.kvn, set.keys[k]>>] =
                    UnderUpTo(keys, set.kvn)[Len(keys)]
               /\ set.keys # <<>>
=============================================================================
