---------------------------- MODULE CardInventory ----------------------------
(***************************************************************************)
(* get_card_inventory: GET STATUS over three scopes of the card's registry,*)
(* each answered in pages that cut the TLV stream at any byte; the pages   *)
(* of a scope are accumulated, parsed once, and stored in bounded lists.   *)
(*                                                                         *)
(* A scope's stream is the concatenation of its entries.  A byte is named  *)
(* by the entry it belongs to and its place in it, so that what a buffer   *)
(* parses to can be said without decoding it.  Each exchange is one step:  *)
(* that an answer belongs to its command is the business of CardChannel.   *)
(***************************************************************************)
EXTENDS Naturals, Sequences, FiniteSets, SequencesExt

CONSTANTS
  Registries,       \* what a card may hold: for each scope, a sequence of entries
  MaxSds,           \* MAX_SDS
  MaxApplets,       \* MAX_APPLETS
  MaxElfs,          \* MAX_ELFS
  MaxModules,       \* MAX_MODULES_PER_ELF
  MaxTlvs,          \* MAX_TLVS, and MAX_REGISTRY_ENTRIES, which is the same
  MaxStatusPages,   \* MAX_STATUS_PAGES
  PageBytes,        \* bytes an R-APDU may carry
  MaxScopeBytes     \* MAX_STATUS_SCOPE_BYTES

(***************************************************************************)
(* An entry is a TLV of `size' bytes.  Its kind says what the workflow     *)
(* tells apart: the ISD, another security domain, an application, a load   *)
(* file, an entry without a valid AID, one whose inner TLVs are broken,    *)
(* and garbage, whose length runs past the end of whatever follows.  A load*)
(* file lists its modules, a TLV each, beside the one of its AID.          *)
(***************************************************************************)
Scopes == {"isd", "app", "elf"}
Kinds == {"isd", "sd", "applet", "elf", "no AID", "broken", "garbage"}
Entry == [kind : Kinds, size : Nat \ {0}, modules : Nat]

ASSUME RegistriesAssumption == Registries \subseteq [Scopes -> Seq(Entry)]
ASSUME LimitsAssumption ==
  /\ MaxSds \in Nat /\ MaxApplets \in Nat /\ MaxElfs \in Nat
  /\ MaxModules \in Nat /\ MaxTlvs \in Nat
  /\ MaxStatusPages \in Nat /\ PageBytes \in Nat
  /\ MaxScopeBytes \in Nat /\ MaxScopeBytes >= MaxStatusPages * PageBytes

VARIABLES
  registry,    \* the card's registry, which a scan does not change
  cursor,      \* bytes of the current scope the card has served
  given,       \* whether the caller names the ISD by its full AID
  pc,          \* "page", "store" or "done"
  scope,       \* the scope being read
  page,        \* pages asked for in this scope
  p2,          \* "first" or "next"
  buf,         \* bytes accumulated in this scope
  good,        \* length of the last prefix of buf that parsed
  truncated,   \* something was cut short: InventoryTruncated
  sds, applets, elfs,  \* the inventory so far, entries named <<scope, n>>
  modules,     \* how many modules of each load file in elfs are listed
  report,      \* what the call returned
  dropped      \* history: entries read, then thrown away on a 6A88

vars == <<registry, cursor, given, pc, scope, page, p2, buf, good, truncated,
          sds, applets, elfs, modules, report, dropped>>
lists == <<sds, applets, elfs, modules>>

\* Entries and bytes by name.
Named == Scopes \X Nat
Byte == [n : Nat \ {0}, i : Nat \ {0}]
Stream(s) ==
  FlattenSeq([n \in DOMAIN registry[s] |->
                [i \in 1 .. registry[s][n].size |-> [n |-> n, i |-> i]]])

\* The members of T among the first n of a list, for each n; and in all of it, which
\* is SelectSeq written so that proofs can follow it.
SelectionUpTo(list, T) ==
  LET upto[n \in 0 .. Len(list)] ==
        IF n = 0 THEN <<>>
        ELSE IF list[n] \in T THEN Append(upto[n - 1], list[n])
        ELSE upto[n - 1]
  IN upto
Selection(list, T) == SelectionUpTo(list, T)[Len(list)]

(***************************************************************************)
(* tlv::parse: whole entries, one after the other, at most MaxTlvs.        *)
(***************************************************************************)
EntryOf(b) == registry[scope][b.n]
IsLastByte(b) == b.i = EntryOf(b).size /\ EntryOf(b).kind # "garbage"
Follows(b, c) == c.n = b.n /\ c.i = b.i + 1
Heads(bytes) == Selection(bytes, [n : Nat \ {0}, i : {1}])

Parses(bytes) ==
  /\ \A j \in DOMAIN bytes : bytes[j].i > 1 => j > 1 /\ Follows(bytes[j - 1], bytes[j])
  /\ \A j \in DOMAIN bytes : ~ IsLastByte(bytes[j]) =>
                                j < Len(bytes) /\ Follows(bytes[j], bytes[j + 1])
  /\ Len(Heads(bytes)) <= MaxTlvs

EntriesIn(bytes) == [j \in DOMAIN Heads(bytes) |-> <<scope, Heads(bytes)[j].n>>]

KindOf(e) == registry[e[1]][e[2]].kind
ModulesOf(e) == registry[e[1]][e[2]].modules

------------------------------------------------------------------------------
StartScope(s) ==
  /\ scope' = s /\ pc' = "page" /\ page' = 0 /\ p2' = "first"
  /\ buf' = <<>> /\ good' = 0

Init ==
  /\ registry \in Registries
  /\ given \in {"full", "partial"}
  /\ scope = "isd" /\ pc = "page" /\ page = 0 /\ p2 = "first"
  /\ buf = <<>> /\ good = 0 /\ cursor = 0
  /\ truncated = FALSE
  /\ sds = <<>> /\ applets = <<>> /\ elfs = <<>> /\ modules = <<>>
  /\ report = "pending"
  /\ dropped = {}

(***************************************************************************)
(* The card: P2 = first starts the scope over, P2 = next resumes it.  It   *)
(* chooses how many bytes a page carries.  6310 says there is more (or so  *)
(* the card believes), 9000 that this was all, 6A88 that nothing is left.  *)
(***************************************************************************)
At == IF p2 = "first" THEN 0 ELSE cursor
Left == Len(Stream(scope)) - At

Reading == pc = "page" /\ page < MaxStatusPages

(***************************************************************************)
(* One pass of the paging loop answered by 9000 or 6310: the page is added *)
(* to the buffer; if the buffer parses, that is a checkpoint; if it does   *)
(* not although the card says it is complete, the scan is truncated.       *)
(***************************************************************************)
CheckpointAlways(all, ok) == Len(all)
Checkpoint(all, ok) == IF ok THEN Len(all) ELSE good

AskFirstAgain == p2
AskNext == "next"

PageCountWraps == (page + 1) % MaxStatusPages
PageCounted == page + 1

Page ==
  /\ Reading
  /\ \E k \in 0 .. PageBytes, more \in BOOLEAN :
       LET all == buf \o SubSeq(Stream(scope), At + 1, At + k)
           fits == Len(all) <= MaxScopeBytes
           ok == fits /\ Parses(all)
       IN  /\ k <= Left /\ (~ more => k = Left)
           /\ buf' = IF fits THEN all ELSE buf
           /\ good' = Checkpoint(all, ok)
           /\ truncated' = (truncated \/ ~ fits \/ (~ more /\ ~ ok))
           /\ pc' = IF more /\ fits THEN "page" ELSE "store"
           /\ cursor' = At + k
  /\ page' = PageCounted
  /\ p2' = AskNext
  /\ UNCHANGED <<registry, given, scope, lists, report, dropped>>

ScopeEmptyKeepsCheckpoint ==
  /\ Reading /\ Left = 0
  /\ dropped' = dropped \cup ToSet(EntriesIn(buf))
  /\ buf' = <<>>
  /\ pc' = "store"
  /\ UNCHANGED <<registry, cursor, given, scope, page, p2, good, truncated, lists, report>>

\* 6A88: the scope is returned empty, whatever earlier pages brought.
ScopeEmpty ==
  /\ Reading /\ Left = 0
  /\ dropped' = dropped \cup ToSet(EntriesIn(buf))
  /\ buf' = <<>> /\ good' = 0
  /\ pc' = "store"
  /\ UNCHANGED <<registry, cursor, given, scope, page, p2, truncated, lists, report>>

\* MAX_STATUS_PAGES asked for and still no 9000: what parsed last is kept.
PagesExhausted ==
  /\ pc = "page" /\ page = MaxStatusPages
  /\ truncated' = TRUE
  /\ pc' = "store"
  /\ UNCHANGED <<registry, cursor, given, scope, page, p2, buf, good, lists, report, dropped>>

\* Any other status word, a link or a backend error.
ScanFails ==
  /\ Reading
  /\ pc' = "done" /\ report' = "error"
  /\ UNCHANGED <<registry, cursor, given, scope, page, p2, buf, good, truncated,
                 lists, dropped>>

(***************************************************************************)
(* collect_scope: the prefix that parsed is decoded, entry by entry.  The  *)
(* ISD is recorded from its own scope; in the application scope an entry   *)
(* whose AID is the one the caller gave is skipped, and so are, there and  *)
(* among load files, entries without a valid AID.  A full list drops the   *)
(* entry and reports truncation.                                           *)
(***************************************************************************)
Skipped(e) ==
  \/ e[1] # "isd" /\ KindOf(e) = "no AID"
  \/ e[1] = "app" /\ KindOf(e) = "isd" /\ given = "full"

SortOf(e) ==
  CASE e[1] = "elf" -> "elf"
    [] e[1] = "isd" \/ (e[1] = "app" /\ KindOf(e) \in {"isd", "sd"}) -> "sd"
    [] OTHER -> "applet"

Keep(entries, sort) == Selection(entries, {e \in Named : SortOf(e) = sort /\ ~ Skipped(e)})
OverflowsSilently(list, max) == FALSE
Overflows(list, max) == Len(list) > max
Within(list, max) == SubSeq(list, 1, IF Len(list) < max THEN Len(list) ELSE max)

NextScope == [isd |-> "app", app |-> "elf", elf |-> "none"]

Stored == EntriesIn(SubSeq(buf, 1, good))
Decodes ==
  \A j \in DOMAIN Stored :
    KindOf(Stored[j]) # "broken" /\ 1 + ModulesOf(Stored[j]) <= MaxTlvs

\* The modules past the capacity are left out, and the entry counts as kept.
ModulesListed(list) == [j \in DOMAIN list |-> Min({ModulesOf(list[j]), MaxModules})]

StoreScope ==
  /\ pc = "store" /\ Parses(SubSeq(buf, 1, good)) /\ Decodes
  /\ LET allSds == sds \o Keep(Stored, "sd")
         allApplets == applets \o Keep(Stored, "applet")
         allElfs == elfs \o Keep(Stored, "elf")
     IN  /\ sds' = Within(allSds, MaxSds)
         /\ applets' = Within(allApplets, MaxApplets)
         /\ elfs' = Within(allElfs, MaxElfs)
         /\ modules' = ModulesListed(elfs')
         /\ truncated' = (truncated \/ Overflows(allSds, MaxSds)
                                   \/ Overflows(allApplets, MaxApplets)
                                   \/ Overflows(allElfs, MaxElfs))
  /\ IF scope = "elf"
       THEN /\ pc' = "done" /\ report' = "ok"
            /\ UNCHANGED <<scope, page, p2, buf, good>>
       ELSE StartScope(NextScope[scope]) /\ UNCHANGED report
  /\ UNCHANGED <<registry, cursor, given, dropped>>

\* A prefix that does not decode after all is a hard error.
ScopeMalformed ==
  /\ pc = "store" /\ ~ (Parses(SubSeq(buf, 1, good)) /\ Decodes)
  /\ pc' = "done" /\ report' = "malformed"
  /\ UNCHANGED <<registry, cursor, given, scope, page, p2, buf, good, truncated,
                 lists, dropped>>

\* The caller takes the report and, later, asks again.
AskAgain ==
  /\ pc = "done"
  /\ StartScope("isd") /\ cursor' = 0
  /\ truncated' = FALSE /\ report' = "pending" /\ dropped' = {}
  /\ sds' = <<>> /\ applets' = <<>> /\ elfs' = <<>> /\ modules' = <<>>
  /\ UNCHANGED <<registry, given>>

ScanNext == Page \/ ScopeEmpty \/ PagesExhausted \/ ScanFails \/ StoreScope \/ ScopeMalformed

Next == ScanNext \/ AskAgain

Spec == Init /\ [][Next]_vars

\* transmit returns (CardChannel!WorkflowsReturn), and the rest is computation.
FairSpec == Spec /\ WF_vars(ScanNext)

------------------------------------------------------------------------------
TypeOK ==
  /\ registry \in Registries /\ given \in {"full", "partial"}
  /\ pc \in {"page", "store", "done"} /\ scope \in Scopes
  /\ cursor \in Nat /\ page \in 0 .. MaxStatusPages /\ p2 \in {"first", "next"}
  /\ buf \in Seq(Byte) /\ good \in 0 .. Len(buf)
  /\ truncated \in BOOLEAN
  /\ sds \in Seq(Named) /\ applets \in Seq(Named) /\ elfs \in Seq(Named)
  /\ modules \in Seq(0 .. MaxModules) /\ Len(modules) = Len(elfs)
  /\ Len(sds) <= MaxSds /\ Len(applets) <= MaxApplets /\ Len(elfs) <= MaxElfs
  /\ report \in {"pending", "ok", "malformed", "error"}
  /\ dropped \subseteq Named

(***************************************************************************)
(* What a list should hold: the entries of its sort, in the order of the   *)
(* registry, nothing twice.                                                *)
(***************************************************************************)
Whole(s) == [n \in DOMAIN registry[s] |-> <<s, n>>]
Expected(s, sort) == Keep(Whole(s), sort)
FromScope(list, s) == Selection(list, {s} \X Nat)

(***************************************************************************)
(* "a valid prefix, never an error": however the card cuts its pages and   *)
(* wherever a limit bites, each list is a prefix, scope by scope, of what  *)
(* the registry holds of its sort.  No entry is doubled, skipped over or   *)
(* taken for one of another sort.                                          *)
(***************************************************************************)
ListsArePrefixes ==
  /\ \A s \in {"isd", "app"} : IsPrefix(FromScope(sds, s), Expected(s, "sd"))
  /\ IsPrefix(applets, Expected("app", "applet"))
  /\ IsPrefix(elfs, Expected("elf", "elf"))

(***************************************************************************)
(* A report without InventoryTruncated is the whole inventory: every limit *)
(* that drops something says so.  The one exception is a card that ends a  *)
(* scope it has begun with 6A88 (see WhatWasReadIsKept).  The modules of a  *)
(* load file are cut at MaxModules without a word, and are left aside here.*)
(***************************************************************************)
NothingMissingSilently ==
  report = "ok" /\ ~ truncated /\ dropped = {} =>
    /\ sds = Expected("isd", "sd") \o Expected("app", "sd")
    /\ applets = Expected("app", "applet")
    /\ elfs = Expected("elf", "elf")

(***************************************************************************)
(* A limit never turns into an error: MalformedResponse is returned only   *)
(* for an entry whose own TLVs are broken, or more than tlv::parse holds.  *)
(***************************************************************************)
LimitsAreNoErrors ==
  report = "malformed" =>
    \E n \in DOMAIN registry[scope] :
      registry[scope][n].kind = "broken" \/ registry[scope][n].modules >= MaxTlvs

\* The scan ends even if the card answers 6310 for ever.
ScanEnds == pc = "page" ~> pc = "done"

(***************************************************************************)
(* collect_scope: "A 6A88 empty scope ends the scan cleanly with whatever  *)
(* was stored".  What had been read before it is reported.                 *)
(***************************************************************************)
WhatWasReadIsKept ==
  report = "ok" /\ ~ truncated =>
    \A e \in dropped : Skipped(e) \/ e \in ToSet(sds) \cup ToSet(applets) \cup ToSet(elfs)
=============================================================================
