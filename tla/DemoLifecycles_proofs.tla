------------------------ MODULE DemoLifecycles_proofs ------------------------
(***************************************************************************)
(* For every card, factory keyset, configuration and number of faults: the *)
(* two programs lock nobody out, delete no keyset they are authenticated   *)
(* with, and report a cleanup only when they have cleaned.                 *)
(*                                                                         *)
(* The scripts are straight lines, so the invariant says at each of their  *)
(* positions what the instructions before it have achieved: with which     *)
(* keyset the session authenticated and that the card still holds it       *)
(* (InUse), which demo versions are gone (Swept), and what an answer that  *)
(* has not been acted on yet has shown (Heard).  Between runs nothing is   *)
(* known but NeverLockedOut: a run starts from whatever an earlier one,    *)
(* killed anywhere, has left.                                              *)
(***************************************************************************)
EXTENDS DemoLifecycles, ContentManagement_proofs

IsdScripts == {"rest", "isd_flow", "A", "B51", "B50"}
PathBs == {"B51", "B50"}

\* The demo keyset Path B opens the ISD with.
RescueKvn == IF run.script = "B51" THEN ISD_KVN_2 ELSE ISD_KVN_1
RescueKeys == IF run.script = "B51" THEN Ks2 ELSE Ks1

\* Where a run is in its script.
InPlace ==
  /\ run.script # "rest" => run.at \in 1 .. Len(Script)
  /\ run.demo = IF run.script \in IsdScripts THEN "isd" ELSE "ssd"
  /\ run.imported <= IF run.script = "ssd_rescue" THEN 12 ELSE 9

\* A call is the one the instruction asks for, with one of the selectors it tries.
Asks(c) ==
  /\ Here.do # "close"
  /\ c.op = Here.call.op /\ c.x = Here.call.x /\ c.value = Here.call.value /\ c.dek = Here.call.dek
  /\ IF Here.do = "call" THEN c.kvn = Here.call.kvn ELSE c.kvn <= 127

InHand ==
  /\ run.script = "rest" => call = NoCall /\ result = NoResult
  /\ call # NoCall => Asks(call)
  /\ result # NoResult => call = NoCall /\ Asks(result.call)
  /\ call = NoCall /\ result = NoResult => did = {}

DemoTypes ==
  /\ TypedInv
  /\ run \in RunType /\ faults \in 0 .. MaxFaults /\ cleaned \in {"no", "yes", "calmly"}

Placed == DemoTypes /\ InPlace /\ InHand

\* What isd-lifecycle takes for the original's key version is not a demo version.
Apart == run.demo = "isd" => run.orig \notin DemoKvns /\ run.cfg \notin DemoKvns

\* A key version that open_isd_original can reach: by its own number or by selector 0.
Reachable(c, kvn) == kvn <= 127 \/ kvn \in Selected(c, Isd, 0)

\* The session authenticated with the original keyset, which the card still holds.
WithOriginal ==
  /\ chan.sd = Isd /\ chan.value = IsdKeys /\ chan.kvn \in Kvns \ DemoKvns
  /\ card.keys[Isd][chan.kvn] = IsdKeys /\ Reachable(card, chan.kvn)

\* Where it is so: once cleanup is back on the original keyset.
OriginalInUse ==
  \/ run.script = "A" /\ run.at \in 3 .. 6
  \/ run.script \in PathBs /\ run.at \in 7 .. 9

InUse ==
  /\ OriginalInUse => WithOriginal
  /\ run.script \in PathBs /\ run.at \in 2 .. 4 =>
       chan.sd = Isd /\ chan.kvn = RescueKvn /\ chan.value = RescueKeys
  /\ run.script \in PathBs /\ run.at \in 2 .. 3 => card.keys[Isd][RescueKvn] = RescueKeys
  /\ run.script = "isd_flow" /\ run.at = 6 => chan.sd = Isd /\ chan.value = IsdKeys
  /\ run.script = "isd_flow" /\ run.at = 12 => chan.sd = Isd /\ chan.value = Ks1
  /\ run.script = "ssd_flow" /\ run.at \in {8, 18} => chan.sd = Ssd

OnIsd(kvn) == kvn \in Versions(card.keys[Isd])

\* Where a demo version has been deleted and not put again.
Without1 ==
  \/ run.script = "A" /\ run.at \in 5 .. 6
  \/ run.script \in PathBs /\ run.at \in 8 .. 9
  \/ run.script = "isd_flow" /\ run.at \in 1 .. 5
Without2 ==
  \/ run.script = "A" /\ run.at = 6
  \/ run.script \in PathBs /\ run.at = 9
  \/ run.script = "isd_flow" /\ run.at \in 1 .. 5
Swept == (Without1 => ~ OnIsd(ISD_KVN_1)) /\ (Without2 => ~ OnIsd(ISD_KVN_2))

\* What an answer that is still to be acted on says of the session and the card.
HeardOpen(r) ==
  r.call.op = "open_scp" /\ r.err = "none" =>
    /\ chan.sd = DomainOf(r.call.x) /\ chan.value = r.call.value /\ chan.kvn = r.report.kvn
    /\ chan.kvn \in Selected(card, chan.sd, r.call.kvn)
    /\ KeysOf(card, chan.sd)[chan.kvn] = chan.value
HeardDelete(r) ==
  r.call.op = "delete_sd_keyset" /\ r.err \in {"none", "KeyNotFound"} => ~ OnIsd(r.call.kvn)
Heard == result # NoResult => HeardOpen(result) /\ HeardDelete(result)

\* A cleanup that has just reported success, and nothing has been asked since.
Cleaned ==
  cleaned # "no" =>
    /\ call = NoCall /\ result = NoResult
    /\ DemoKvns \cap Versions(card.keys[Isd]) = {}
    /\ \E kvn \in Kvns : card.keys[Isd][kvn] = IsdKeys

\* No DELETE [key] before the one a call is waiting for.
NoneDropped == call # NoCall => \A e \in did : e.did # "dropped"

KeysInv == Apart /\ NoneDropped /\ InUse /\ Swept /\ Heard /\ Cleaned /\ ActiveKeysetKept

\* What a run without a fault knows besides: that the applet is gone.
DeletingApplet ==
  \/ run.script = "A" /\ run.at = 3
  \/ run.script \in PathBs /\ run.at = 2
AppletDeleted ==
  \/ run.script = "A" /\ run.at \in 4 .. 6
  \/ run.script \in PathBs /\ run.at \in 3 .. 9
Calm ==
  /\ run.calm /\ DeletingApplet =>
       chan.sync /\ (call.at = "second" \/ result # NoResult => ~ On(card, App))
  /\ run.calm /\ AppletDeleted => ~ On(card, App)
  /\ cleaned = "calmly" => ~ On(card, App)

------------------------------------------------------------------------------
(***************************************************************************)
(* The hypotheses of the theorems: what a user of the programs grants.     *)
(***************************************************************************)
\* The card's own keyset is neither of the two the demos bring.
KeysApart == IsdKeys \notin {Ks1, Ks2}

\* A card that says 6A88, referenced data not found, does not hold the data.
NotFoundIsTrue == "6A88" \notin Refusals

\* NeverLockedOut, of any card.
Addressable(c) ==
  \E kvn \in 0 .. 127 : \E k \in Selected(c, Isd, kvn) : c.keys[Isd][k] \in {IsdKeys, Ks1, Ks2}

------------------------------------------------------------------------------
(***************************************************************************)
(* What the scripts say                                                    *)
(***************************************************************************)
\* An instruction that is neither an open nor about keys.
Plain(i) ==
  /\ i.do = "call" /\ i.bear \subseteq Errors
  /\ i.call \in CallType /\ i.call.at = "first"
  /\ i.call.op \in {"transmit", "load_package", "install_applet", "delete_applet", "create_ssd", "delete_ssd"}

\* Opening a channel with a keyset of a given version and value.
LEMMA OpenIs ==
  ASSUME NEW x, NEW kvn, NEW value
  PROVE  /\ Open(x, kvn, value).do = "call" /\ Open(x, kvn, value).bear = {}
         /\ Open(x, kvn, value).call.op = "open_scp" /\ Open(x, kvn, value).call.x = x
         /\ Open(x, kvn, value).call.kvn = kvn /\ Open(x, kvn, value).call.value = value
         /\ Open(x, kvn, value).call.at = "first"
         /\ x \in Domains \cup Objects /\ kvn \in Nat /\ value \in KeyValues =>
              Open(x, kvn, value).call \in CallType
<1>1. NoCall \in CallType
  BY Quiet
<1>2. [NoCall EXCEPT !.op = "open_scp", !.x = x, !.kvn = kvn, !.value = value].at = "first"
  BY DEF NoCall
<1>3. x \in Domains \cup Objects /\ kvn \in Nat /\ value \in KeyValues =>
        [NoCall EXCEPT !.op = "open_scp", !.x = x, !.kvn = kvn, !.value = value] \in CallType
  BY <1>1 DEF CallType, Ops
<1>4. /\ [NoCall EXCEPT !.op = "open_scp", !.x = x, !.kvn = kvn, !.value = value].op = "open_scp"
      /\ [NoCall EXCEPT !.op = "open_scp", !.x = x, !.kvn = kvn, !.value = value].x = x
      /\ [NoCall EXCEPT !.op = "open_scp", !.x = x, !.kvn = kvn, !.value = value].kvn = kvn
      /\ [NoCall EXCEPT !.op = "open_scp", !.x = x, !.kvn = kvn, !.value = value].value = value
  BY DEF NoCall
<1> QED BY <1>2, <1>3, <1>4 DEF Open, Do

\* Opening a channel with the original keyset, under a selector yet to be found.
LEMMA OpenOriginalIs ==
  ASSUME NEW x
  PROVE  /\ OpenOriginal(x).do = "original" /\ OpenOriginal(x).bear = {}
         /\ OpenOriginal(x).call.op = "open_scp" /\ OpenOriginal(x).call.x = x
         /\ OpenOriginal(x).call.value = IsdKeys /\ OpenOriginal(x).call.at = "first"
         /\ x \in Domains \cup Objects =>
              \A kvn \in Nat : [OpenOriginal(x).call EXCEPT !.kvn = kvn] \in CallType
<1>1. NoCall \in CallType /\ IsdKeys \in KeyValues
  BY Quiet, DemoAssumption
<1>2. x \in Domains \cup Objects =>
        [NoCall EXCEPT !.op = "open_scp", !.x = x, !.value = IsdKeys] \in CallType
  BY <1>1 DEF CallType, Ops
<1>3. OpenOriginal(x).call = [NoCall EXCEPT !.op = "open_scp", !.x = x, !.value = IsdKeys]
  BY DEF OpenOriginal
<1>4. /\ OpenOriginal(x).call.op = "open_scp" /\ OpenOriginal(x).call.x = x
      /\ OpenOriginal(x).call.value = IsdKeys /\ OpenOriginal(x).call.at = "first"
  BY <1>3 DEF NoCall
<1>5. ASSUME x \in Domains \cup Objects, NEW kvn \in Nat
      PROVE  [OpenOriginal(x).call EXCEPT !.kvn = kvn] \in CallType
  BY <1>2, <1>3, <1>5 DEF CallType
<1>6. OpenOriginal(x).do = "original" /\ OpenOriginal(x).bear = {}
  BY DEF OpenOriginal
<1> QED BY <1>4, <1>5, <1>6

\* Adding a keyset.
LEMMA PutIs ==
  ASSUME NEW kvn, NEW value, NEW dek
  PROVE  /\ Put(kvn, value, dek).do = "call" /\ Put(kvn, value, dek).bear = {}
         /\ Put(kvn, value, dek).call.op = "put_sd_keys" /\ Put(kvn, value, dek).call.kvn = kvn
         /\ Put(kvn, value, dek).call.value = value /\ Put(kvn, value, dek).call.dek = dek
         /\ Put(kvn, value, dek).call.at = "first"
         /\ kvn \in Nat /\ value \in KeyValues /\ dek \in KeyValues => Put(kvn, value, dek).call \in CallType
<1> DEFINE c == [NoCall EXCEPT !.op = "put_sd_keys", !.kvn = kvn, !.value = value, !.dek = dek]
<1>1. c.op = "put_sd_keys" /\ c.kvn = kvn /\ c.value = value /\ c.dek = dek /\ c.at = "first"
  BY DEF NoCall
<1>2. kvn \in Nat /\ value \in KeyValues /\ dek \in KeyValues => c \in CallType
  BY Quiet DEF CallType, Ops
<1>3. Put(kvn, value, dek) = [do |-> "call", call |-> c, bear |-> {}]
  BY DEF Put, Do
<1> HIDE DEF c
<1> QED BY <1>1, <1>2, <1>3

\* Deleting a keyset that may already be gone.
LEMMA DeleteKeysetIs ==
  ASSUME NEW kvn
  PROVE  /\ DeleteKeysetTolerant(kvn).do = "call" /\ DeleteKeysetTolerant(kvn).bear = {"KeyNotFound"}
         /\ DeleteKeysetTolerant(kvn).call.op = "delete_sd_keyset"
         /\ DeleteKeysetTolerant(kvn).call.kvn = kvn /\ DeleteKeysetTolerant(kvn).call.at = "first"
         /\ kvn \in Nat => DeleteKeysetTolerant(kvn).call \in CallType
<1> DEFINE c == [NoCall EXCEPT !.op = "delete_sd_keyset", !.kvn = kvn]
<1>1. c.op = "delete_sd_keyset" /\ c.kvn = kvn /\ c.at = "first"
  BY DEF NoCall
<1>2. kvn \in Nat => c \in CallType
  BY Quiet DEF CallType, Ops
<1>3. DeleteKeysetTolerant(kvn) = [do |-> "call", call |-> c, bear |-> {"KeyNotFound"}]
  BY DEF DeleteKeysetTolerant, Trying
<1> HIDE DEF c
<1> QED BY <1>1, <1>2, <1>3

\* The others, and Close.
LEMMA OthersAre ==
  /\ Plain(DeleteAppletBestEffort) /\ Plain(DeleteSsdBestEffort) /\ Plain(Exchange) /\ Plain(Install)
  /\ Plain(Load(Isd)) /\ Plain(Load(Ssd)) /\ Plain(Do([NoCall EXCEPT !.op = "create_ssd", !.x = Ssd]))
  /\ Plain(Do(AppletAndElf("IfLastInstance"))) /\ Plain(Do(TheSsd("OnlyIfEmpty")))
  /\ DeleteAppletBestEffort.call.op = "delete_applet" /\ DeleteAppletBestEffort.call.x = App
  /\ Close.do = "close" /\ Close.call = NoCall
<1>1. App \in Domains \cup Objects /\ Ssd \in Domains \cup Objects /\ Isd \in Domains \cup Objects
  BY DemoAssumption DEF Domains, Objects
<1>2. ASSUME NEW x \in Domains \cup Objects,
             NEW op \in {"transmit", "load_package", "install_applet", "delete_applet", "create_ssd", "delete_ssd"}
      PROVE  Plain(Do([NoCall EXCEPT !.op = op, !.x = x]))
  <2>1. PICK c : c = [NoCall EXCEPT !.op = op]
    OBVIOUS
  <2>2. op \in Ops
    BY DEF Ops
  <2>3. c \in CallType /\ c.op = op /\ c.at = "first"
    BY <2>1, <2>2, Quiet DEF CallType
  <2>4. PICK d : d = [c EXCEPT !.x = x]
    OBVIOUS
  <2>5. d \in CallType /\ d.op = op /\ d.at = "first"
    BY <2>3, <2>4 DEF CallType
  <2>6. Do([NoCall EXCEPT !.op = op, !.x = x]) = [do |-> "call", call |-> d, bear |-> {}]
    BY <2>1, <2>4 DEF Do
  <2> QED BY <2>5, <2>6 DEF Plain
<1>3. ASSUME NEW cascade \in Cascades, NEW bear \in SUBSET Errors
      PROVE  /\ Plain(Trying(AppletAndElf(cascade), bear)) /\ Plain(Trying(TheSsd(cascade), bear))
             /\ Plain(Do(AppletAndElf(cascade))) /\ Plain(Do(TheSsd(cascade)))
  <2>1. PICK c : c = [NoCall EXCEPT !.op = "delete_applet", !.x = App]
    OBVIOUS
  <2>2. c \in CallType /\ c.at = "first" /\ c.op = "delete_applet"
    BY <1>1, <2>1, Quiet DEF CallType, Ops
  <2>3. PICK d : d = [NoCall EXCEPT !.op = "delete_ssd", !.x = Ssd]
    OBVIOUS
  <2>4. d \in CallType /\ d.at = "first" /\ d.op = "delete_ssd"
    BY <1>1, <2>3, Quiet DEF CallType, Ops
  <2>5. AppletAndElf(cascade) = [c EXCEPT !.cascade = cascade, !.elf = TRUE]
    BY <2>1 DEF AppletAndElf
  <2>6. TheSsd(cascade) = [d EXCEPT !.cascade = cascade]
    BY <2>3 DEF TheSsd
  <2>7. AppletAndElf(cascade) \in CallType /\ AppletAndElf(cascade).at = "first"
        /\ AppletAndElf(cascade).op = "delete_applet"
    BY <2>2, <2>5 DEF CallType
  <2>8. TheSsd(cascade) \in CallType /\ TheSsd(cascade).at = "first" /\ TheSsd(cascade).op = "delete_ssd"
    BY <2>4, <2>6 DEF CallType
  <2> QED BY <2>7, <2>8 DEF Plain, Trying, Do
<1>4. {"Always", "Never", "IfLastInstance", "OnlyIfEmpty"} \subseteq Cascades
  BY DEF Cascades
<1>5. Plain(DeleteAppletBestEffort) /\ Plain(DeleteSsdBestEffort)
  BY <1>3, <1>4 DEF DeleteAppletBestEffort, DeleteSsdBestEffort
<1>6. Plain(Exchange) /\ Plain(Install)
  <2>1. PICK c : c = [NoCall EXCEPT !.op = "transmit"]
    OBVIOUS
  <2>2. c \in CallType /\ c.op = "transmit" /\ c.at = "first"
    BY <2>1, Quiet DEF CallType, Ops
  <2>3. Exchange = [do |-> "call", call |-> c, bear |-> {}]
    BY <2>1 DEF Exchange, Do
  <2>4. Plain(Exchange)
    BY <2>2, <2>3 DEF Plain
  <2> QED BY <1>1, <1>2, <2>4 DEF Install
<1>7. Plain(Load(Isd)) /\ Plain(Load(Ssd)) /\ Plain(Do([NoCall EXCEPT !.op = "create_ssd", !.x = Ssd]))
  BY <1>1, <1>2 DEF Load
<1>8. Plain(Do(AppletAndElf("IfLastInstance"))) /\ Plain(Do(TheSsd("OnlyIfEmpty")))
  BY <1>3, <1>4
<1>9. DeleteAppletBestEffort.call.op = "delete_applet" /\ DeleteAppletBestEffort.call.x = App
  BY DEF DeleteAppletBestEffort, Trying, AppletAndElf, NoCall
<1>10. Close.do = "close" /\ Close.call = NoCall
  BY DEF Close
<1> QED BY <1>5, <1>6, <1>7, <1>8, <1>9, <1>10

\* cleanup, Path A.
LEMMA InPathA ==
  ASSUME run.script = "A"
  PROVE  /\ Len(Script) = 6
         /\ run.at = 1 => Here = Close
         /\ run.at = 2 => Here = OpenOriginal(Isd)
         /\ run.at = 3 => Here = DeleteAppletBestEffort
         /\ run.at = 4 => Here = DeleteKeysetTolerant(ISD_KVN_1)
         /\ run.at = 5 => Here = DeleteKeysetTolerant(ISD_KVN_2)
         /\ run.at = 6 => Here = Close
<1>1. Script = <<Close, OpenOriginal(Isd), DeleteAppletBestEffort, DeleteKeysetTolerant(ISD_KVN_1),
                 DeleteKeysetTolerant(ISD_KVN_2), Close>>
  BY DEF Script, PathA
<1> QED BY <1>1 DEF Here

\* cleanup, Path B, from either demo keyset.
LEMMA InPathB ==
  ASSUME run.script \in PathBs
  PROVE  /\ Len(Script) = 9
         /\ run.at = 1 => Here = Open(Isd, RescueKvn, RescueKeys)
         /\ run.at = 2 => Here = DeleteAppletBestEffort
         /\ run.at = 3 => \E other \in DemoKvns \ {RescueKvn} : Here = DeleteKeysetTolerant(other)
         /\ run.at = 4 => Here = Put(Restore, IsdKeys, RescueKeys)
         /\ run.at = 5 => Here = Close
         /\ run.at = 6 => Here = Open(Isd, Restore, IsdKeys)
         /\ run.at = 7 => Here = DeleteKeysetTolerant(ISD_KVN_1)
         /\ run.at = 8 => Here = DeleteKeysetTolerant(ISD_KVN_2)
         /\ run.at = 9 => Here = Close
<1>1. PICK other : other = IF run.script = "B51" THEN ISD_KVN_1 ELSE ISD_KVN_2
  OBVIOUS
<1>2. other \in DemoKvns \ {RescueKvn}
  BY <1>1 DEF DemoKvns, RescueKvn, ISD_KVN_1, ISD_KVN_2
<1>3. Script = PathB(RescueKvn, RescueKeys, other)
  <2>1. CASE run.script = "B51"
    BY <1>1, <2>1 DEF Script, RescueKvn, RescueKeys
  <2>2. CASE run.script = "B50"
    BY <1>1, <2>2 DEF Script, RescueKvn, RescueKeys
  <2> QED BY <2>1, <2>2 DEF PathBs
<1>4. Script = <<Open(Isd, RescueKvn, RescueKeys), DeleteAppletBestEffort, DeleteKeysetTolerant(other),
                 Put(Restore, IsdKeys, RescueKeys), Close, Open(Isd, Restore, IsdKeys),
                 DeleteKeysetTolerant(ISD_KVN_1), DeleteKeysetTolerant(ISD_KVN_2), Close>>
  BY <1>3 DEF PathB
<1> QED BY <1>2, <1>4 DEF Here

\* The flow of isd-lifecycle.
LEMMA InIsdFlow ==
  ASSUME run.script = "isd_flow"
  PROVE  /\ Len(Script) = 16
         /\ run.at \in {1, 5} => Here = Open(Isd, Selector, IsdKeys)
         /\ run.at \in {2, 3, 9, 15} => Plain(Here)
         /\ run.at \in {4, 7, 10, 13, 16} => Here = Close
         /\ run.at = 6 => Here = Put(ISD_KVN_1, Ks1, IsdKeys)
         /\ run.at = 8 => Here = Open(App, ISD_KVN_1, Ks1)
         /\ run.at = 11 => Here = Open(Isd, ISD_KVN_1, Ks1)
         /\ run.at = 12 => Here = Put(ISD_KVN_2, Ks2, Ks1)
         /\ run.at = 14 => Here = Open(App, ISD_KVN_2, Ks2)
<1>1. Script =
        <<Open(Isd, Selector, IsdKeys), Load(Isd), Install, Close,
          Open(Isd, Selector, IsdKeys), Put(ISD_KVN_1, Ks1, IsdKeys), Close,
          Open(App, ISD_KVN_1, Ks1), Exchange, Close,
          Open(Isd, ISD_KVN_1, Ks1), Put(ISD_KVN_2, Ks2, Ks1), Close,
          Open(App, ISD_KVN_2, Ks2), Exchange, Close>>
  BY DEF Script, IsdFlow
<1> QED BY <1>1, OthersAre DEF Here

\* The flow of ssd-lifecycle.
LEMMA InSsdFlow ==
  ASSUME run.script = "ssd_flow"
  PROVE  /\ Len(Script) = 22
         /\ run.at = 1 => Here = OpenOriginal(Isd)
         /\ run.at = 7 => Here = OpenOriginal(Ssd)
         /\ run.at = 8 => Here = Put(KVN_1, Ks1, IsdKeys)
         /\ run.at = 10 => Here = Open(Isd, Selector, IsdKeys)
         /\ run.at = 14 => Here = Open(App, KVN_1, Ks1)
         /\ run.at = 17 => Here = Open(Ssd, KVN_1, Ks1)
         /\ run.at = 18 => Here = Put(KVN_2, Ks2, Ks1)
         /\ run.at = 20 => Here = Open(App, KVN_2, Ks2)
         /\ run.at \in {2, 3, 4, 5, 11, 12, 15, 21} => Plain(Here)
         /\ run.at \in {6, 9, 13, 16, 19, 22} => Here = Close
<1>1. Script =
        <<OpenOriginal(Isd), Exchange, DeleteAppletBestEffort, DeleteSsdBestEffort,
          Do([NoCall EXCEPT !.op = "create_ssd", !.x = Ssd]), Close,
          OpenOriginal(Ssd), Put(KVN_1, Ks1, IsdKeys), Close,
          Open(Isd, Selector, IsdKeys), Load(Ssd), Install, Close,
          Open(App, KVN_1, Ks1), Exchange, Close,
          Open(Ssd, KVN_1, Ks1), Put(KVN_2, Ks2, Ks1), Close,
          Open(App, KVN_2, Ks2), Exchange, Close>>
  BY DEF Script, SsdFlow
<1> QED BY <1>1, OthersAre DEF Here

\* Its teardown, and the rescue of a flow that failed.
LEMMA InSsdEnd ==
  /\ run.script = "ssd_teardown" =>
       /\ Len(Script) = 4
       /\ run.at = 1 => Here = Open(Isd, Selector, IsdKeys)
       /\ run.at \in {2, 3} => Plain(Here)
       /\ run.at = 4 => Here = Close
  /\ run.script = "ssd_rescue" =>
       /\ Len(Script) = 5
       /\ run.at \in {1, 5} => Here = Close
       /\ run.at = 2 => Here = OpenOriginal(Isd)
       /\ run.at \in {3, 4} => Plain(Here)
<1>1. CASE run.script = "ssd_teardown"
  <2>1. Script = <<Open(Isd, Selector, IsdKeys), Do(AppletAndElf("IfLastInstance")),
                   Do(TheSsd("OnlyIfEmpty")), Close>>
    BY <1>1 DEF Script, SsdTeardown
  <2> QED BY <1>1, <2>1, OthersAre DEF Here
<1>2. CASE run.script = "ssd_rescue"
  <2>1. Script = <<Close, OpenOriginal(Isd), DeleteAppletBestEffort, DeleteSsdBestEffort, Close>>
    BY <1>2 DEF Script, SsdRescue
  <2> QED BY <1>2, <2>1, OthersAre DEF Here
<1> QED BY <1>1, <1>2

\* The version the original keyset is restored at is one the card can be asked
\* for, and never a demo version.
LEMMA RestoreIsFresh ==
  ASSUME run \in RunType, run.orig \notin DemoKvns, run.cfg \notin DemoKvns
  PROVE  Restore \in 1 .. 127 /\ Restore \notin DemoKvns
<1>1. JCSIM_FACTORY_KVN \in 1 .. 127 /\ JCSIM_FACTORY_KVN \notin DemoKvns
  BY DEF JCSIM_FACTORY_KVN, DemoKvns, ISD_KVN_1, ISD_KVN_2
<1>2. run.first = 0 \/ run.first \notin DemoKvns
  BY DEF RunType
<1>3. Preferred \notin DemoKvns
  BY <1>1, <1>2 DEF Preferred
<1> QED BY <1>1, <1>3 DEF Restore

\* So it is in Path B, whatever the run knows of the card.
LEMMA RestoreInPathB ==
  ASSUME run \in RunType, InPlace, Apart, run.script \in PathBs
  PROVE  Restore \in 1 .. 127 /\ Restore \notin DemoKvns
<1>1. run.demo = "isd"
  BY DEF InPlace, IsdScripts, PathBs
<1>2. run.orig \notin DemoKvns /\ run.cfg \notin DemoKvns
  BY <1>1 DEF Apart
<1> QED BY <1>2, RestoreIsFresh

\* Whatever it is, it is a number.
LEMMA RestoreTyped == Restore \in Nat
BY DEF Restore, JCSIM_FACTORY_KVN

\* The selector of an open with the keyset last confirmed.
LEMMA SelectorIs ==
  ASSUME run \in RunType
  PROVE  Selector \in 0 .. 127 /\ (Selector = 0 \/ Selector = run.orig)
BY DEF Selector, RunType

\* An instruction that makes a call.
Calls(i) ==
  /\ i.do = "call" /\ i.bear \subseteq Errors
  /\ i.call \in CallType /\ Makeable(i.call) /\ i.call.op \notin {"none", "set_card_status"}
TriesOriginal(i) ==
  /\ i.do = "original" /\ i.bear = {} /\ i.call.op = "open_scp" /\ i.call.value = IsdKeys
  /\ i.call.at = "first" /\ \A kvn \in Nat : [i.call EXCEPT !.kvn = kvn] \in CallType

LEMMA ConstantsTyped ==
  /\ {IsdKeys, Ks1, Ks2} \subseteq KeyValues /\ {Isd, App, Ssd} \subseteq Domains \cup Objects
  /\ {ISD_KVN_1, ISD_KVN_2, KVN_1, KVN_2} \subseteq Nat
  /\ \A v \in KeyValues : v # NoKey
  /\ Ssd \in Domains /\ Ssd # Isd /\ App \in Applets /\ Isd \notin Applets /\ Ssd \notin Applets
BY DemoAssumption, NamesAssumption DEF Domains, Objects, ISD_KVN_1, ISD_KVN_2, KVN_1, KVN_2

\* Each kind of instruction calls, or tries, or closes.
LEMMA KindsOfInstruction ==
  /\ \A i : Plain(i) => Calls(i)
  /\ \A x \in {Isd, App, Ssd}, kvn \in Nat, v \in KeyValues : Calls(Open(x, kvn, v))
  /\ \A kvn \in Nat, v \in KeyValues, dek \in KeyValues : Calls(Put(kvn, v, dek))
  /\ \A kvn \in Nat : Calls(DeleteKeysetTolerant(kvn))
  /\ \A x \in {Isd, Ssd} : TriesOriginal(OpenOriginal(x))
<1>1. ASSUME NEW i, Plain(i) PROVE Calls(i)
  BY <1>1 DEF Plain, Calls, Makeable
<1>2. ASSUME NEW x \in {Isd, App, Ssd}, NEW kvn \in Nat, NEW v \in KeyValues
      PROVE  Calls(Open(x, kvn, v))
  BY <1>2, OpenIs, ConstantsTyped DEF Calls, Makeable
<1>3. ASSUME NEW kvn \in Nat, NEW v \in KeyValues, NEW dek \in KeyValues
      PROVE  Calls(Put(kvn, v, dek))
  BY <1>3, PutIs, ConstantsTyped DEF Calls, Makeable
<1>4. ASSUME NEW kvn \in Nat PROVE Calls(DeleteKeysetTolerant(kvn))
  BY <1>4, DeleteKeysetIs DEF Calls, Makeable, Errors
<1>5. ASSUME NEW x \in {Isd, Ssd} PROVE TriesOriginal(OpenOriginal(x))
  BY <1>5, OpenOriginalIs, ConstantsTyped DEF TriesOriginal
<1> QED BY <1>1, <1>2, <1>3, <1>4, <1>5

\* What an instruction can be.
LEMMA HereIs ==
  ASSUME run \in RunType, InPlace, run.script # "rest"
  PROVE  Here = Close \/ Calls(Here) \/ TriesOriginal(Here)
<1>1. run.script \in {"isd_flow", "A", "B51", "B50", "ssd_flow", "ssd_teardown", "ssd_rescue"} /\ run.at \in 1 .. Len(Script)
  BY DEF RunType, Scripts, InPlace
<1>2. Selector \in Nat
  BY SelectorIs
<1>3. CASE run.script = "A"
  <2>1. run.at \in 1 .. 6
    BY <1>1, <1>3, InPathA
  <2>2. Calls(DeleteAppletBestEffort) /\ TriesOriginal(OpenOriginal(Isd))
    BY KindsOfInstruction, OthersAre
  <2>3. Calls(DeleteKeysetTolerant(ISD_KVN_1)) /\ Calls(DeleteKeysetTolerant(ISD_KVN_2))
    BY KindsOfInstruction, ConstantsTyped
  <2> QED BY <1>3, <2>1, <2>2, <2>3, InPathA
<1>4. CASE run.script \in PathBs
  <2>1. Restore \in Nat
    BY RestoreTyped
  <2>2. RescueKvn \in Nat /\ RescueKeys \in KeyValues /\ DemoKvns \subseteq Nat
    BY ConstantsTyped DEF RescueKvn, RescueKeys, DemoKvns
  <2>3. run.at \in 1 .. 9
    BY <1>1, <1>4, InPathB
  <2>4. Calls(DeleteAppletBestEffort) /\ \A other \in DemoKvns : Calls(DeleteKeysetTolerant(other))
    BY <2>2, KindsOfInstruction, OthersAre
  <2>5. Calls(Open(Isd, RescueKvn, RescueKeys)) /\ Calls(Open(Isd, Restore, IsdKeys))
    BY <2>1, <2>2, KindsOfInstruction, ConstantsTyped
  <2>6. Calls(Put(Restore, IsdKeys, RescueKeys))
    BY <2>1, <2>2, KindsOfInstruction, ConstantsTyped
  <2>7. ISD_KVN_1 \in DemoKvns /\ ISD_KVN_2 \in DemoKvns
    BY DEF DemoKvns
  <2> QED BY <1>4, <2>3, <2>4, <2>5, <2>6, <2>7, InPathB
<1>5. CASE run.script = "isd_flow"
  <2>1. run.at \in 1 .. 16
    BY <1>1, <1>5, InIsdFlow
  <2> QED BY <1>2, <1>5, <2>1, InIsdFlow, KindsOfInstruction, ConstantsTyped
<1>6. CASE run.script = "ssd_flow"
  <2>1. run.at \in 1 .. 22
    BY <1>1, <1>6, InSsdFlow
  <2> QED BY <1>2, <1>6, <2>1, InSsdFlow, KindsOfInstruction, ConstantsTyped
<1>7. CASE run.script = "ssd_teardown"
  <2>1. run.at \in 1 .. 4
    BY <1>1, <1>7, InSsdEnd
  <2>2. Calls(Open(Isd, Selector, IsdKeys))
    BY <1>2, KindsOfInstruction, ConstantsTyped
  <2> QED BY <1>7, <2>1, <2>2, InSsdEnd, KindsOfInstruction
<1>8. CASE run.script = "ssd_rescue"
  <2>1. run.at \in 1 .. 5
    BY <1>1, <1>8, InSsdEnd
  <2> QED BY <1>8, <2>1, InSsdEnd, KindsOfInstruction
<1> QED BY <1>1, <1>3, <1>4, <1>5, <1>6, <1>7, <1>8 DEF PathBs

\* A script ends with Close.
LEMMA LastIsClose ==
  ASSUME run \in RunType, InPlace, run.script # "rest", run.at = Len(Script)
  PROVE  Here = Close
<1>1. run.script \in {"isd_flow", "A", "B51", "B50", "ssd_flow", "ssd_teardown", "ssd_rescue"}
  BY DEF RunType, Scripts
<1>2. CASE run.script \in {"isd_flow", "A"}
  BY <1>2, InPathA, InIsdFlow
<1>3. CASE run.script \in PathBs
  BY <1>3, InPathB
<1>4. CASE run.script \in {"ssd_flow", "ssd_teardown", "ssd_rescue"}
  BY <1>4, InSsdFlow, InSsdEnd
<1> QED BY <1>1, <1>2, <1>3, <1>4 DEF PathBs

\* The calls an instruction is not.
LEMMA PlainIsNot ==
  ASSUME NEW i, Plain(i)
  PROVE  i.do = "call" /\ i.call.op \notin {"open_scp", "put_sd_keys", "delete_sd_keyset"}
BY DEF Plain

\* Where in the scripts keysets are put.
LEMMA PutsAt ==
  ASSUME run \in RunType, InPlace, run.script # "rest",
         Here.do # "close", Here.call.op = "put_sd_keys"
  PROVE  \/ run.script \in PathBs /\ run.at = 4 /\ Here = Put(Restore, IsdKeys, RescueKeys)
         \/ run.script = "isd_flow" /\ run.at = 6 /\ Here = Put(ISD_KVN_1, Ks1, IsdKeys)
         \/ run.script = "isd_flow" /\ run.at = 12 /\ Here = Put(ISD_KVN_2, Ks2, Ks1)
         \/ run.script = "ssd_flow" /\ run.at \in {8, 18}
<1>1. run.script \in {"isd_flow", "A", "B51", "B50", "ssd_flow", "ssd_teardown", "ssd_rescue"} /\ run.at \in 1 .. Len(Script)
  BY DEF RunType, Scripts, InPlace
<1>2. CASE run.script = "A"
  <2>1. run.at \in 1 .. 6
    BY <1>1, <1>2, InPathA
  <2> QED BY <1>2, <2>1, InPathA, OthersAre, PlainIsNot, OpenOriginalIs, DeleteKeysetIs
<1>3. CASE run.script \in PathBs
  <2>1. run.at \in 1 .. 9
    BY <1>1, <1>3, InPathB
  <2> QED BY <1>3, <2>1, InPathB, OthersAre, PlainIsNot, OpenIs, DeleteKeysetIs
<1>4. CASE run.script = "isd_flow"
  <2>1. run.at \in 1 .. 16
    BY <1>1, <1>4, InIsdFlow
  <2> QED BY <1>4, <2>1, InIsdFlow, OthersAre, PlainIsNot, OpenIs
<1>5. CASE run.script = "ssd_flow"
  <2>1. run.at \in 1 .. 22
    BY <1>1, <1>5, InSsdFlow
  <2> QED BY <1>5, <2>1, InSsdFlow, OthersAre, PlainIsNot, OpenIs, OpenOriginalIs
<1>6. CASE run.script \in {"ssd_teardown", "ssd_rescue"}
  <2>1. IF run.script = "ssd_teardown" THEN run.at \in 1 .. 4 ELSE run.at \in 1 .. 5
    BY <1>1, <1>6, InSsdEnd
  <2> QED BY <1>6, <2>1, InSsdEnd, OthersAre, PlainIsNot, OpenIs, OpenOriginalIs
<1> QED BY <1>1, <1>2, <1>3, <1>4, <1>5, <1>6 DEF PathBs

\* Where in the scripts keysets are deleted.
LEMMA KeysetDeletesAt ==
  ASSUME run \in RunType, InPlace, run.script # "rest",
         Here.do # "close", Here.call.op = "delete_sd_keyset"
  PROVE  /\ Here.do = "call" /\ Here.bear = {"KeyNotFound"}
         /\ \/ run.script = "A" /\ run.at = 4 /\ Here.call.kvn = ISD_KVN_1
            \/ run.script = "A" /\ run.at = 5 /\ Here.call.kvn = ISD_KVN_2
            \/ run.script \in PathBs /\ run.at = 3 /\ Here.call.kvn \in DemoKvns \ {RescueKvn}
            \/ run.script \in PathBs /\ run.at = 7 /\ Here.call.kvn = ISD_KVN_1
            \/ run.script \in PathBs /\ run.at = 8 /\ Here.call.kvn = ISD_KVN_2
<1>1. run.script \in {"isd_flow", "A", "B51", "B50", "ssd_flow", "ssd_teardown", "ssd_rescue"} /\ run.at \in 1 .. Len(Script)
  BY DEF RunType, Scripts, InPlace
<1>2. CASE run.script = "A"
  <2>1. run.at \in 1 .. 6
    BY <1>1, <1>2, InPathA
  <2> QED BY <1>2, <2>1, InPathA, OthersAre, PlainIsNot, OpenOriginalIs, DeleteKeysetIs
<1>3. CASE run.script \in PathBs
  <2>1. run.at \in 1 .. 9
    BY <1>1, <1>3, InPathB
  <2> QED BY <1>3, <2>1, InPathB, OthersAre, PlainIsNot, OpenIs, PutIs, DeleteKeysetIs
<1>4. CASE run.script = "isd_flow"
  <2>1. run.at \in 1 .. 16
    BY <1>1, <1>4, InIsdFlow
  <2> QED BY <1>4, <2>1, InIsdFlow, OthersAre, PlainIsNot, OpenIs, PutIs
<1>5. CASE run.script = "ssd_flow"
  <2>1. run.at \in 1 .. 22
    BY <1>1, <1>5, InSsdFlow
  <2> QED BY <1>5, <2>1, InSsdFlow, OthersAre, PlainIsNot, OpenIs, PutIs, OpenOriginalIs
<1>6. CASE run.script \in {"ssd_teardown", "ssd_rescue"}
  <2>1. IF run.script = "ssd_teardown" THEN run.at \in 1 .. 4 ELSE run.at \in 1 .. 5
    BY <1>1, <1>6, InSsdEnd
  <2> QED BY <1>6, <2>1, InSsdEnd, OthersAre, PlainIsNot, OpenIs, OpenOriginalIs
<1> QED BY <1>1, <1>2, <1>3, <1>4, <1>5, <1>6 DEF PathBs

\* Where isd-lifecycle opens the ISD with the original keyset.
LEMMA ConfirmsAt ==
  ASSUME run \in RunType, InPlace, KeysApart, run.script \in IsdScripts \ {"rest"},
         Here.do # "close", Confirms
  PROVE  \/ run.script = "A" /\ run.at = 2 /\ Here = OpenOriginal(Isd)
         \/ run.script \in PathBs /\ run.at = 6 /\ Here = Open(Isd, Restore, IsdKeys)
         \/ run.script = "isd_flow" /\ run.at \in {1, 5} /\ Here = Open(Isd, Selector, IsdKeys)
<1>1. run.script \in {"isd_flow", "A", "B51", "B50"} /\ run.at \in 1 .. Len(Script)
  BY DEF IsdScripts, InPlace
<1>2. Here.call.op = "open_scp" /\ Here.call.value = IsdKeys /\ Here.call.x = Isd
  BY DEF Confirms
<1>3. App # Isd /\ RescueKeys # IsdKeys /\ Ks1 # IsdKeys /\ Ks2 # IsdKeys
  BY ConstantsTyped DEF KeysApart, RescueKeys
<1>4. CASE run.script = "A"
  <2>1. run.at \in 1 .. 6
    BY <1>1, <1>4, InPathA
  <2> QED BY <1>2, <1>4, <2>1, InPathA, OthersAre, PlainIsNot, DeleteKeysetIs
<1>5. CASE run.script \in PathBs
  <2>1. run.at \in 1 .. 9
    BY <1>1, <1>5, InPathB
  <2> QED BY <1>2, <1>3, <1>5, <2>1, InPathB, OthersAre, PlainIsNot, OpenIs, PutIs, DeleteKeysetIs
<1>6. CASE run.script = "isd_flow"
  <2>1. run.at \in 1 .. 16
    BY <1>1, <1>6, InIsdFlow
  <2> QED BY <1>2, <1>3, <1>6, <2>1, InIsdFlow, OthersAre, PlainIsNot, OpenIs, PutIs
<1> QED BY <1>1, <1>4, <1>5, <1>6 DEF PathBs

------------------------------------------------------------------------------
(***************************************************************************)
(* Calls are made, wait and return                                         *)
(***************************************************************************)
\* A call that returns says of itself which it was.
LEMMA Returning ==
  ASSUME NEW c, NEW err, NEW report, Return(c, err, report)
  PROVE  /\ call' = NoCall
         /\ result'.call = c /\ result'.report = report /\ result'.err \in {err, "InvalidAid"}
         /\ c.op # "none" => result' # NoResult
<1>1. PICK e \in {err, "InvalidAid"} : result' = [call |-> c, report |-> report, err |-> e]
  BY DEF Return
<1>2. call' = NoCall
  BY DEF Return
<1>3. NoResult.call.op = "none"
  BY Quiet
<1> QED BY <1>1, <1>2, <1>3

\* A call begun waits, or has returned at once.
LEMMA BeginIs ==
  ASSUME NEW c \in CallType, c.op \notin {"none", "set_card_status"}, Begin(c)
  PROVE  /\ did' = {} /\ UNCHANGED <<card, chan, known>>
         /\ \/ call' = c /\ call' # NoCall /\ result' = NoResult /\ (c.op # "open_scp" => chan # NoChan)
            \/ /\ call' = NoCall /\ result'.call = c /\ result' # NoResult
               /\ result'.err \in {"NoOpenChannel", "UnsupportedPrivilege", "InvalidAid"}
               /\ (c.op # "open_scp" /\ chan = NoChan) \/ c.banned
<1>1. did' = {} /\ UNCHANGED <<card, chan, known>>
  BY DEF Begin
<1>2. \/ c.op # "open_scp" /\ chan = NoChan /\ Return(c, "NoOpenChannel", Report)
      \/ c.banned /\ Return(c, "UnsupportedPrivilege", Report)
      \/ ~ (c.op # "open_scp" /\ chan = NoChan) /\ call' = c /\ result' = NoResult
  BY DEF Begin
<1>3. c # NoCall
  BY Quiet
<1> QED BY <1>1, <1>2, <1>3, Returning

\* A step of a workflow returns, or goes on to the second exchange of delete_applet.
LEMMA WorkflowIs ==
  ASSUME TypedInv, Workflow, call.op # "set_card_status"
  PROVE  /\ call # NoCall
         /\ \/ call' = NoCall /\ result'.call = call /\ result' # NoResult
            \/ /\ call.op = "delete_applet" /\ call.at = "first"
               /\ call' = [call EXCEPT !.at = "second"] /\ result' = result
<1>1. call # NoCall
  BY WorkflowAnswers DEF TypedInv
<1>2. call.op # "none"
  BY <1>1, Quiet DEF Workflow, OpenScp, Transmit, CreateSsd, DeleteSsd, LoadPackage, InstallApplet,
     DeleteInstance, DeleteElf, PutSdKeys, DeleteSdKeyset, GetCardStatus, SetCardStatus
<1>3. \/ \E err, report : Return(call, err, report)
      \/ /\ call.op = "delete_applet" /\ call.at = "first"
         /\ call' = [call EXCEPT !.at = "second"] /\ result' = result
  <2>1. CASE OpenScp
    BY <2>1 DEF OpenScp
  <2>2. CASE Transmit \/ CreateSsd \/ LoadPackage \/ InstallApplet \/ DeleteSdKeyset \/ DeleteSsd \/ DeleteElf
    BY <2>2 DEF Transmit, CreateSsd, LoadPackage, InstallApplet, DeleteSdKeyset, DeleteSsd, DeleteElf
  <2>3. CASE DeleteInstance
    BY <2>3 DEF DeleteInstance
  <2>4. CASE PutSdKeys
    <3>1. \E err, report : Return(call, err, report)
      BY <2>4 DEF PutSdKeys
    <3> QED BY <3>1
  <2>5. CASE GetCardStatus
    <3>1. call.op = "get_card_status"
      BY <2>5 DEF GetCardStatus
    <3>2. \A state : StatusRead(call, state) => Return(call, "none", [Report EXCEPT !.state = state])
      BY <3>1 DEF StatusRead
    <3> QED BY <2>5, <3>2 DEF GetCardStatus
  <2>6. CASE SetCardStatus
    BY <2>6 DEF SetCardStatus
  <2> QED BY <2>1, <2>2, <2>3, <2>4, <2>5, <2>6 DEF Workflow
<1> QED BY <1>1, <1>2, <1>3, Returning

\* While the run stays at its instruction, the instruction stays what it is.
SamePlace ==
  /\ run' \in RunType
  /\ run'.script = run.script /\ run'.at = run.at /\ run'.demo = run.demo /\ run'.phase = run.phase
  /\ run'.keep = run.keep /\ run'.cfg = run.cfg /\ run'.first = run.first
  /\ run'.orig = run.orig /\ run'.imported = run.imported

LEMMA RunStays ==
  ASSUME run \in RunType,
         \/ run' = run
         \/ run' = [run EXCEPT !.calm = FALSE]
         \/ \E kvn \in Nat : run' = [run EXCEPT !.tried = @ \cup {kvn}]
  PROVE  SamePlace
<1>1. [run EXCEPT !.calm = FALSE] \in RunType
  BY DEF RunType
<1>2. ASSUME NEW kvn \in Nat PROVE [run EXCEPT !.tried = @ \cup {kvn}] \in RunType
  <2>1. PICK tried \in SUBSET Nat : tried = run.tried \cup {kvn}
    BY DEF RunType
  <2>2. [run EXCEPT !.tried = tried] \in RunType
    BY DEF RunType
  <2> QED BY <2>1, <2>2
<1>3. CASE run' = run \/ run' = [run EXCEPT !.calm = FALSE]
  BY <1>1, <1>3 DEF SamePlace, RunType
<1>4. ASSUME NEW kvn \in Nat, run' = [run EXCEPT !.tried = @ \cup {kvn}]
      PROVE  SamePlace
  BY <1>2, <1>4 DEF SamePlace, RunType
<1> QED BY <1>3, <1>4

LEMMA SameHere ==
  ASSUME SamePlace
  PROVE  Script' = Script /\ Here' = Here /\ (InPlace => InPlace')
<1>1. Selector' = Selector /\ Preferred' = Preferred
  BY DEF SamePlace, Selector, Preferred
<1>2. Restore' = Restore
  BY <1>1 DEF Restore
<1>3. IsdFlow' = IsdFlow /\ PathA' = PathA /\ SsdFlow' = SsdFlow /\ SsdTeardown' = SsdTeardown /\ SsdRescue' = SsdRescue
  BY <1>1 DEF IsdFlow, PathA, SsdFlow, SsdTeardown, SsdRescue, Open
<1>4. PathB(ISD_KVN_2, Ks2, ISD_KVN_1)' = PathB(ISD_KVN_2, Ks2, ISD_KVN_1)
      /\ PathB(ISD_KVN_1, Ks1, ISD_KVN_2)' = PathB(ISD_KVN_1, Ks1, ISD_KVN_2)
  BY <1>2 DEF PathB, Open, Put
<1>5. Script' = Script
  BY <1>3, <1>4 DEF Script, SamePlace
<1>6. Here' = Here
  BY <1>5 DEF Here, SamePlace
<1> QED BY <1>5, <1>6 DEF InPlace, SamePlace

------------------------------------------------------------------------------
(***************************************************************************)
(* The types, and where a run is: of every card and every run              *)
(***************************************************************************)
\* A manager with nothing in hand.
LEMMA QuietTyped ==
  ASSUME TypedInv, card' \in CardType, card'.life = card.life, chan' \in {chan, NoChan},
         call' = NoCall, result' = NoResult, did' = {}, known' = known
  PROVE  TypedInv'
<1>1. card' \in CardType /\ chan \in ChanType /\ known \in LifeCycles
  BY DEF TypedInv, TypeOK
<1>2. Sound(card')
  BY CardFields DEF Sound, CardType
<1>3. Told'
  BY Quiet DEF Told, ReportIsTrue, ErrorsSayWhatTheyLeave, NoStateSkipped, IrreversibleIsTold, Claims
<1>4. Fits(known)'
  BY DEF TypedInv, IInv, Fits
<1>5. chan' = NoChan \/ InDomain'
  BY DEF TypedInv, IInv, Session, InDomain
<1>6. IInv'
  BY <1>2, <1>3, <1>4, <1>5, Quiet DEF IInv, Session, SoFar, Allowed
<1>7. NoChan \in ChanType
  BY DEF NoChan, ChanType
<1>8. chan' \in ChanType
  BY <1>1, <1>7
<1> QED BY <1>1, <1>6, <1>8, Quiet, ReportsTyped DEF TypedInv, TypeOK, HasValue

\* open_isd_original tries no selector above 127.
LEMMA UntriedIs ==
  ASSUME run \in RunType
  PROVE  \A kvn \in Untried : kvn \in Nat /\ kvn <= 127
<1>1. run.orig \in Nat /\ run.cfg \in Nat /\ run.reported \subseteq Nat
  BY KvnsAssumption DEF RunType
<1>2. ASSUME NEW kvn \in Candidates(run, Here.call.x)
      PROVE  kvn \in Nat /\ kvn <= 127
  BY <1>1, <1>2 DEF Candidates, JCSIM_FACTORY_KVN
<1> QED BY <1>2 DEF Untried

\* How long the scripts are, whatever the run knows.
ScriptLen == [script \in Scripts \ {"rest"} |->
  CASE script = "A" -> 6 [] script \in PathBs -> 9 [] script = "isd_flow" -> 16
    [] script = "ssd_flow" -> 22 [] script = "ssd_teardown" -> 4 [] script = "ssd_rescue" -> 5]
Long == run.script \in Scripts \ {"rest"} => Len(Script) = ScriptLen[run.script]

LEMMA LongNow == Long
<1> SUFFICES ASSUME run.script \in Scripts \ {"rest"} PROVE Len(Script) = ScriptLen[run.script]
  BY DEF Long
<1>1. CASE run.script = "A"
  BY <1>1, InPathA DEF ScriptLen, PathBs
<1>2. CASE run.script \in PathBs
  BY <1>2, InPathB DEF ScriptLen, PathBs
<1>3. CASE run.script = "isd_flow"
  BY <1>3, InIsdFlow DEF ScriptLen, PathBs
<1>4. CASE run.script = "ssd_flow"
  BY <1>4, InSsdFlow DEF ScriptLen, PathBs
<1>5. CASE run.script \in {"ssd_teardown", "ssd_rescue"}
  BY <1>5, InSsdEnd DEF ScriptLen, PathBs
<1> QED BY <1>1, <1>2, <1>3, <1>4, <1>5 DEF Scripts, PathBs

LEMMA LongNext == Long'
BY LongNow, PTL

\* Between scripts, and from one to the next, a run is where it says.
LEMMA AtRestTyped == AtRest \in RunType /\ AtRest.script = "rest" /\ AtRest.calm = TRUE
                     /\ AtRest.demo = "isd" /\ AtRest.orig = 0 /\ AtRest.cfg = 0
BY DEF AtRest, RunType, Scripts

LEMMA RestInPlace ==
  ASSUME run' = AtRest
  PROVE  run' \in RunType /\ InPlace'
<1>1. run'.script = "rest" /\ run'.demo = "isd" /\ run'.imported = 0
  BY DEF AtRest
<1> QED BY <1>1, AtRestTyped DEF InPlace, IsdScripts

LEMMA FirstPlace ==
  ASSUME run' \in RunType, run'.script # "rest", run'.at = 1,
         run'.demo = IF run'.script \in IsdScripts THEN "isd" ELSE "ssd",
         run'.imported <= IF run'.script = "ssd_rescue" THEN 12 ELSE 9
  PROVE  InPlace'
<1>1. run'.script \in Scripts \ {"rest"}
  BY DEF RunType
<1>2. Len(Script)' = ScriptLen[run'.script]
  BY <1>1, LongNext DEF Long
<1>3. ScriptLen[run'.script] \in Nat /\ ScriptLen[run'.script] >= 1
  BY <1>1 DEF ScriptLen, Scripts, PathBs
<1> QED BY <1>1, <1>2, <1>3 DEF InPlace

LEMMA Leads ==
  ASSUME NEW script \in Scripts \ {"rest"}, NEW s \in RunType, run' = To(s, script),
         s.demo = IF script \in IsdScripts THEN "isd" ELSE "ssd",
         s.imported <= IF script = "ssd_rescue" THEN 12 ELSE 9
  PROVE  run' \in RunType /\ InPlace'
<1>1. run' \in RunType /\ run'.script = script /\ run'.at = 1 /\ run'.demo = s.demo
      /\ run'.imported = s.imported
  BY DEF To, RunType
<1> QED BY <1>1, FirstPlace

\* Nothing is in hand.
LEMMA NothingInHand ==
  ASSUME call' = NoCall, result' = NoResult, did' = {}
  PROVE  InHand'
BY DEF InHand

\* An instruction that is not Close makes calls of its own kind.
LEMMA AskedFor ==
  ASSUME run \in RunType, InPlace, run.script # "rest", NEW c, Asks(c)
  PROVE  /\ Calls(Here) \/ TriesOriginal(Here)
         /\ c.op \notin {"none", "set_card_status"}
<1>1. Calls(Here) \/ TriesOriginal(Here)
  BY HereIs, OthersAre DEF Asks
<1>2. Here.call.op \notin {"none", "set_card_status"}
  BY <1>1 DEF Calls, TriesOriginal
<1> QED BY <1>1, <1>2 DEF Asks

\* The fields a run keeps when it goes to another script.
LEMMA RunFields ==
  ASSUME NEW r \in RunType
  PROVE  /\ r.demo \in {"isd", "ssd"} /\ r.script \in Scripts /\ r.at \in Nat /\ r.orig \in Nat
         /\ r.imported \in Nat /\ r.cfg \in Nat /\ r.calm \in BOOLEAN
         /\ r.keep \in BOOLEAN /\ r.tried \subseteq Nat
BY DEF RunType

\* Where a script leads that is through, or a step of which has failed, is a
\* script of the same program, or rest.
LEMMA ThroughInPlace ==
  ASSUME card \in CardType, run \in RunType, InPlace, run.script # "rest",
         NEW r \in RunType, r.script = run.script, r.demo = run.demo, r.imported = run.imported,
         run' = Through(r) \/ run' = Failed(r)
  PROVE  run' \in RunType /\ InPlace'
<1>1. CASE run' = AtRest
  BY <1>1, RestInPlace
<1>2. /\ r.demo = IF r.script \in IsdScripts THEN "isd" ELSE "ssd"
      /\ r.imported \in Nat /\ r.imported <= IF r.script = "ssd_rescue" THEN 12 ELSE 9
      /\ r.script \in Scripts
  BY RunFields DEF InPlace
<1>3. ASSUME NEW script \in {"isd_flow", "A", "B51", "B50"}, r.script \in IsdScripts, run' = To(r, script)
      PROVE  run' \in RunType /\ InPlace'
  <2>1. script \in Scripts \ {"rest"} /\ script \in IsdScripts /\ script # "ssd_rescue"
    BY DEF Scripts, IsdScripts
  <2>2. r.demo = "isd" /\ r.imported <= 9
    BY <1>2, <1>3 DEF IsdScripts
  <2> QED BY <1>3, <2>1, <2>2, Leads
<1>4. CASE r.script \in Cleanups /\ run' = To([r EXCEPT !.phase = "after"], "isd_flow")
  <2>1. PICK s : s = [r EXCEPT !.phase = "after"]
    OBVIOUS
  <2>2. s \in RunType /\ s.demo = "isd" /\ s.imported <= 9
    BY <1>2, <1>4, <2>1 DEF RunType, IsdScripts, Cleanups
  <2> QED BY <1>4, <2>1, <2>2, Leads DEF Scripts, IsdScripts
<1>5. CASE r.script = "ssd_flow" /\ run' = To(r, "ssd_teardown")
  BY <1>2, <1>5, Leads DEF Scripts, IsdScripts
<1>6. CASE /\ r.script \in {"ssd_flow", "ssd_teardown"}
           /\ run' = To([r EXCEPT !.reported = Versions(card.keys[Isd]), !.orig = 0, !.imported = @ + 3], "ssd_rescue")
  <2>1. PICK reported : reported = Versions(card.keys[Isd])
    OBVIOUS
  <2>2. PICK s : s = [r EXCEPT !.reported = reported, !.orig = 0, !.imported = @ + 3]
    OBVIOUS
  <2>3. reported \subseteq Kvns
    BY <2>1 DEF Versions
  <2>4. s \in RunType /\ s.demo = r.demo /\ s.imported = r.imported + 3
    <3>1. PICK n : n = r.imported + 3
      OBVIOUS
    <3>2. n \in Nat /\ s = [r EXCEPT !.reported = reported, !.orig = 0, !.imported = n]
      BY <1>2, <2>2, <3>1
    <3>3. PICK s1 : s1 = [r EXCEPT !.reported = reported]
      OBVIOUS
    <3>4. s1 \in RunType /\ s1.demo = r.demo
      BY <2>3, <3>3 DEF RunType
    <3>5. s = [s1 EXCEPT !.orig = 0, !.imported = n]
      BY <3>2, <3>3
    <3>6. s \in RunType /\ s.demo = s1.demo /\ s.imported = n
      <4>1. PICK s2 : s2 = [s1 EXCEPT !.orig = 0]
        OBVIOUS
      <4>2. s2 \in RunType /\ s2.demo = s1.demo
        BY <3>4, <4>1 DEF RunType
      <4>3. s = [s2 EXCEPT !.imported = n]
        BY <3>5, <4>1
      <4> QED BY <3>2, <4>2, <4>3 DEF RunType
    <3> QED BY <3>1, <3>4, <3>6
  <2>5. s.demo = "ssd" /\ s.imported <= 12
    BY <1>2, <1>6, <2>4 DEF IsdScripts
  <2> QED BY <1>6, <2>1, <2>2, <2>4, <2>5, Leads DEF Scripts, IsdScripts
<1>7. run' = Through(r) =>
        \/ run' = AtRest
        \/ r.script \in Cleanups /\ run' = To([r EXCEPT !.phase = "after"], "isd_flow")
        \/ r.script = "isd_flow" /\ run' = To(r, "A")
        \/ r.script = "ssd_flow" /\ run' = To(r, "ssd_teardown")
  BY DEF Through
<1>8. run' = Failed(r) =>
        \/ run' = AtRest
        \/ r.script \in {"A", "B51", "isd_flow"} /\ \E script \in {"A", "B51", "B50"} : run' = To(r, script)
        \/ /\ r.script \in {"ssd_flow", "ssd_teardown"}
           /\ run' = To([r EXCEPT !.reported = Versions(card.keys[Isd]), !.orig = 0, !.imported = @ + 3], "ssd_rescue")
  BY DEF Failed
<1>9. {"A", "B51", "isd_flow"} \subseteq IsdScripts
  BY DEF IsdScripts
<1> QED BY <1>1, <1>3, <1>4, <1>5, <1>6, <1>7, <1>8, <1>9

\* To the next instruction.
LEMMA NextInPlace ==
  ASSUME run \in RunType, InPlace, run.script # "rest", run.at # Len(Script),
         NEW r \in RunType, r.script = run.script, r.demo = run.demo, r.imported = run.imported,
         r.at = run.at, run' = Onward(r)
  PROVE  /\ run' \in RunType /\ InPlace' /\ run'.script = run.script /\ run'.at = run.at + 1
         /\ run'.orig = r.orig /\ run'.cfg = r.cfg /\ run'.demo = run.demo
         /\ run'.calm = r.calm
<1>1. run' = [r EXCEPT !.at = @ + 1, !.tried = {}]
  BY DEF Onward
<1>2. run' \in RunType
  <2>1. [r EXCEPT !.at = @ + 1] \in RunType
    BY DEF RunType
  <2>2. run' = [[r EXCEPT !.at = @ + 1] EXCEPT !.tried = {}]
    BY <1>1
  <2> QED BY <2>1, <2>2 DEF RunType
<1>3. /\ run'.script = run.script /\ run'.at = run.at + 1 /\ run'.demo = run.demo
      /\ run'.imported = run.imported /\ run'.orig = r.orig /\ run'.cfg = r.cfg
      /\ run'.calm = r.calm
  BY <1>1 DEF RunType
<1>4. run.script \in Scripts \ {"rest"}
  BY DEF RunType
<1>5. Len(Script) = ScriptLen[run.script]
  BY <1>4, LongNow DEF Long
<1>6. Len(Script)' = ScriptLen[run.script]
  BY <1>3, <1>4, LongNext DEF Long
<1>7. ScriptLen[run.script] \in Nat
  BY <1>4 DEF ScriptLen, Scripts, PathBs
<1> QED BY <1>2, <1>3, <1>4, <1>5, <1>6, <1>7 DEF InPlace

\* A new process.
LEMMA StartPlaced ==
  ASSUME Placed, NEW demo \in {"isd", "ssd"}, NEW keep \in BOOLEAN, NEW cfg \in Configured,
         Start(demo, keep, cfg)
  PROVE  Placed'
<1>1. /\ call = NoCall /\ result = NoResult /\ did = {} /\ run.script = "rest"
      /\ TypedInv /\ faults \in 0 .. MaxFaults
  BY DEF Placed, DemoTypes, InHand, Start
<1>2. PICK reported : reported = Versions(card.keys[Isd])
  OBVIOUS
<1>3. PICK script \in {"A", "ssd_flow"} : script = IF demo = "isd" THEN "A" ELSE "ssd_flow"
  OBVIOUS
<1>4. PICK first \in FirstListed :
        run' = [AtRest EXCEPT !.demo = demo, !.script = script, !.keep = keep, !.cfg = cfg, !.imported = 9,
                              !.reported = reported, !.first = first]
  BY <1>2, <1>3 DEF Start
<1>5. cfg \in Nat /\ reported \subseteq Kvns /\ first \in {0} \cup (Kvns \ DemoKvns)
  BY <1>2, DemoAssumption, KvnsAssumption DEF Versions, FirstListed
<1>6. PICK t : t = [AtRest EXCEPT !.demo = demo, !.script = script, !.keep = keep]
  OBVIOUS
<1>7. t \in RunType /\ t.demo = demo /\ t.script = script /\ t.at = 1
  <2>1. script \in Scripts /\ AtRest.at = 1
    BY DEF Scripts, AtRest
  <2> QED BY <1>6, <2>1, AtRestTyped DEF RunType
<1>8. run' = [t EXCEPT !.cfg = cfg, !.imported = 9, !.reported = reported, !.first = first]
  BY <1>4, <1>6
<1>9. run' \in RunType /\ InPlace'
  <2>1. run' \in RunType /\ run'.script = script /\ run'.at = 1 /\ run'.demo = demo /\ run'.imported = 9
    BY <1>5, <1>7, <1>8 DEF RunType
  <2>2. demo = IF script \in IsdScripts THEN "isd" ELSE "ssd"
    BY <1>3 DEF IsdScripts
  <2> QED BY <1>3, <2>1, <2>2, FirstPlace
<1>10. call' = NoCall /\ result' = NoResult /\ did' = {} /\ chan' = NoChan /\ card' = card
       /\ known' = known /\ faults' = faults /\ cleaned' = "no"
  BY <1>1 DEF Start
<1>11. TypedInv'
  <2>1. card \in CardType
    BY <1>1 DEF TypedInv, TypeOK
  <2> QED BY <1>1, <1>10, <2>1, QuietTyped
<1> QED BY <1>1, <1>9, <1>10, <1>11, NothingInHand DEF Placed, DemoTypes

\* A call that begins at an instruction that stays where it is.
LEMMA BegunPlaced ==
  ASSUME Placed, run.script # "rest", NEW c, Asks(c), c \in CallType, Makeable(c), Begin(c), SamePlace,
         faults' = faults, cleaned' = "no"
  PROVE  Placed'
<1>1. TypedInv /\ run \in RunType /\ InPlace
  BY DEF Placed, DemoTypes
<1>2. c.op \notin {"none", "set_card_status"}
  BY <1>1, AskedFor
<1>3. IInv' /\ CallTyped'
  BY <1>1, <1>2, BeginTyped, BeginKeepsIInv DEF Honest, TypedInv
<1>4. did' = {} /\ UNCHANGED <<card, chan, known>>
  BY <1>2, BeginIs
<1>5. TypedInv'
  BY <1>1, <1>3, <1>4 DEF TypedInv, TypeOK, CallTyped
<1>6. run' \in RunType /\ InPlace' /\ Here' = Here /\ run'.script = run.script
  BY <1>1, SameHere DEF SamePlace
<1>7. \/ call' = c /\ call' # NoCall /\ result' = NoResult
      \/ call' = NoCall /\ result'.call = c /\ result' # NoResult
  BY <1>2, BeginIs
<1>8. InHand'
  BY <1>4, <1>6, <1>7 DEF InHand, Asks
<1> QED BY <1>5, <1>6, <1>8 DEF Placed, DemoTypes

LEMMA MakeCallPlaced ==
  ASSUME Placed, MakeCall
  PROVE  Placed' /\ SamePlace /\ Calls(Here) /\ Asks(Here.call)
<1>1. run.script # "rest" /\ Here.do = "call" /\ Begin(Here.call) /\ run' = run
      /\ faults' = faults /\ cleaned' = "no"
  BY DEF MakeCall, Idle
<1>2. run \in RunType /\ InPlace
  BY DEF Placed, DemoTypes
<1>3. Calls(Here)
  BY <1>1, <1>2, HereIs, OthersAre DEF TriesOriginal
<1>4. Asks(Here.call)
  BY <1>1 DEF Asks
<1>5. SamePlace
  BY <1>1, <1>2, RunStays
<1> QED BY <1>1, <1>3, <1>4, <1>5, BegunPlaced DEF Calls

LEMMA TryOriginalPlaced ==
  ASSUME Placed, TryOriginal
  PROVE  /\ Placed' /\ SamePlace /\ TriesOriginal(Here)
         /\ \E kvn \in Untried : /\ Asks([Here.call EXCEPT !.kvn = kvn]) /\ Begin([Here.call EXCEPT !.kvn = kvn])
                                 /\ [Here.call EXCEPT !.kvn = kvn] \in CallType
<1>1. run \in RunType /\ InPlace
  BY DEF Placed, DemoTypes
<1>2. PICK kvn \in Untried : Begin([Here.call EXCEPT !.kvn = kvn]) /\ run' = [run EXCEPT !.tried = @ \cup {kvn}]
  BY DEF TryOriginal
<1>3. run.script # "rest" /\ Here.do = "original" /\ faults' = faults /\ cleaned' = "no"
  BY DEF TryOriginal, Idle
<1>4. kvn \in Nat /\ kvn <= 127
  BY <1>1, UntriedIs
<1>5. TriesOriginal(Here)
  BY <1>1, <1>3, HereIs, OthersAre DEF Calls
<1>6. PICK c : c = [Here.call EXCEPT !.kvn = kvn]
  OBVIOUS
<1>7. c \in CallType
  BY <1>4, <1>5, <1>6 DEF TriesOriginal
<1>8. c.op = Here.call.op /\ c.x = Here.call.x /\ c.value = Here.call.value /\ c.dek = Here.call.dek
      /\ c.kvn = kvn /\ c.at = Here.call.at
  BY <1>6, <1>7 DEF CallType
<1>9. Asks(c) /\ Makeable(c)
  BY <1>3, <1>4, <1>5, <1>8 DEF Asks, Makeable, TriesOriginal
<1>10. SamePlace
  BY <1>1, <1>2, <1>4, RunStays
<1>11. Placed'
  BY <1>2, <1>3, <1>6, <1>7, <1>9, <1>10, BegunPlaced
<1> QED BY <1>2, <1>5, <1>6, <1>7, <1>9, <1>10, <1>11

\* A step of the workflow under way.
LEMMA PerformPlaced ==
  ASSUME Placed, Perform
  PROVE  Placed' /\ SamePlace
<1>1. TypedInv /\ run \in RunType /\ InPlace /\ InHand
  BY DEF Placed, DemoTypes
<1>2. Workflow /\ run' = run /\ faults' = faults /\ cleaned' = cleaned
  BY DEF Perform
<1>3. call # NoCall
  BY <1>1, <1>2, WorkflowAnswers DEF TypedInv
<1>4. Asks(call) /\ run.script # "rest"
  BY <1>1, <1>3 DEF InHand
<1>5. call.op # "set_card_status"
  BY <1>1, <1>4, AskedFor
<1>6. result = NoResult
  BY <1>1, <1>3 DEF TypedInv, IInv, SoFar
<1>7. TypedInv'
  <2>1. Next
    BY <1>2 DEF Next
  <2> QED BY <1>1, <2>1, NextTyped
<1>8. SamePlace
  BY <1>1, <1>2, RunStays
<1>9. run' \in RunType /\ InPlace' /\ Here' = Here /\ run'.script = run.script
  BY <1>1, <1>8, SameHere DEF SamePlace
<1>10. InHand'
  <2>1. CASE call' = NoCall /\ result'.call = call /\ result' # NoResult
    BY <1>4, <1>9, <2>1 DEF InHand, Asks
  <2>2. CASE call' = [call EXCEPT !.at = "second"] /\ result' = result /\ call.op = "delete_applet"
    <3>1. /\ call'.op = call.op /\ call'.x = call.x /\ call'.value = call.value /\ call'.dek = call.dek
          /\ call'.kvn = call.kvn
      BY <1>1, <2>2 DEF TypedInv, TypeOK, CallType
    <3>2. call' # NoCall
      BY <2>2, <3>1, Quiet
    <3> QED BY <1>4, <1>6, <1>9, <2>2, <3>1, <3>2 DEF InHand, Asks
  <2> QED BY <1>1, <1>2, <1>5, <2>1, <2>2, WorkflowIs
<1> QED BY <1>1, <1>2, <1>7, <1>8, <1>9, <1>10 DEF Placed, DemoTypes

\* An exchange lost.
LEMMA LosePlaced ==
  ASSUME Placed, Lose
  PROVE  Placed' /\ SamePlace
<1>1. TypedInv /\ run \in RunType /\ InPlace /\ InHand /\ faults \in 0 .. MaxFaults
  BY DEF Placed, DemoTypes
<1>2. /\ ExchangeLost /\ run' = [run EXCEPT !.calm = FALSE] /\ cleaned' = cleaned
      /\ faults < MaxFaults /\ faults' = faults + 1 /\ call # NoCall
  BY DEF Lose, ExchangeLost
<1>3. Asks(call) /\ run.script # "rest"
  BY <1>1, <1>2 DEF InHand
<1>4. call.op \notin {"none", "set_card_status"}
  BY <1>1, <1>3, AskedFor
<1>5. call' = NoCall /\ result'.call = call /\ result' # NoResult
  BY <1>2, <1>4, Returning DEF ExchangeLost
<1>6. TypedInv'
  <2>1. Next
    BY <1>2 DEF Next
  <2> QED BY <1>1, <2>1, NextTyped
<1>7. SamePlace
  BY <1>1, <1>2, RunStays
<1>8. run' \in RunType /\ InPlace' /\ Here' = Here /\ run'.script = run.script
  BY <1>1, <1>7, SameHere DEF SamePlace
<1>9. InHand'
  BY <1>3, <1>5, <1>8 DEF InHand, Asks
<1>10. faults' \in 0 .. MaxFaults
  BY <1>1, <1>2, DemoAssumption
<1> QED BY <1>2, <1>1, <1>6, <1>7, <1>8, <1>9, <1>10 DEF Placed, DemoTypes

\* A step of the program that asks the card nothing, and goes on.
LEMMA GoesOnPlaced ==
  ASSUME Placed, run.script # "rest", NEW r \in RunType, r.script = run.script, r.demo = run.demo,
         r.imported = run.imported, r.at = run.at,
         run' = AtRest \/ run' = run \/ run' = Onward(r) \/ run' = Failed(r),
         chan' \in {chan, NoChan}, card' = card, call' = NoCall, result' = NoResult, did' = {},
         known' = known, faults' = faults, cleaned' \in {"no", "yes", "calmly"}
  PROVE  Placed'
<1>1. TypedInv /\ run \in RunType /\ InPlace /\ faults \in 0 .. MaxFaults /\ card \in CardType
  BY DEF Placed, DemoTypes, TypedInv, TypeOK
<1>2. TypedInv'
  BY <1>1, QuietTyped
<1>3. run' \in RunType /\ InPlace'
  <2>1. CASE run' = AtRest
    BY <2>1, RestInPlace
  <2>2. CASE run' = run
    <3>1. SamePlace
      BY <1>1, <2>2, RunStays
    <3> QED BY <1>1, <3>1, SameHere DEF SamePlace
  <2>3. CASE run' = Failed(r)
    BY <1>1, <2>3, ThroughInPlace
  <2>4. CASE run' = Onward(r) /\ run.at = Len(Script)
    <3>1. run' = Through(r)
      BY <2>4 DEF Onward
    <3> QED BY <1>1, <3>1, ThroughInPlace
  <2>5. CASE run' = Onward(r) /\ run.at # Len(Script)
    BY <1>1, <2>5, NextInPlace
  <2> QED BY <2>1, <2>2, <2>3, <2>4, <2>5
<1> QED BY <1>1, <1>2, <1>3, NothingInHand DEF Placed, DemoTypes

\* Close, and on to what follows.
LEMMA CloseHerePlaced ==
  ASSUME Placed, CloseHere
  PROVE  Placed'
<1>1. /\ run.script # "rest" /\ call = NoCall /\ result = NoResult /\ did = {} /\ run \in RunType
      /\ cleaned' \in {"no", "yes", "calmly"}
  BY DEF CloseHere, Idle, Placed, DemoTypes, InHand
<1>2. /\ chan' = NoChan /\ card' = card /\ call' = NoCall /\ result' = NoResult /\ did' = {}
      /\ known' = known /\ faults' = faults /\ run' = Onward(run)
  BY <1>1 DEF CloseHere, CloseChannel
<1>3. PICK r \in RunType : r = run
  BY <1>1
<1> QED BY <1>1, <1>2, <1>3, GoesOnPlaced

\* The program acts on what a call returned.
LEMMA ReturnedIs ==
  ASSUME Placed, Returned
  PROVE  /\ run.script # "rest" /\ result # NoResult /\ Asks(result.call) /\ run.at # Len(Script)
         /\ UNCHANGED <<card, chan, known, faults, cleaned>>
         /\ call = NoCall /\ call' = NoCall /\ result' = NoResult /\ did' = {}
         /\ \E r \in RunType :
              /\ r.script = run.script /\ r.demo = run.demo /\ r.imported = run.imported /\ r.at = run.at
              /\ r.cfg = run.cfg /\ r.calm = run.calm
              /\ r.orig = IF Confirms /\ result.err \in {"none"} \cup Here.bear THEN result.report.kvn ELSE run.orig
              /\ \/ run' = AtRest
                 \/ run' = Onward(r) /\ result.err \in {"none"} \cup Here.bear /\ ~ AtDemoVersion
                 \/ run' = Failed(r) /\ r = run
                 \/ run' = r /\ r = run
<1>1. /\ run \in RunType /\ InPlace /\ InHand /\ result.report.kvn \in Nat
      /\ run.script # "rest" /\ result # NoResult
  BY DEF Placed, DemoTypes, TypedInv, TypeOK, ResultType, ReportType, Returned
<1>2. Asks(result.call)
  BY <1>1 DEF InHand
<1>3. run.at # Len(Script)
  BY <1>1, <1>2, LastIsClose, OthersAre DEF Asks
<1>4. PICK r : r = IF Confirms /\ result.err \in {"none"} \cup Here.bear
                   THEN [run EXCEPT !.orig = result.report.kvn] ELSE run
  OBVIOUS
<1>5. /\ r \in RunType
      /\ r.script = run.script /\ r.demo = run.demo /\ r.imported = run.imported /\ r.at = run.at
      /\ r.cfg = run.cfg /\ r.calm = run.calm
      /\ r.orig = IF Confirms /\ result.err \in {"none"} \cup Here.bear THEN result.report.kvn ELSE run.orig
  BY <1>1, <1>4 DEF RunType
<1>6. CASE result.err \in {"none"} \cup Here.bear
  <2>1. run' = AtRest \/ (~ AtDemoVersion /\ run' = Onward(r))
    <3>1. PICK q : q = IF Confirms THEN [run EXCEPT !.orig = result.report.kvn] ELSE run
      OBVIOUS
    <3>2. run' = IF AtDemoVersion THEN AtRest ELSE Onward(q)
      BY <1>6, <3>1 DEF Returned
    <3>3. r = q
      BY <1>4, <1>6, <3>1
    <3> QED BY <3>2, <3>3 DEF AtDemoVersion
  <2> QED BY <1>1, <1>2, <1>3, <1>5, <1>6, <2>1 DEF Returned
<1>7. CASE result.err \notin {"none"} \cup Here.bear
  <2>1. r = run
    BY <1>4, <1>7
  <2>2. run' = run \/ run' = Failed(run)
    BY <1>7 DEF Returned
  <2> QED BY <1>1, <1>2, <1>3, <1>5, <2>1, <2>2 DEF Returned
<1> QED BY <1>6, <1>7

LEMMA ReturnedPlaced ==
  ASSUME Placed, Returned
  PROVE  Placed'
<1>1. cleaned \in {"no", "yes", "calmly"}
  BY DEF Placed, DemoTypes
<1>2. PICK r \in RunType :
        /\ r.script = run.script /\ r.demo = run.demo /\ r.imported = run.imported /\ r.at = run.at
        /\ run' = AtRest \/ run' = run \/ run' = Onward(r) \/ run' = Failed(r)
  BY ReturnedIs
<1> QED BY <1>1, <1>2, ReturnedIs, GoesOnPlaced

\* The process ends wherever it is.
LEMMA KilledPlaced ==
  ASSUME Placed, Killed
  PROVE  Placed'
<1>1. TypedInv /\ run \in RunType /\ InPlace /\ InHand /\ faults \in 0 .. MaxFaults /\ card \in CardType
  BY DEF Placed, DemoTypes, TypedInv, TypeOK
<1>2. /\ run' = AtRest /\ faults' = faults + 1 /\ faults < MaxFaults /\ cleaned' = "no"
      /\ chan' = NoChan /\ call' = NoCall /\ result' = NoResult /\ did' = {} /\ known' = known
  BY DEF Killed
<1>6. card' = card \/ (call # NoCall /\ \E r \in Replies(Pending) : card' = r.card)
  BY DEF Killed
<1>3. card' \in CardType /\ card'.life = card.life
  <2>1. CASE card' = card
    BY <1>1, <2>1
  <2>2. ASSUME call # NoCall, NEW r \in Replies(Pending), card' = r.card
        PROVE  card' \in CardType /\ card'.life = card.life
    <3>1. card' \in CardType
      BY <1>1, <2>2, PendingTyped DEF TypedReply
    <3>2. call.op # "set_card_status"
      <4>1. Asks(call) /\ run.script # "rest"
        BY <1>1, <2>2 DEF InHand
      <4> QED BY <1>1, <4>1, AskedFor
    <3> QED BY <1>1, <2>2, <3>1, <3>2, PendingKept DEF TypedInv
  <2> QED BY <1>6, <2>1, <2>2
<1>4. TypedInv'
  BY <1>1, <1>2, <1>3, QuietTyped
<1>5. faults' \in 0 .. MaxFaults
  BY <1>1, <1>2, DemoAssumption
<1> QED BY <1>2, <1>4, <1>5, RestInPlace, NothingInHand DEF Placed, DemoTypes

LEMMA InitPlaced == DemoInit => Placed
<1> SUFFICES ASSUME DemoInit PROVE Placed
  OBVIOUS
<1>1. Init /\ run = AtRest /\ faults = 0 /\ cleaned = "no"
  BY DEF DemoInit
<1>2. TypedInv
  BY <1>1, InitTyped
<1>3. InPlace
  <2>1. run.script = "rest" /\ run.demo = "isd" /\ run.imported = 0
    BY <1>1 DEF AtRest
  <2> QED BY <2>1 DEF InPlace, IsdScripts
<1>4. InHand
  BY <1>1 DEF Init, InHand
<1> QED BY <1>1, <1>2, <1>3, <1>4, AtRestTyped, DemoAssumption DEF Placed, DemoTypes

LEMMA NextPlaced ==
  ASSUME Placed, [DemoNext]_demoVars
  PROVE  Placed'
<1>1. CASE UNCHANGED demoVars
  <2>1. /\ UNCHANGED <<card, chan, call, result, did, known>> /\ run' = run
        /\ faults' = faults /\ cleaned' = cleaned
    BY <1>1 DEF demoVars, vars
  <2>2. TypedInv'
    <3>1. UNCHANGED vars /\ TypedInv
      BY <2>1 DEF vars, Placed, DemoTypes
    <3> QED BY <3>1, NextTyped
  <2>3. SamePlace /\ InPlace' /\ Here' = Here
    <3>1. run \in RunType /\ InPlace
      BY DEF Placed, DemoTypes
    <3>2. SamePlace
      BY <2>1, <3>1, RunStays
    <3> QED BY <3>1, <3>2, SameHere
  <2>4. InHand'
    BY <2>1, <2>3 DEF Placed, InHand, Asks
  <2> QED BY <2>1, <2>2, <2>3, <2>4 DEF Placed, DemoTypes
<1>2. CASE DemoNext
  <2>1. CASE \E demo \in {"isd", "ssd"}, keep \in BOOLEAN, cfg \in Configured : Start(demo, keep, cfg)
    BY <2>1, StartPlaced
  <2> QED BY <1>2, <2>1, MakeCallPlaced, TryOriginalPlaced, PerformPlaced, CloseHerePlaced,
          ReturnedPlaced, LosePlaced, KilledPlaced DEF DemoNext, Work
<1> QED BY <1>1, <1>2

\* Inductive for any card: the types, the run's place and what it has in hand.
THEOREM DemoPlaced == DemoSpec => []Placed
<1>1. Placed /\ [DemoNext]_demoVars => Placed'
  BY NextPlaced
<1> QED BY <1>1, InitPlaced, PTL DEF DemoSpec

\* DemoTypeOK: every variable keeps its type, and the key table, imported into
\* again by the rescue of ssd-lifecycle, never holds more than MAX_KEYS keys.
THEOREM DemosKeepTypes == DemoSpec => []DemoTypeOK
<1>1. Placed => DemoTypeOK
  <2> SUFFICES ASSUME Placed PROVE DemoTypeOK
    OBVIOUS
  <2>1. run \in RunType /\ run.imported <= 12
    BY DEF Placed, DemoTypes, InPlace, RunType
  <2> QED BY <2>1 DEF Placed, DemoTypes, TypedInv, DemoTypeOK, MAX_KEYS, RunType
<1> QED BY <1>1, DemoPlaced, PTL

------------------------------------------------------------------------------
(***************************************************************************)
(* What an answer does to the keysets of the ISD                           *)
(***************************************************************************)
SameIsdKeys(c, d) == d.keys[Isd] = c.keys[Isd] /\ d.default = c.default /\ d.quirky = c.quirky

NoDrop(r) == \A e \in r.did : e.did # "dropped"

\* The versions an ISD has, and the selectors they answer to.
LEMMA SelectedOnIsd ==
  ASSUME NEW c, NEW sel
  PROVE  /\ KeysOf(c, Isd) = c.keys[Isd]
         /\ Selected(c, Isd, sel) =
              {k \in Versions(c.keys[Isd]) :
                 \/ k = sel
                 \/ sel = 0 /\ c.quirky /\ k = c.default
                 \/ sel = 0 /\ ~ c.quirky /\ (c.default \in Versions(c.keys[Isd]) => k = c.default)}
<1>1. KeysOf(c, Isd) = c.keys[Isd]
  BY DEF KeysOf
<1> QED BY <1>1 DEF Selected

\* A card whose ISD keysets are the same answers to the same selectors.
LEMMA SameSelected ==
  ASSUME NEW c, NEW d, SameIsdKeys(c, d)
  PROVE  /\ \A sel : Selected(d, Isd, sel) = Selected(c, Isd, sel)
         /\ \A k : Reachable(c, k) <=> Reachable(d, k)
         /\ Addressable(c) <=> Addressable(d)
<1>1. ASSUME NEW sel PROVE Selected(d, Isd, sel) = Selected(c, Isd, sel)
  BY SelectedOnIsd DEF SameIsdKeys
<1> QED BY <1>1 DEF Reachable, Addressable, SameIsdKeys

\* A keyset of a known value that can be reached can be addressed.
LEMMA ReachableIsAddressable ==
  ASSUME NEW c, NEW k \in Kvns, Reachable(c, k), c.keys[Isd][k] \in {IsdKeys, Ks1, Ks2}
  PROVE  Addressable(c)
<1>1. c.keys[Isd][k] # NoKey
  BY ConstantsTyped
<1>2. k \in Versions(c.keys[Isd])
  BY <1>1 DEF Versions
<1>3. k \in Nat
  BY KvnsAssumption
<1>4. CASE k <= 127
  <2>1. k \in 0 .. 127 /\ k \in Selected(c, Isd, k)
    BY <1>2, <1>3, <1>4, SelectedOnIsd
  <2> QED BY <2>1 DEF Addressable
<1>5. CASE k \in Selected(c, Isd, 0)
  <2>1. 0 \in 0 .. 127
    OBVIOUS
  <2> QED BY <1>5, <2>1 DEF Addressable
<1> QED BY <1>4, <1>5 DEF Reachable

\* Objects come and go, and the ISD's keysets stay.
LEMMA ObjectsLeaveIsdKeys ==
  ASSUME NEW c \in CardType
  PROVE  /\ \A d : \A r \in Loads(c, d) : SameIsdKeys(c, r.card) /\ NoDrop(r)
         /\ \A x : \A r \in Installs(c, x) : SameIsdKeys(c, r.card) /\ NoDrop(r)
         /\ \A x \in Domains \cup Objects : \A cascade :
              \A r \in Deletes(c, x, cascade) : SameIsdKeys(c, r.card) /\ NoDrop(r)
         /\ \A sw : SameIsdKeys(c, Says(c, sw).card) /\ NoDrop(Says(c, sw))
<1>1. ASSUME NEW r, (\E sw : r = Says(c, sw)) \/ r \in Refused(c)
      PROVE  SameIsdKeys(c, r.card) /\ NoDrop(r)
  <2>1. \E sw : r = Says(c, sw)
    BY <1>1 DEF Refused
  <2> QED BY <2>1 DEF Says, SameIsdKeys, NoDrop
<1>2. ASSUME NEW d, NEW r \in Loads(c, d)
      PROVE  SameIsdKeys(c, r.card) /\ NoDrop(r)
  <2> DEFINE after == [c EXCEPT !.home[Package] = d]
  <2>1. CASE r = Does(after, {[did |-> "made", what |-> Package]})
    <3>1. SameIsdKeys(c, after)
      BY DEF SameIsdKeys, CardType
    <3> HIDE DEF after
    <3> QED BY <2>1, <3>1 DEF Does, NoDrop
  <2> QED BY <1>1, <1>2, <2>1 DEF Loads
<1>3. ASSUME NEW x, NEW r \in Installs(c, x)
      PROVE  SameIsdKeys(c, r.card) /\ NoDrop(r)
  <2> DEFINE after == [c EXCEPT !.home[x] = IF x \in Applets THEN c.home[Package] ELSE Isd]
  <2>1. CASE r = Does(after, {[did |-> "made", what |-> x]})
    <3>1. SameIsdKeys(c, after)
      BY DEF SameIsdKeys, CardType
    <3> HIDE DEF after
    <3> QED BY <2>1, <3>1 DEF Does, NoDrop
  <2> QED BY <1>1, <1>3, <2>1 DEF Installs
<1>4. ASSUME NEW x \in Domains \cup Objects, NEW cascade, NEW r \in Deletes(c, x, cascade)
      PROVE  SameIsdKeys(c, r.card) /\ NoDrop(r)
  <2> DEFINE gone == {x} \cup Needed(c, x)
             after == [c EXCEPT !.home = [o \in Objects |-> IF o \in gone THEN Absent ELSE @[o]],
                                !.keys = [d \in Domains |-> IF d \in gone THEN [k \in Kvns |-> NoKey] ELSE @[d]]]
  <2>1. CASE r = Does(after, {[did |-> "deleted", what |-> o] : o \in gone}) /\ x # Isd
    <3>1. Isd \notin gone
      BY <2>1, NamesAssumption DEF Needed, Owns, Objects
    <3>2. Isd \in Domains
      BY DEF Domains
    <3>3. after.keys = [d \in Domains |-> IF d \in gone THEN [k \in Kvns |-> NoKey] ELSE c.keys[d]]
          /\ after.default = c.default /\ after.quirky = c.quirky
      BY DEF CardType
    <3> HIDE DEF after, gone
    <3>4. SameIsdKeys(c, after)
      BY <3>1, <3>2, <3>3 DEF SameIsdKeys
    <3> QED BY <2>1, <3>4 DEF Does, NoDrop
  <2> QED BY <1>1, <1>4, <2>1 DEF Deletes
<1> QED BY <1>1, <1>2, <1>3, <1>4

\* PUT KEY to another domain leaves the ISD alone; to the ISD, the new keyset
\* can be addressed by its number.
LEMMA PutsKeyOnIsd ==
  ASSUME NEW c \in CardType, NEW d \in Domains, NEW kvn, NEW value, NEW r \in PutsKey(c, d, kvn, value)
  PROVE  /\ NoDrop(r)
         /\ \/ SameIsdKeys(c, r.card)
            \/ d = Isd /\ (value \in {IsdKeys, Ks1, Ks2} => Addressable(r.card))
<1> DEFINE first == c.quirky /\ c.virgin /\ d = Isd
           old == IF first THEN [k \in Kvns |-> NoKey] ELSE c.keys[d]
           after == [c EXCEPT !.keys[d] = [old EXCEPT ![kvn] = value],
                              !.default = IF first THEN kvn ELSE @,
                              !.virgin = @ /\ d # Isd]
           e == {[did |-> "stored", what |-> d, kvn |-> kvn, value |-> value]}
<1>1. CASE r \in Refused(c) \/ r = Says(c, "6A80")
  <2>1. r.card = c /\ r.did = {}
    BY <1>1 DEF Refused, Says
  <2> QED BY <2>1 DEF SameIsdKeys, NoDrop
<1>2. CASE r = Does(after, e) /\ kvn \in Kvns /\ kvn <= 127
  <2>1. NoDrop(r) /\ r.card = after
    BY <1>2 DEF Does, NoDrop
  <2>2. CASE d # Isd
    <3>1. SameIsdKeys(c, after)
      BY <2>2 DEF SameIsdKeys, CardType, Domains
    <3> QED BY <2>1, <3>1
  <2>3. CASE d = Isd
    <3>1. old \in KeyTable
      BY CardFields DEF KeyTable
    <3> HIDE DEF old
    <3>2. after.keys = [c.keys EXCEPT ![d] = [old EXCEPT ![kvn] = value]]
      BY DEF CardType
    <3>3. after.keys[Isd] = [old EXCEPT ![kvn] = value]
      BY <2>3, <3>2, CardFields
    <3>4. after.keys[Isd][kvn] = value
      BY <1>2, <3>1, <3>3 DEF KeyTable
    <3> HIDE DEF after
    <3>5. Reachable(after, kvn)
      BY <1>2 DEF Reachable
    <3> QED BY <1>2, <2>1, <2>3, <3>4, <3>5, ReachableIsAddressable
  <2> QED BY <2>2, <2>3
<1>3. r \in Refused(c) \/ r = Says(c, "6A80")
      \/ (r = Does(after, e) /\ ~ (kvn \notin Kvns \/ kvn > 127 \/ c.keys[d][kvn] # NoKey))
  BY DEF PutsKey
<1>4. kvn \in Kvns /\ ~ kvn > 127 => kvn <= 127
  BY KvnsAssumption
<1> QED BY <1>1, <1>2, <1>3, <1>4

\* DELETE [key] on the ISD takes that version only, and what could be reached
\* without it still can: a card with another default has picked one that is there.
DroppedFrom(c, d, kvn) ==
  /\ kvn \in Versions(c.keys[Isd])
  /\ d.keys[Isd] = [c.keys[Isd] EXCEPT ![kvn] = NoKey]
  /\ \A k \in Versions(c.keys[Isd]) \ {kvn} : Reachable(c, k) => Reachable(d, k)

LEMMA DeletesKeyOnIsd ==
  ASSUME NEW c \in CardType, NEW kvn, NEW r \in DeletesKey(c, Isd, kvn)
  PROVE  /\ r.did \subseteq {[did |-> "dropped", what |-> Isd, kvn |-> kvn]}
         /\ \/ /\ r.card = c /\ r.sw # "9000" /\ r.did = {}
               /\ (NotFoundIsTrue /\ r.sw = "6A88" => kvn \notin Versions(c.keys[Isd]))
            \/ r.sw = "9000" /\ DroppedFrom(c, r.card, kvn)
<1> DEFINE keys == [c.keys[Isd] EXCEPT ![kvn] = NoKey]
           picks == IF Isd # Isd \/ c.quirky \/ Versions(keys) = {} \/ c.default # kvn
                    THEN {c.default} ELSE Versions(keys)
           after(k) == [c EXCEPT !.keys[Isd] = keys, !.default = k]
           e == {[did |-> "dropped", what |-> Isd, kvn |-> kvn]}
<1>1. \/ r \in Refused(c)
      \/ kvn \notin Versions(c.keys[Isd]) /\ r = Says(c, "6A88")
      \/ kvn \in Versions(c.keys[Isd]) /\ \E k \in picks : r = Does(after(k), e)
  BY DEF DeletesKey
<1>2. CASE r \in Refused(c)
  <2>1. PICK sw \in Refusals : r = Says(c, sw)
    BY <1>2 DEF Refused
  <2>2. r.card = c /\ r.sw = sw /\ r.did = {} /\ sw # "9000"
    BY <2>1, RefusalsAssumption DEF Says
  <2> QED BY <2>2 DEF NotFoundIsTrue
<1>3. CASE kvn \notin Versions(c.keys[Isd]) /\ r = Says(c, "6A88")
  <2>1. r.card = c /\ r.sw = "6A88" /\ r.did = {}
    BY <1>3 DEF Says
  <2> QED BY <1>3, <2>1
<1>4. ASSUME kvn \in Versions(c.keys[Isd]), NEW p \in picks, r = Does(after(p), e)
      PROVE  r.sw = "9000" /\ r.did = e /\ DroppedFrom(c, r.card, kvn)
  <2>1. PICK d : d = after(p)
    OBVIOUS
  <2>2. r.card = d /\ r.sw = "9000" /\ r.did = e
    BY <1>4, <2>1 DEF Does
  <2>3. c.keys \in [Domains -> KeyTable] /\ Isd \in Domains /\ c.keys[Isd] \in KeyTable
    BY CardFields DEF Domains
  <2>4. d.keys = [c.keys EXCEPT ![Isd] = keys] /\ d.default = p /\ d.quirky = c.quirky
    BY <2>1 DEF CardType
  <2>5. d.keys[Isd] = keys
    BY <2>3, <2>4
  <2>6. Versions(keys) = Versions(c.keys[Isd]) \ {kvn}
    BY <1>4, <2>3 DEF KeyTable, Versions
  <2>7. ASSUME NEW k \in Versions(c.keys[Isd]) \ {kvn}, Reachable(c, k)
        PROVE  Reachable(d, k)
    <3>1. CASE k <= 127
      BY <3>1 DEF Reachable
    <3>2. CASE k \in Selected(c, Isd, 0)
      <4>1. k \in Kvns /\ k # 0
        BY KvnsAssumption DEF Versions
      <4>2. (c.quirky /\ k = c.default) \/ (~ c.quirky /\ (c.default \in Versions(c.keys[Isd]) => k = c.default))
        BY <3>2, <4>1, SelectedOnIsd
      <4>3. k \in Versions(d.keys[Isd])
        BY <2>5, <2>6
      <4>4. Versions(keys) # {}
        BY <2>6
      <4>5. (c.quirky /\ k = p) \/ (~ c.quirky /\ (p \in Versions(keys) => k = p))
        <5>1. CASE c.quirky
          BY <1>4, <4>2, <5>1
        <5>2. CASE ~ c.quirky /\ c.default # kvn
          <6>1. p = c.default
            BY <1>4, <5>2
          <6> QED BY <2>6, <4>2, <5>2, <6>1
        <5>3. CASE ~ c.quirky /\ c.default = kvn
          BY <1>4, <2>7, <4>2, <5>3
        <5> QED BY <5>1, <5>2, <5>3
      <4> HIDE DEF keys
      <4>6. k \in Selected(d, Isd, 0)
        <5>1. (d.quirky /\ k = d.default) \/ (~ d.quirky /\ (d.default \in Versions(d.keys[Isd]) => k = d.default))
          BY <2>4, <2>5, <4>5
        <5> QED BY <4>3, <5>1, SelectedOnIsd
      <4> QED BY <4>6 DEF Reachable
    <3> QED BY <2>7, <3>1, <3>2 DEF Reachable
  <2> QED BY <1>4, <2>2, <2>5, <2>7 DEF DroppedFrom
<1> QED BY <1>1, <1>2, <1>3, <1>4

------------------------------------------------------------------------------
(***************************************************************************)
(* What the answer a call waits for does to the ISD's keysets              *)
(***************************************************************************)
\* Where the scripts put a keyset on the ISD.
PutsOnIsd ==
  \/ run.script \in PathBs /\ run.at = 4
  \/ run.script = "isd_flow" /\ run.at \in {6, 12}

\* The call in hand is the one the instruction asks for.
LEMMA InHandIs ==
  ASSUME Placed, call # NoCall
  PROVE  /\ Asks(call) /\ run.script # "rest" /\ run \in RunType /\ InPlace /\ Here.do # "close"
         /\ call.op = Here.call.op /\ call.op \notin {"none", "set_card_status"}
         /\ TypedInv /\ call \in CallType /\ card \in CardType /\ chan \in ChanType /\ result = NoResult
<1>1. /\ run.script # "rest" /\ run \in RunType /\ InPlace /\ Asks(call)
      /\ TypedInv /\ call \in CallType /\ card \in CardType /\ chan \in ChanType
  BY DEF Placed, InHand, DemoTypes, TypedInv, TypeOK
<1>2. call.op \notin {"none", "set_card_status"}
  BY <1>1, AskedFor
<1>3. result = NoResult
  BY <1>1 DEF TypedInv, IInv, SoFar
<1> QED BY <1>1, <1>2, <1>3 DEF Asks

\* A PUT KEY to the ISD puts a keyset the programs know, under the DEK of the
\* keyset its session authenticated with.
LEMMA CallPutsOnIsd ==
  ASSUME Placed, KeysInv, call # NoCall, call.op = "put_sd_keys"
  PROVE  \/ chan.sd = Ssd
         \/ PutsOnIsd /\ chan.sd = Isd /\ Received(call) \in {IsdKeys, Ks1, Ks2}
<1>1. /\ Asks(call) /\ run.script # "rest" /\ run \in RunType /\ InPlace /\ Here.do # "close"
      /\ Here.call.op = "put_sd_keys" /\ InUse
  BY InHandIs DEF KeysInv
<1>2. call.value = Here.call.value /\ call.dek = Here.call.dek
  BY <1>1 DEF Asks
<1>3. CASE run.script \in PathBs /\ run.at = 4 /\ Here = Put(Restore, IsdKeys, RescueKeys)
  <2>1. chan.sd = Isd /\ chan.value = RescueKeys
    BY <1>1, <1>3 DEF InUse
  <2>2. call.value = IsdKeys /\ call.dek = RescueKeys
    BY <1>2, <1>3, PutIs
  <2> QED BY <1>3, <2>1, <2>2 DEF PutsOnIsd, Received
<1>4. CASE run.script = "isd_flow" /\ run.at = 6 /\ Here = Put(ISD_KVN_1, Ks1, IsdKeys)
  <2>1. chan.sd = Isd /\ chan.value = IsdKeys
    BY <1>1, <1>4 DEF InUse
  <2>2. call.value = Ks1 /\ call.dek = IsdKeys
    BY <1>2, <1>4, PutIs
  <2> QED BY <1>4, <2>1, <2>2 DEF PutsOnIsd, Received
<1>5. CASE run.script = "isd_flow" /\ run.at = 12 /\ Here = Put(ISD_KVN_2, Ks2, Ks1)
  <2>1. chan.sd = Isd /\ chan.value = Ks1
    BY <1>1, <1>5 DEF InUse
  <2>2. call.value = Ks2 /\ call.dek = Ks1
    BY <1>2, <1>5, PutIs
  <2> QED BY <1>5, <2>1, <2>2 DEF PutsOnIsd, Received
<1>6. CASE run.script = "ssd_flow" /\ run.at \in {8, 18}
  BY <1>1, <1>6 DEF InUse
<1> QED BY <1>1, <1>3, <1>4, <1>5, <1>6, PutsAt

\* A DELETE [key] goes to the ISD for a demo version, in a session of another
\* keyset, which the programs know and the card holds.
LEMMA CallDeletesOnIsd ==
  ASSUME Placed, KeysInv, call # NoCall, call.op = "delete_sd_keyset"
  PROVE  /\ chan.sd = Isd /\ call.kvn \in DemoKvns /\ chan.kvn \in Kvns /\ chan.kvn # call.kvn
         /\ card.keys[Isd][chan.kvn] \in {IsdKeys, Ks1, Ks2} /\ Reachable(card, chan.kvn)
         /\ OriginalInUse \/ (run.script \in PathBs /\ run.at = 3 /\ call.kvn # RescueKvn)
<1>1. /\ Asks(call) /\ run.script # "rest" /\ run \in RunType /\ InPlace /\ Here.do # "close"
      /\ Here.call.op = "delete_sd_keyset" /\ InUse
  BY InHandIs DEF KeysInv
<1>2. call.kvn = Here.call.kvn
  BY <1>1, KeysetDeletesAt DEF Asks
<1>3. ISD_KVN_1 \in DemoKvns /\ ISD_KVN_2 \in DemoKvns
  BY DEF DemoKvns
<1>4. CASE OriginalInUse /\ Here.call.kvn \in DemoKvns
  BY <1>1, <1>2, <1>4 DEF InUse, WithOriginal
<1>5. CASE run.script \in PathBs /\ run.at = 3 /\ Here.call.kvn \in DemoKvns \ {RescueKvn}
  <2>1. /\ chan.sd = Isd /\ chan.kvn = RescueKvn /\ card.keys[Isd][RescueKvn] = RescueKeys
    BY <1>1, <1>5 DEF InUse
  <2>2. RescueKvn \in Kvns /\ RescueKvn <= 127 /\ RescueKeys \in {Ks1, Ks2}
    BY DemoAssumption DEF RescueKvn, RescueKeys, ISD_KVN_1, ISD_KVN_2
  <2> QED BY <1>2, <1>5, <2>1, <2>2 DEF Reachable
<1>6. \/ OriginalInUse /\ Here.call.kvn \in DemoKvns
      \/ run.script \in PathBs /\ run.at = 3 /\ Here.call.kvn \in DemoKvns \ {RescueKvn}
  BY <1>1, <1>3, KeysetDeletesAt DEF OriginalInUse
<1> QED BY <1>4, <1>5, <1>6

LEMMA AnswerOnIsd ==
  ASSUME Placed, KeysInv, call # NoCall, NEW r \in Replies(Pending)
  PROVE  \/ SameIsdKeys(card, r.card) /\ NoDrop(r)
         \/ PutsOnIsd /\ NoDrop(r) /\ (Addressable(card) => Addressable(r.card))
         \/ /\ call.op = "delete_sd_keyset" /\ DroppedFrom(card, r.card, call.kvn)
            /\ r.did \subseteq {[did |-> "dropped", what |-> Isd, kvn |-> call.kvn]}
<1>1. /\ card \in CardType /\ call \in CallType /\ chan \in ChanType
      /\ call.op \in Ops \ {"none", "set_card_status"} /\ call.x \in Domains \cup Objects
      /\ call.at \in Steps
  BY InHandIs DEF CallType
<1>2. r \in Pending \/ \E sw : r = Says(card, sw)
  BY DEF Replies
<1>3. CASE \E sw : r = Says(card, sw)
  BY <1>1, <1>3, ObjectsLeaveIsdKeys
<1>4. CASE r \in Pending /\ call.op \in {"create_ssd", "install_applet"}
  <2>1. Pending = Installs(card, call.x)
    BY <1>4 DEF Pending
  <2> QED BY <1>1, <1>4, <2>1, ObjectsLeaveIsdKeys
<1>5. CASE r \in Pending /\ call.op = "load_package"
  <2>1. Pending = Loads(card, call.x)
    BY <1>5 DEF Pending
  <2> QED BY <1>1, <1>5, <2>1, ObjectsLeaveIsdKeys
<1>6. CASE r \in Pending /\ call.op \in {"delete_ssd", "delete_applet"}
  <2>1. \E x \in Domains \cup Objects : \E cascade : Pending = Deletes(card, x, cascade)
    <3>1. Package \in Domains \cup Objects
      BY DEF Objects
    <3>2. \/ Pending = Deletes(card, call.x, CascadeFlag(call.cascade))
          \/ Pending = Deletes(card, call.x, FALSE) \/ Pending = Deletes(card, Package, FALSE)
      BY <1>1, <1>6 DEF Pending, Steps
    <3> QED BY <1>1, <3>1, <3>2
  <2>2. PICK x \in Domains \cup Objects : \E cascade : Pending = Deletes(card, x, cascade)
    BY <2>1
  <2> QED BY <1>1, <1>6, <2>2, ObjectsLeaveIsdKeys
<1>7. CASE r \in Pending /\ call.op = "put_sd_keys"
  <2>1. Pending = PutsKey(card, chan.sd, call.kvn, Received(call))
    BY <1>7 DEF Pending
  <2>2. PICK sd : sd = chan.sd
    OBVIOUS
  <2>3. PICK value : value = Received(call)
    OBVIOUS
  <2>4. r \in PutsKey(card, sd, call.kvn, value)
    BY <1>7, <2>1, <2>2, <2>3
  <2>5. \/ sd = Ssd
        \/ PutsOnIsd /\ sd = Isd /\ value \in {IsdKeys, Ks1, Ks2}
    BY <1>7, <2>2, <2>3, CallPutsOnIsd
  <2>6. sd \in Domains /\ Ssd # Isd
    BY <2>5, ConstantsTyped DEF Domains
  <2>7. /\ NoDrop(r)
        /\ \/ SameIsdKeys(card, r.card)
           \/ sd = Isd /\ (value \in {IsdKeys, Ks1, Ks2} => Addressable(r.card))
    BY <1>1, <2>4, <2>6, PutsKeyOnIsd
  <2> QED BY <2>5, <2>6, <2>7
<1>8. CASE r \in Pending /\ call.op = "delete_sd_keyset"
  <2>1. Pending = DeletesKey(card, chan.sd, call.kvn)
    BY <1>8 DEF Pending
  <2>2. chan.sd = Isd
    BY <1>8, CallDeletesOnIsd
  <2>3. PICK kvn : kvn = call.kvn
    OBVIOUS
  <2>4. r \in DeletesKey(card, Isd, kvn)
    BY <1>8, <2>1, <2>2, <2>3
  <2>5. /\ r.did \subseteq {[did |-> "dropped", what |-> Isd, kvn |-> kvn]}
        /\ \/ r.card = card /\ r.sw # "9000" /\ r.did = {}
           \/ r.sw = "9000" /\ DroppedFrom(card, r.card, kvn)
    BY <1>1, <2>4, DeletesKeyOnIsd
  <2> QED BY <1>8, <2>3, <2>5 DEF SameIsdKeys, NoDrop
<1>9. CASE r \in Pending /\ call.op \in {"open_scp", "transmit", "get_card_status"}
  <2>1. Pending = {Says(card, "9000")}
    BY <1>9 DEF Pending
  <2> QED BY <1>3, <1>9, <2>1
<1> QED BY <1>1, <1>2, <1>3, <1>4, <1>5, <1>6, <1>7, <1>8, <1>9 DEF Ops

\* Where channels are opened: where nothing is said of the session yet.
LEMMA OpensAt ==
  ASSUME run \in RunType, InPlace, run.script # "rest",
         Here.do # "close", Here.call.op = "open_scp"
  PROVE  /\ ~ OriginalInUse
         /\ ~ (run.script \in PathBs /\ run.at \in 2 .. 4)
         /\ ~ (run.script = "isd_flow" /\ run.at \in {6, 12})
         /\ ~ (run.script = "ssd_flow" /\ run.at \in {8, 18})
<1>1. CASE run.script = "A" /\ run.at \in 3 .. 6
  <2>1. run.at \in {3, 4, 5, 6}
    BY <1>1
  <2> QED BY <1>1, <2>1, InPathA, OthersAre, PlainIsNot, DeleteKeysetIs
<1>2. CASE run.script \in PathBs /\ run.at \in (2 .. 4) \cup (7 .. 9)
  <2>1. run.at \in {2, 3, 4, 7, 8, 9}
    BY <1>2
  <2> QED BY <1>2, <2>1, InPathB, OthersAre, PlainIsNot, PutIs, DeleteKeysetIs
<1>3. CASE run.script = "isd_flow" /\ run.at \in {6, 12}
  BY <1>3, InIsdFlow, PutIs
<1>4. CASE run.script = "ssd_flow" /\ run.at \in {8, 18}
  BY <1>4, InSsdFlow, PutIs
<1> QED BY <1>1, <1>2, <1>3, <1>4 DEF OriginalInUse

\* Whatever becomes of the exchange, what is known where the run is stays so.
LEMMA AnswerKeeps ==
  ASSUME Placed, KeysInv, call # NoCall, SamePlace,
         card' = card \/ \E r \in Replies(Pending) : card' = r.card,
         chan'.sd = chan.sd, chan'.kvn = chan.kvn, chan'.value = chan.value
  PROVE  InUse' /\ Swept'
<1>1. InUse /\ Swept
  BY DEF KeysInv
<1>2. run'.script = run.script /\ run'.at = run.at /\ RescueKvn' = RescueKvn /\ RescueKeys' = RescueKeys
  BY DEF SamePlace, RescueKvn, RescueKeys
<1>3. (OriginalInUse' <=> OriginalInUse) /\ (Without1' <=> Without1) /\ (Without2' <=> Without2)
      /\ (PutsOnIsd' <=> PutsOnIsd)
  BY <1>2 DEF OriginalInUse, Without1, Without2, PutsOnIsd
<1>4. CASE SameIsdKeys(card, card')
  <2>1. card'.keys[Isd] = card.keys[Isd] /\ \A k : Reachable(card, k) <=> Reachable(card', k)
    BY <1>4, SameSelected DEF SameIsdKeys
  <2>2. WithOriginal => WithOriginal'
    BY <2>1 DEF WithOriginal
  <2> QED BY <1>1, <1>2, <1>3, <2>1, <2>2 DEF InUse, Swept, OnIsd
<1>5. CASE PutsOnIsd
  <2>1. ~ OriginalInUse /\ ~ Without1 /\ ~ Without2 /\ ~ (run.script \in PathBs /\ run.at \in 2 .. 3)
    BY <1>5 DEF PutsOnIsd, OriginalInUse, Without1, Without2, PathBs
  <2> QED BY <1>1, <1>2, <1>3, <2>1 DEF InUse, Swept
<1>6. CASE call.op = "delete_sd_keyset" /\ DroppedFrom(card, card', call.kvn)
  <2>1. /\ chan.sd = Isd /\ call.kvn \in DemoKvns /\ chan.kvn \in Kvns /\ chan.kvn # call.kvn
        /\ Reachable(card, chan.kvn)
        /\ OriginalInUse \/ (run.script \in PathBs /\ run.at = 3 /\ call.kvn # RescueKvn)
    BY <1>6, CallDeletesOnIsd
  <2>2. card.keys \in [Domains -> KeyTable] /\ card.keys[Isd] \in KeyTable
    BY InHandIs, CardFields DEF Domains
  <2>3. card'.keys[Isd] = [card.keys[Isd] EXCEPT ![call.kvn] = NoKey]
    BY <1>6 DEF DroppedFrom
  <2>4. \A k \in Kvns : k # call.kvn => card'.keys[Isd][k] = card.keys[Isd][k]
    BY <2>2, <2>3 DEF KeyTable
  <2>5. \A k : OnIsd(k)' => OnIsd(k)
    <3>1. Versions(card'.keys[Isd]) \subseteq Versions(card.keys[Isd])
      BY <2>2, <2>3 DEF Versions, KeyTable
    <3> QED BY <3>1 DEF OnIsd
  <2>6. WithOriginal => WithOriginal'
    <3>1. ASSUME WithOriginal PROVE chan.kvn \in Versions(card.keys[Isd]) \ {call.kvn}
      BY <2>1, <3>1, ConstantsTyped DEF WithOriginal, Versions
    <3>2. WithOriginal => Reachable(card', chan.kvn)
      BY <1>6, <2>1, <3>1 DEF DroppedFrom
    <3> QED BY <2>1, <2>4, <3>2 DEF WithOriginal
  <2>7. RescueKvn \in Kvns
    BY DemoAssumption DEF RescueKvn
  <2>8. run.script \in PathBs /\ run.at \in 2 .. 3 => run.at = 3 /\ call.kvn # RescueKvn
    BY <2>1 DEF OriginalInUse, PathBs
  <2> QED BY <1>1, <1>2, <1>3, <2>4, <2>5, <2>6, <2>7, <2>8 DEF InUse, Swept
<1>7. CASE card' = card
  BY <1>4, <1>7 DEF SameIsdKeys
<1>8. ASSUME NEW r \in Replies(Pending), card' = r.card
      PROVE  \/ SameIsdKeys(card, card') \/ PutsOnIsd
             \/ call.op = "delete_sd_keyset" /\ DroppedFrom(card, card', call.kvn)
  <2>1. PICK c : c = card'
    OBVIOUS
  <2>2. c = r.card
    BY <1>8, <2>1
  <2> QED BY <2>1, <2>2, AnswerOnIsd
<1> QED BY <1>4, <1>5, <1>6, <1>7, <1>8

\* A card that could be addressed still can.
LEMMA AnswerLocksNobodyOut ==
  ASSUME Placed, KeysInv, call # NoCall, Addressable(card), NEW r \in Replies(Pending)
  PROVE  Addressable(r.card)
<1>1. CASE SameIsdKeys(card, r.card)
  BY <1>1, SameSelected
<1>2. CASE call.op = "delete_sd_keyset" /\ DroppedFrom(card, r.card, call.kvn)
  <2>1. /\ chan.kvn \in Kvns /\ chan.kvn # call.kvn
        /\ card.keys[Isd][chan.kvn] \in {IsdKeys, Ks1, Ks2} /\ Reachable(card, chan.kvn)
    BY <1>2, CallDeletesOnIsd
  <2>2. card.keys[Isd] \in KeyTable
    BY InHandIs, CardFields DEF Domains
  <2>3. chan.kvn \in Versions(card.keys[Isd]) \ {call.kvn}
    BY <2>1, ConstantsTyped DEF Versions
  <2>4. r.card.keys[Isd][chan.kvn] = card.keys[Isd][chan.kvn] /\ Reachable(r.card, chan.kvn)
    BY <1>2, <2>1, <2>2, <2>3 DEF DroppedFrom, KeyTable
  <2>5. PICK k \in Kvns : k = chan.kvn
    BY <2>1
  <2>6. PICK c : c = r.card
    OBVIOUS
  <2>7. c.keys[Isd][k] \in {IsdKeys, Ks1, Ks2} /\ Reachable(c, k)
    BY <2>1, <2>4, <2>5, <2>6
  <2> QED BY <2>6, <2>7, ReachableIsAddressable
<1> QED BY <1>1, <1>2, AnswerOnIsd

\* No DELETE [key] takes the keyset of the session it is sent in.
LEMMA AnswerKeepsActive ==
  ASSUME Placed, KeysInv, call # NoCall,
         did' = did \/ \E r \in Replies(Pending) : did' = did \cup r.did,
         chan'.sd = chan.sd, chan'.kvn = chan.kvn
  PROVE  /\ ActiveKeysetKept'
         /\ call.op # "delete_sd_keyset" => \A e \in did' : e.did # "dropped"
<1>1. \A e \in did : e.did # "dropped"
  BY DEF KeysInv, NoneDropped
<1>2. CASE did' = did
  BY <1>1, <1>2 DEF ActiveKeysetKept
<1>3. ASSUME NEW r \in Replies(Pending), did' = did \cup r.did
      PROVE  /\ ActiveKeysetKept'
             /\ call.op # "delete_sd_keyset" => \A e \in did' : e.did # "dropped"
  <2>1. CASE NoDrop(r)
    BY <1>1, <1>3, <2>1 DEF ActiveKeysetKept, NoDrop
  <2>2. CASE call.op = "delete_sd_keyset"
             /\ r.did \subseteq {[did |-> "dropped", what |-> Isd, kvn |-> call.kvn]}
    <3>1. chan.kvn # call.kvn
      BY <2>2, CallDeletesOnIsd
    <3>2. \A e \in r.did : e.kvn = call.kvn
      BY <2>2
    <3> QED BY <1>1, <1>3, <2>2, <3>1, <3>2 DEF ActiveKeysetKept
  <2> QED BY <2>1, <2>2, AnswerOnIsd
<1> QED BY <1>2, <1>3

------------------------------------------------------------------------------
(***************************************************************************)
(* The keysets, through every step                                         *)
(***************************************************************************)
\* delete_sd_keyset reports a keyset missing only when the card says so.
LEMMA MissingMeans ==
  ASSUME NEW c, c.op = "delete_sd_keyset", NEW sw, MeaningOf(c, sw) \in {"none", "KeyNotFound"}
  PROVE  sw \in {"9000", "6A88"}
<1>1. \A m \in Meanings : m[3] = "KeyNotFound" => m[2] = "6A88"
  BY DEF Meanings
<1>2. General(sw) # "KeyNotFound" /\ (General(sw) = "none" => sw = "9000")
  BY DEF General
<1>3. CASE \E m \in Meanings : m[1] = c.op /\ m[2] = sw
  <2>1. PICK m \in Meanings : m[2] = sw /\ MeaningOf(c, sw) = m[3]
    <3> DEFINE m == CHOOSE m \in Meanings : m[1] = c.op /\ m[2] = sw
    <3>1. m \in Meanings /\ m[2] = sw
      BY <1>3
    <3>2. MeaningOf(c, sw) = m[3]
      BY <1>3 DEF MeaningOf
    <3> HIDE DEF m
    <3> QED BY <3>1, <3>2
  <2> QED BY <1>1, <2>1, MeaningsTold
<1>4. CASE ~ \E m \in Meanings : m[1] = c.op /\ m[2] = sw
  BY <1>2, <1>4 DEF MeaningOf
<1> QED BY <1>3, <1>4

\* An open that succeeds says which keyset the session is of.
LEMMA OpenIsHeard ==
  ASSUME OpenScp, call.op # "none"
  PROVE  /\ HeardOpen(result)' /\ result'.call = call /\ card' = card /\ did' = did /\ call' = NoCall
         /\ result'.err = "none" => chan'.sync
<1>1. call.op = "open_scp" /\ card' = card /\ did' = did
  BY DEF OpenScp
<1>2. CASE Return(call, "Card", Report) \/ Return(call, "CardCryptogramFail", Report)
  <2>1. result'.call = call /\ result'.err # "none" /\ call' = NoCall
    BY <1>2, Returning
  <2> QED BY <1>1, <2>1 DEF HeardOpen
<1>3. ASSUME NEW k \in Selected(card, DomainOf(call.x), call.kvn), KeysOf(card, DomainOf(call.x))[k] = call.value,
             chan' = [sd |-> DomainOf(call.x), kvn |-> k, value |-> call.value, sync |-> TRUE],
             Return(call, "none", [Report EXCEPT !.kvn = k])
      PROVE  HeardOpen(result)' /\ result'.call = call /\ call' = NoCall /\ chan'.sync
  <2>1. result'.call = call /\ result'.report = [Report EXCEPT !.kvn = k] /\ call' = NoCall
    BY <1>3, Returning
  <2>2. [Report EXCEPT !.kvn = k].kvn = k
    BY DEF Report
  <2>4. PICK d : d = DomainOf(call.x)
    OBVIOUS
  <2>5. chan'.sd = d /\ chan'.kvn = k /\ chan'.value = call.value /\ chan'.sync
    BY <1>3, <2>4
  <2>6. DomainOf(result.call.x)' = d
    BY <1>1, <2>1, <2>4 DEF DomainOf
  <2>7. k \in Selected(card, d, call.kvn) /\ KeysOf(card, d)[k] = call.value
    BY <1>3, <2>4
  <2> QED BY <1>1, <2>1, <2>2, <2>5, <2>6, <2>7 DEF HeardOpen
<1> QED BY <1>1, <1>2, <1>3 DEF OpenScp

\* A DELETE [key] that succeeds, or finds nothing, leaves nothing.
LEMMA DeleteIsHeard ==
  ASSUME Placed, KeysInv, NotFoundIsTrue, DeleteSdKeyset
  PROVE  HeardDelete(result)'
<1>1. PICK r \in Replies(DeletesKey(card, chan.sd, call.kvn)) :
        Answered(r) /\ Return(call, MeaningOf(call, r.sw), [Report EXCEPT !.kvn = call.kvn])
  BY DEF DeleteSdKeyset
<1>2. call.op = "delete_sd_keyset" /\ call # NoCall
  BY Quiet DEF DeleteSdKeyset
<1>3. chan.sd = Isd /\ card \in CardType /\ call.kvn \in DemoKvns
  BY <1>2, CallDeletesOnIsd, InHandIs
<1>4. /\ result'.call = call /\ result'.err \in {MeaningOf(call, r.sw), "InvalidAid"}
      /\ card' = r.card
  BY <1>1, Returning DEF Answered
<1>5. SUFFICES ASSUME result'.err \in {"none", "KeyNotFound"}
               PROVE  call.kvn \notin Versions(card'.keys[Isd])
  BY <1>4 DEF HeardDelete, OnIsd
<1>6. r.sw \in {"9000", "6A88"}
  BY <1>2, <1>4, <1>5, MissingMeans
<1>7. r \in DeletesKey(card, Isd, call.kvn)
  <2>1. Says(card, "6982").sw = "6982"
    BY DEF Says
  <2> QED BY <1>1, <1>3, <1>6, <2>1 DEF Replies
<1>8. PICK kvn : kvn = call.kvn
  OBVIOUS
<1>9. \/ r.card = card /\ kvn \notin Versions(card.keys[Isd])
      \/ DroppedFrom(card, r.card, kvn)
  BY <1>3, <1>6, <1>7, <1>8, DeletesKeyOnIsd
<1>10. CASE DroppedFrom(card, r.card, kvn)
  <2>1. card.keys[Isd] \in KeyTable
    BY <1>3, CardFields DEF Domains
  <2>2. card'.keys[Isd] = [card.keys[Isd] EXCEPT ![kvn] = NoKey]
    BY <1>4, <1>10 DEF DroppedFrom
  <2> QED BY <1>8, <2>1, <2>2 DEF Versions, KeyTable
<1> QED BY <1>4, <1>8, <1>9, <1>10

\* What stays of itself while the run is where it is.
LEMMA SamePlaceKeeps ==
  ASSUME Placed, KeysInv, call # NoCall, SamePlace, cleaned' = cleaned
  PROVE  Apart' /\ Cleaned' /\ cleaned = "no"
<1>1. Apart /\ cleaned = "no"
  BY DEF KeysInv, Cleaned
<1> QED BY <1>1 DEF Apart, SamePlace, Cleaned

LEMMA PerformKeys ==
  ASSUME Placed, KeysInv, NotFoundIsTrue, Perform
  PROVE  KeysInv'
<1>1. Workflow /\ run' = run /\ cleaned' = cleaned /\ SamePlace /\ TypedInv /\ IInv
  BY PerformPlaced DEF Perform, Placed, DemoTypes, TypedInv
<1>2. call # NoCall /\ (UNCHANGED <<card, did>> \/ \E r \in Replies(Pending) : Answered(r))
  BY <1>1, WorkflowAnswers
<1>3. call.op \notin {"none", "set_card_status"} /\ Here.do # "close" /\ call.op = Here.call.op
      /\ run.script # "rest" /\ run \in RunType /\ InPlace
  BY <1>2, InHandIs
<1>4. Apart' /\ Cleaned'
  BY <1>1, <1>2, SamePlaceKeeps
<1>5. \/ call' = NoCall /\ result'.call = call /\ result' # NoResult
      \/ call.op = "delete_applet" /\ call' = [call EXCEPT !.at = "second"] /\ result' = result
  BY <1>1, <1>3, WorkflowIs
<1>6. CASE OpenScp
  <2>1. /\ HeardOpen(result)' /\ result'.call = call /\ card' = card /\ did' = did /\ call' = NoCall
        /\ call.op = "open_scp"
    BY <1>3, <1>6, OpenIsHeard DEF OpenScp
  <2>2. Heard'
    BY <2>1 DEF Heard, HeardDelete
  <2>3. Swept'
    <3>1. Swept
      BY DEF KeysInv
    <3> QED BY <1>1, <2>1, <3>1 DEF Swept, Without1, Without2, OnIsd
  <2>4. InUse'
    <3>1. /\ ~ OriginalInUse /\ ~ (run.script \in PathBs /\ run.at \in 2 .. 4)
          /\ ~ (run.script = "isd_flow" /\ run.at \in {6, 12})
          /\ ~ (run.script = "ssd_flow" /\ run.at \in {8, 18})
      BY <1>3, <2>1, OpensAt
    <3>2. ~ OriginalInUse'
      BY <1>1, <3>1 DEF OriginalInUse
    <3> QED BY <1>1, <3>1, <3>2 DEF InUse
  <2>5. ActiveKeysetKept' /\ NoneDropped'
    BY <1>2, <2>1 DEF KeysInv, NoneDropped, ActiveKeysetKept
  <2> QED BY <1>4, <2>2, <2>3, <2>4, <2>5 DEF KeysInv
<1>7. CASE ~ OpenScp
  <2>1. chan' = chan
    BY <1>1, <1>7 DEF Workflow, Transmit, CreateSsd, DeleteSsd, LoadPackage, InstallApplet,
       DeleteInstance, DeleteElf, PutSdKeys, DeleteSdKeyset, GetCardStatus, SetCardStatus
  <2>2. card' = card \/ \E r \in Replies(Pending) : card' = r.card
    BY <1>2 DEF Answered
  <2>3. did' = did \/ \E r \in Replies(Pending) : did' = did \cup r.did
    BY <1>2 DEF Answered
  <2>4. InUse' /\ Swept'
    BY <1>1, <1>2, <2>1, <2>2, AnswerKeeps
  <2>5. ActiveKeysetKept' /\ (call.op # "delete_sd_keyset" => \A e \in did' : e.did # "dropped")
    BY <1>2, <2>1, <2>3, AnswerKeepsActive
  <2>6. NoneDropped'
    BY <1>5, <2>5 DEF NoneDropped
  <2>7. Heard'
    <3>1. CASE DeleteSdKeyset
      <4>1. call.op = "delete_sd_keyset" /\ result'.call = call
        BY <1>5, <3>1 DEF DeleteSdKeyset
      <4> QED BY <3>1, <4>1, DeleteIsHeard DEF Heard, HeardOpen
    <3>2. CASE ~ DeleteSdKeyset
      <4>1. call.op \notin {"open_scp", "delete_sd_keyset"}
        BY <1>1, <1>7, <3>2 DEF Workflow, Transmit, CreateSsd, DeleteSsd, LoadPackage, InstallApplet,
           DeleteInstance, DeleteElf, PutSdKeys, GetCardStatus, SetCardStatus
      <4>2. result = NoResult
        BY <1>2, InHandIs
      <4> QED BY <1>5, <4>1, <4>2 DEF Heard, HeardOpen, HeardDelete
    <3> QED BY <3>1, <3>2
  <2> QED BY <1>4, <2>4, <2>5, <2>6, <2>7 DEF KeysInv
<1> QED BY <1>6, <1>7

LEMMA LoseKeys ==
  ASSUME Placed, KeysInv, Lose
  PROVE  KeysInv'
<1>1. /\ ExchangeLost /\ cleaned' = cleaned /\ SamePlace /\ call # NoCall
  BY LosePlaced DEF Lose, ExchangeLost
<1>2. call.op \notin {"none", "set_card_status"} /\ chan \in ChanType
  BY <1>1, InHandIs
<1>3. call' = NoCall /\ result'.call = call /\ result'.err \in {"Transport", "InvalidAid"}
  BY <1>1, Returning DEF ExchangeLost
<1>4. Apart' /\ Cleaned'
  BY <1>1, SamePlaceKeeps
<1>5. chan'.sd = chan.sd /\ chan'.kvn = chan.kvn /\ chan'.value = chan.value
  <2>1. \E s : chan' = [chan EXCEPT !.sync = s]
    BY <1>1 DEF ExchangeLost
  <2> QED BY <1>2, <2>1 DEF ChanType
<1>6. UNCHANGED <<card, did>> \/ \E r \in Replies(Pending) : Answered(r)
  BY <1>1 DEF ExchangeLost
<1>7. InUse' /\ Swept'
  <2>1. card' = card \/ \E r \in Replies(Pending) : card' = r.card
    BY <1>6 DEF Answered
  <2> QED BY <1>1, <1>5, <2>1, AnswerKeeps
<1>8. ActiveKeysetKept'
  <2>1. did' = did \/ \E r \in Replies(Pending) : did' = did \cup r.did
    BY <1>6 DEF Answered
  <2> QED BY <1>1, <1>5, <2>1, AnswerKeepsActive
<1>9. Heard' /\ NoneDropped'
  BY <1>3 DEF Heard, HeardOpen, HeardDelete, NoneDropped
<1> QED BY <1>4, <1>7, <1>8, <1>9 DEF KeysInv

\* A process starts: nothing is known but what the card reports.
LEMMA StartKeys ==
  ASSUME Placed, KeysInv, NEW demo \in {"isd", "ssd"}, NEW keep \in BOOLEAN, NEW cfg \in Configured,
         Start(demo, keep, cfg)
  PROVE  KeysInv'
<1>1. /\ call = NoCall /\ result = NoResult /\ did = {}
      /\ call' = NoCall /\ result' = NoResult /\ did' = {} /\ cleaned' = "no"
  BY DEF Placed, InHand, Start
<1>2. /\ run'.demo = demo /\ run'.at = 1 /\ run'.script \in {"A", "ssd_flow"} /\ run'.orig = 0 /\ run'.cfg = cfg
      /\ demo = "isd" => cfg \notin DemoKvns
  BY DEF Start, AtRest
<1>3. Apart'
  BY <1>2 DEF Apart, DemoKvns, ISD_KVN_1, ISD_KVN_2
<1>4. InUse' /\ Swept'
  BY <1>2 DEF InUse, OriginalInUse, Swept, Without1, Without2, PathBs
<1> QED BY <1>1, <1>3, <1>4 DEF KeysInv, Heard, NoneDropped, Cleaned, ActiveKeysetKept

\* A call begins.
LEMMA BegunKeys ==
  ASSUME Placed, KeysInv, run.script # "rest", NEW c, Asks(c), c \in CallType, Begin(c), SamePlace,
         cleaned' = "no"
  PROVE  KeysInv'
<1>1. run \in RunType /\ InPlace
  BY DEF Placed, DemoTypes
<1>2. c.op \notin {"none", "set_card_status"}
  BY <1>1, AskedFor
<1>3. did' = {} /\ card' = card /\ chan' = chan
  BY <1>2, BeginIs
<1>4. \/ call' = c /\ call' # NoCall /\ result' = NoResult
      \/ result'.err \in {"NoOpenChannel", "UnsupportedPrivilege", "InvalidAid"}
  BY <1>2, BeginIs
<1>5. Heard'
  BY <1>4 DEF Heard, HeardOpen, HeardDelete
<1>6. InUse' /\ Swept' /\ Apart'
  <2>1. InUse /\ Swept /\ Apart
    BY DEF KeysInv
  <2>2. run'.script = run.script /\ run'.at = run.at /\ RescueKvn' = RescueKvn /\ RescueKeys' = RescueKeys
    BY DEF SamePlace, RescueKvn, RescueKeys
  <2>3. (OriginalInUse' <=> OriginalInUse) /\ (Without1' <=> Without1) /\ (Without2' <=> Without2)
    BY <2>2 DEF OriginalInUse, Without1, Without2
  <2>4. \A k : (Reachable(card, k))' <=> Reachable(card, k)
    BY <1>3 DEF Reachable
  <2>5. WithOriginal' <=> WithOriginal
    BY <1>3 DEF WithOriginal, Reachable
  <2>6. \A k : OnIsd(k)' <=> OnIsd(k)
    BY <1>3 DEF OnIsd
  <2> QED BY <1>3, <2>1, <2>2, <2>3, <2>5, <2>6 DEF InUse, Swept, Apart, SamePlace
<1> QED BY <1>3, <1>5, <1>6 DEF KeysInv, NoneDropped, Cleaned, ActiveKeysetKept

LEMMA CallKeys ==
  ASSUME Placed, KeysInv, MakeCall \/ TryOriginal
  PROVE  KeysInv'
<1>1. run.script # "rest" /\ cleaned' = "no"
  BY DEF MakeCall, TryOriginal, Idle
<1>2. CASE MakeCall
  <2>1. Begin(Here.call)
    BY <1>2 DEF MakeCall
  <2>2. SamePlace /\ Asks(Here.call) /\ Here.call \in CallType
    BY <1>2, MakeCallPlaced DEF Calls
  <2> QED BY <1>1, <2>1, <2>2, BegunKeys
<1>3. CASE TryOriginal
  BY <1>1, <1>3, TryOriginalPlaced, BegunKeys
<1> QED BY <1>2, <1>3

\* The process ends.
LEMMA KilledKeys ==
  ASSUME Killed
  PROVE  KeysInv'
<1>1. run' = AtRest /\ cleaned' = "no" /\ call' = NoCall /\ result' = NoResult /\ did' = {}
  BY DEF Killed
<1>2. InUse' /\ Swept' /\ Apart'
  BY <1>1, AtRestTyped DEF InUse, OriginalInUse, Swept, Without1, Without2, PathBs, Apart, DemoKvns,
     ISD_KVN_1, ISD_KVN_2
<1> QED BY <1>1, <1>2 DEF KeysInv, Heard, NoneDropped, Cleaned, ActiveKeysetKept

\* To the first instruction of a script that begins by asking for nothing, or to rest.
LEMMA AnewKeys ==
  ASSUME run' = AtRest \/ (run'.at = 1 /\ run'.script # "isd_flow" /\ (Apart => Apart')), Apart,
         call' = NoCall, result' = NoResult, did' = {}, Cleaned'
  PROVE  KeysInv'
<1>1. CASE run' = AtRest
  <2>1. InUse' /\ Swept' /\ Apart'
    BY <1>1, AtRestTyped DEF InUse, OriginalInUse, Swept, Without1, Without2, PathBs, Apart, DemoKvns,
       ISD_KVN_1, ISD_KVN_2
  <2> QED BY <2>1 DEF KeysInv, Heard, NoneDropped, ActiveKeysetKept
<1>2. CASE run'.at = 1 /\ run'.script # "isd_flow" /\ Apart'
  <2>1. InUse' /\ Swept'
    BY <1>2 DEF InUse, OriginalInUse, Swept, Without1, Without2, PathBs
  <2> QED BY <1>2, <2>1 DEF KeysInv, Heard, NoneDropped, ActiveKeysetKept
<1> QED BY <1>1, <1>2

\* Where channels are closed: never just before something is said of the session.
LEMMA ClosesAt ==
  ASSUME run \in RunType, InPlace, run.script # "rest", Here.do = "close"
  PROVE  /\ ~ (run.script = "A" /\ run.at \in 2 .. 5)
         /\ ~ (run.script \in PathBs /\ run.at \in (1 .. 4) \cup (6 .. 8))
         /\ ~ (run.script = "isd_flow" /\ run.at \in {5, 11})
         /\ ~ (run.script = "ssd_flow" /\ run.at \in {7, 17})
<1>1. CASE run.script = "A" /\ run.at \in 2 .. 5
  <2>1. run.at \in {2, 3, 4, 5}
    BY <1>1
  <2> QED BY <1>1, <2>1, InPathA, OthersAre, PlainIsNot, DeleteKeysetIs, OpenOriginalIs
<1>2. CASE run.script \in PathBs /\ run.at \in (1 .. 4) \cup (6 .. 8)
  <2>1. run.at \in {1, 2, 3, 4, 6, 7, 8}
    BY <1>2
  <2> QED BY <1>2, <2>1, InPathB, OthersAre, PlainIsNot, PutIs, DeleteKeysetIs, OpenIs
<1>3. CASE run.script = "isd_flow" /\ run.at \in {5, 11}
  BY <1>3, InIsdFlow, OpenIs
<1>4. CASE run.script = "ssd_flow" /\ run.at \in {7, 17}
  BY <1>4, InSsdFlow, OpenIs, OpenOriginalIs
<1> QED BY <1>1, <1>2, <1>3, <1>4

\* At the end of a cleanup the demo versions are gone and the original is there.
LEMMA CleanAtTheEnd ==
  ASSUME Placed, KeysInv, run.script \in Cleanups, run.at = Len(Script)
  PROVE  /\ ~ OnIsd(ISD_KVN_1) /\ ~ OnIsd(ISD_KVN_2)
         /\ DemoKvns \cap Versions(card.keys[Isd]) = {}
         /\ \E kvn \in Kvns : card.keys[Isd][kvn] = IsdKeys
<1>1. InUse /\ Swept
  BY DEF KeysInv
<1>2. Without1 /\ Without2 /\ OriginalInUse
  <2>1. CASE run.script = "A"
    <3>1. run.at = 6
      BY <2>1, InPathA
    <3> QED BY <2>1, <3>1 DEF Without1, Without2, OriginalInUse
  <2>2. CASE run.script \in PathBs
    <3>1. run.at = 9
      BY <2>2, InPathB
    <3> QED BY <2>2, <3>1 DEF Without1, Without2, OriginalInUse
  <2> QED BY <2>1, <2>2 DEF Cleanups, PathBs
<1>3. ~ OnIsd(ISD_KVN_1) /\ ~ OnIsd(ISD_KVN_2) /\ WithOriginal
  BY <1>1, <1>2 DEF InUse, Swept
<1>4. \E kvn \in Kvns : card.keys[Isd][kvn] = IsdKeys
  BY <1>3 DEF WithOriginal
<1> QED BY <1>3, <1>4 DEF OnIsd, DemoKvns

LEMMA CloseHereKeys ==
  ASSUME Placed, KeysInv, CloseHere
  PROVE  KeysInv'
<1>1. /\ run.script # "rest" /\ call = NoCall /\ result = NoResult /\ did = {} /\ run \in RunType
      /\ InPlace /\ Here.do = "close" /\ InUse /\ Swept /\ Apart
  BY DEF CloseHere, Idle, Placed, DemoTypes, InHand, KeysInv
<1>2. /\ card' = card /\ call' = NoCall /\ result' = NoResult /\ did' = {} /\ run' = Onward(run)
      /\ cleaned' # "no" => run.script \in Cleanups /\ run.at = Len(Script)
  BY <1>1 DEF CloseHere, CloseChannel
<1>3. Cleaned'
  BY <1>2, CleanAtTheEnd DEF Cleaned
<1>4. Heard' /\ NoneDropped' /\ ActiveKeysetKept'
  BY <1>2 DEF Heard, NoneDropped, ActiveKeysetKept
<1>5. CASE run.at # Len(Script)
  <2>1. /\ run'.script = run.script /\ run'.at = run.at + 1 /\ run'.orig = run.orig
        /\ run'.cfg = run.cfg /\ run'.demo = run.demo
    <3>1. PICK r \in RunType : r = run
      BY <1>1
    <3> QED BY <1>1, <1>2, <1>5, <3>1, NextInPlace
  <2>2. Apart'
    BY <1>1, <2>1 DEF Apart
  <2>3. run.at \in Nat /\ run.at >= 1
    BY <1>1 DEF InPlace, RunType
  <2>4. /\ ~ (run.script = "A" /\ run.at \in 2 .. 5)
        /\ ~ (run.script \in PathBs /\ run.at \in (1 .. 4) \cup (6 .. 8))
        /\ ~ (run.script = "isd_flow" /\ run.at \in {5, 11})
        /\ ~ (run.script = "ssd_flow" /\ run.at \in {7, 17})
    BY <1>1, ClosesAt
  <2>5. InUse'
    <3>1. ~ OriginalInUse' /\ ~ (run.script \in PathBs /\ run'.at \in 2 .. 4)
      BY <2>1, <2>3, <2>4 DEF OriginalInUse
    <3>2. ~ (run.script = "isd_flow" /\ run'.at \in {6, 12}) /\ ~ (run.script = "ssd_flow" /\ run'.at \in {8, 18})
      BY <2>1, <2>3, <2>4
    <3> QED BY <2>1, <3>1, <3>2 DEF InUse
  <2>6. Swept'
    <3>1. (Without1' => Without1) /\ (Without2' => Without2)
      BY <2>1, <2>3, <2>4 DEF Without1, Without2
    <3> QED BY <1>1, <1>2, <3>1 DEF Swept, OnIsd
  <2> QED BY <1>3, <1>4, <2>2, <2>5, <2>6 DEF KeysInv
<1>6. CASE run.at = Len(Script)
  <2>1. run' = Through(run)
    BY <1>2, <1>6 DEF Onward
  <2>2. CASE run' = AtRest
    BY <1>1, <1>2, <1>3, <2>2, AnewKeys
  <2>3. CASE run.script \in Cleanups /\ run' = To([run EXCEPT !.phase = "after"], "isd_flow")
    <3>1. /\ run'.script = "isd_flow" /\ run'.at = 1 /\ run'.orig = run.orig /\ run'.cfg = run.cfg
          /\ run'.demo = run.demo
      BY <1>1, <2>3 DEF To, RunType
    <3>2. InUse'
      BY <3>1 DEF InUse, OriginalInUse, PathBs
    <3>3. Swept'
      BY <1>2, <1>6, <2>3, CleanAtTheEnd DEF Swept, OnIsd
    <3> QED BY <1>1, <1>3, <1>4, <3>1, <3>2, <3>3 DEF KeysInv, Apart
  <2>4. CASE \E script \in {"A", "ssd_teardown"} : run' = To(run, script)
    <3>1. /\ run'.script \in {"A", "ssd_teardown"} /\ run'.at = 1 /\ run'.orig = run.orig /\ run'.cfg = run.cfg
          /\ run'.demo = run.demo
      BY <1>1, <2>4 DEF To, RunType
    <3>2. Apart => Apart'
      BY <3>1 DEF Apart
    <3> QED BY <1>1, <1>2, <1>3, <3>1, <3>2, AnewKeys
  <2> QED BY <2>1, <2>2, <2>3, <2>4 DEF Through
<1> QED BY <1>5, <1>6

\* An open that has succeeded, on the domain it asked for.
LEMMA Opened ==
  ASSUME Placed, KeysInv, result # NoResult, result.err = "none", Here.call.op = "open_scp",
         Here.call.x \in {Isd, Ssd}
  PROVE  /\ chan.sd = Here.call.x /\ chan.value = Here.call.value
         /\ Here.call.x = Isd =>
              /\ chan.kvn = result.report.kvn /\ chan.kvn \in Versions(card.keys[Isd]) /\ chan.kvn \in Kvns
              /\ card.keys[Isd][chan.kvn] = chan.value
              /\ (Here.do = "call" => Here.call.kvn <= 127) => Reachable(card, chan.kvn)
              /\ Here.do = "call" /\ Here.call.kvn # 0 => chan.kvn = Here.call.kvn
<1>1. Asks(result.call) /\ HeardOpen(result) /\ run \in RunType
  BY DEF Placed, InHand, DemoTypes, KeysInv, Heard
<1>2. PICK c : c = result.call
  OBVIOUS
<1>3. /\ c.op = "open_scp" /\ c.x = Here.call.x /\ c.value = Here.call.value
      /\ IF Here.do = "call" THEN c.kvn = Here.call.kvn ELSE c.kvn <= 127
  BY <1>1, <1>2 DEF Asks
<1>4. DomainOf(c.x) = c.x
  BY <1>3, ConstantsTyped DEF DomainOf
<1>5. /\ chan.sd = c.x /\ chan.value = c.value /\ chan.kvn = result.report.kvn
      /\ chan.kvn \in Selected(card, chan.sd, c.kvn) /\ KeysOf(card, chan.sd)[chan.kvn] = chan.value
  BY <1>1, <1>2, <1>3, <1>4 DEF HeardOpen
<1>6. CASE Here.call.x = Isd
  <2>1. chan.kvn \in Selected(card, Isd, c.kvn) /\ card.keys[Isd][chan.kvn] = chan.value
    BY <1>3, <1>5, <1>6, SelectedOnIsd
  <2>2. chan.kvn \in Versions(card.keys[Isd]) /\ (chan.kvn = c.kvn \/ c.kvn = 0)
    BY <2>1, SelectedOnIsd
  <2>3. chan.kvn \in Kvns
    BY <2>2 DEF Versions
  <2>4. (Here.do = "call" => Here.call.kvn <= 127) => Reachable(card, chan.kvn)
    BY <1>3, <2>1, <2>2 DEF Reachable
  <2> QED BY <1>3, <1>5, <2>1, <2>2, <2>3, <2>4
<1> QED BY <1>3, <1>5, <1>6

\* A key version that isd-lifecycle has confirmed is not a demo version.
LEMMA ConfirmedApart ==
  ASSUME Placed, KeysInv, KeysApart, run.script \in IsdScripts, run.script # "rest", result # NoResult,
         result.err \in {"none"} \cup Here.bear, ~ AtDemoVersion, Confirms
  PROVE  result.report.kvn \notin DemoKvns
<1>1. run \in RunType /\ InPlace /\ Asks(result.call) /\ Here.do # "close" /\ Swept
  BY DEF Placed, DemoTypes, InHand, Asks, KeysInv
<1>2. Here.call.op = "open_scp" /\ Here.call.x = Isd
  BY DEF Confirms
<1>3. CASE run.script = "A" /\ Here = OpenOriginal(Isd)
  BY <1>3, OpenOriginalIs DEF AtDemoVersion
<1>4. CASE run.script \in PathBs /\ Here = Open(Isd, Restore, IsdKeys)
  <2>1. result.err = "none" /\ Here.do = "call" /\ Here.call.kvn = Restore
    BY <1>4, OpenIs
  <2>2. Restore \in 1 .. 127 /\ Restore \notin DemoKvns
    BY <1>1, <1>4, RestoreInPathB DEF KeysInv
  <2> QED BY <1>2, <2>1, <2>2, Opened
<1>5. CASE run.script = "isd_flow" /\ run.at \in {1, 5} /\ Here = Open(Isd, Selector, IsdKeys)
  <2>1. result.err = "none"
    BY <1>5, OpenIs
  <2>2. ~ OnIsd(ISD_KVN_1) /\ ~ OnIsd(ISD_KVN_2)
    BY <1>1, <1>5 DEF Swept, Without1, Without2
  <2>3. result.report.kvn \in Versions(card.keys[Isd])
    BY <1>2, <2>1, Opened
  <2> QED BY <2>2, <2>3 DEF OnIsd, DemoKvns
<1> QED BY <1>1, <1>3, <1>4, <1>5, ConfirmsAt

\* The next instruction finds what it counts on.
LEMMA NextInUse ==
  ASSUME Placed, KeysInv, run.script # "rest", result # NoResult,
         result.err \in {"none"} \cup Here.bear, ~ AtDemoVersion,
         card' = card, chan' = chan, run'.script = run.script, run'.at = run.at + 1
  PROVE  InUse'
<1>1. run \in RunType /\ InPlace /\ InUse /\ run.at \in Nat
  BY DEF Placed, DemoTypes, KeysInv, RunType
<1>2. RescueKvn' = RescueKvn /\ RescueKeys' = RescueKeys /\ (WithOriginal' <=> WithOriginal)
  BY DEF RescueKvn, RescueKeys, WithOriginal, Reachable
<1>3. ASSUME OriginalInUse' PROVE WithOriginal
  <2>1. CASE OriginalInUse
    BY <1>1, <2>1 DEF InUse
  <2>2. CASE run.script = "A" /\ run.at = 2
    <3>1. /\ Here.do = "original" /\ Here.bear = {} /\ Here.call.op = "open_scp" /\ Here.call.x = Isd
          /\ Here.call.value = IsdKeys
      BY <2>2, InPathA, OpenOriginalIs
    <3>2. result.err = "none" /\ result.report.kvn \notin DemoKvns
      BY <2>2, <3>1 DEF AtDemoVersion
    <3> QED BY <3>1, <3>2, Opened DEF WithOriginal
  <2>3. CASE run.script \in PathBs /\ run.at = 6
    <3>1. /\ Here.do = "call" /\ Here.bear = {} /\ Here.call.op = "open_scp" /\ Here.call.x = Isd
          /\ Here.call.value = IsdKeys /\ Here.call.kvn = Restore
      BY <2>3, InPathB, OpenIs
    <3>2. Restore \in 1 .. 127 /\ Restore \notin DemoKvns
      BY <1>1, <2>3, RestoreInPathB DEF KeysInv
    <3>3. result.err = "none" /\ Restore # 0 /\ Restore <= 127
      BY <3>1, <3>2
    <3> QED BY <3>1, <3>2, <3>3, Opened DEF WithOriginal
  <2>4. \/ run.script = "A" /\ run.at + 1 \in 3 .. 6
        \/ run.script \in PathBs /\ run.at + 1 \in 7 .. 9
    BY <1>3 DEF OriginalInUse
  <2> QED BY <1>1, <2>1, <2>2, <2>3, <2>4 DEF OriginalInUse
<1>4. ASSUME run.script \in PathBs, run.at + 1 \in 2 .. 4
      PROVE  /\ chan.sd = Isd /\ chan.kvn = RescueKvn /\ chan.value = RescueKeys
             /\ run.at + 1 \in 2 .. 3 => card.keys[Isd][RescueKvn] = RescueKeys
  <2>1. CASE run.at \in 2 .. 3
    BY <1>1, <1>4, <2>1 DEF InUse
  <2>2. CASE run.at = 1
    <3>1. /\ Here.do = "call" /\ Here.bear = {} /\ Here.call.op = "open_scp" /\ Here.call.x = Isd
          /\ Here.call.value = RescueKeys /\ Here.call.kvn = RescueKvn
      BY <1>4, <2>2, InPathB, OpenIs
    <3>2. RescueKvn # 0 /\ result.err = "none"
      BY <3>1 DEF RescueKvn, ISD_KVN_1, ISD_KVN_2
    <3> QED BY <3>1, <3>2, Opened
  <2> QED BY <1>1, <1>4, <2>1, <2>2
<1>5. ASSUME run.script = "isd_flow", run.at + 1 \in {6, 12}
      PROVE  chan.sd = Isd /\ chan.value = IF run.at + 1 = 6 THEN IsdKeys ELSE Ks1
  <2>1. run.at \in {5, 11}
    BY <1>1, <1>5
  <2>2. /\ Here.do = "call" /\ Here.bear = {} /\ Here.call.op = "open_scp" /\ Here.call.x = Isd
        /\ Here.call.value = IF run.at = 5 THEN IsdKeys ELSE Ks1
    BY <1>5, <2>1, InIsdFlow, OpenIs
  <2>3. result.err = "none"
    BY <2>2
  <2> QED BY <2>1, <2>2, <2>3, Opened
<1>6. ASSUME run.script = "ssd_flow", run.at + 1 \in {8, 18}
      PROVE  chan.sd = Ssd
  <2>1. run.at \in {7, 17}
    BY <1>1, <1>6
  <2>2. Here.bear = {} /\ Here.call.op = "open_scp" /\ Here.call.x = Ssd
    BY <1>6, <2>1, InSsdFlow, OpenIs, OpenOriginalIs
  <2>3. result.err = "none"
    BY <2>2
  <2> QED BY <2>2, <2>3, Opened
<1> QED BY <1>2, <1>3, <1>4, <1>5, <1>6 DEF InUse

LEMMA NextSwept ==
  ASSUME Placed, KeysInv, run.script # "rest", result # NoResult,
         result.err \in {"none"} \cup Here.bear,
         card' = card, run'.script = run.script, run'.at = run.at + 1
  PROVE  Swept'
<1>1. run \in RunType /\ InPlace /\ Swept /\ run.at \in Nat /\ Asks(result.call) /\ HeardDelete(result)
      /\ run.at >= 1
  BY DEF Placed, DemoTypes, InPlace, InHand, KeysInv, Heard, RunType
<1>2. ASSUME Here.do = "call", Here.call.op = "delete_sd_keyset", Here.bear = {"KeyNotFound"}
      PROVE  ~ OnIsd(Here.call.kvn)
  <2>1. result.call.op = "delete_sd_keyset" /\ result.call.kvn = Here.call.kvn
    BY <1>1, <1>2 DEF Asks
  <2>2. result.err \in {"none", "KeyNotFound"}
    BY <1>2
  <2> QED BY <1>1, <2>1, <2>2 DEF HeardDelete
<1>3. ASSUME Without1' PROVE ~ OnIsd(ISD_KVN_1)
  <2>1. CASE Without1
    BY <1>1, <2>1 DEF Swept
  <2>2. CASE (run.script = "A" /\ run.at = 4) \/ (run.script \in PathBs /\ run.at = 7)
    <3>1. Here = DeleteKeysetTolerant(ISD_KVN_1)
      BY <2>2, InPathA, InPathB
    <3> QED BY <1>2, <3>1, DeleteKeysetIs
  <2> QED BY <1>1, <1>3, <2>1, <2>2 DEF Without1
<1>4. ASSUME Without2' PROVE ~ OnIsd(ISD_KVN_2)
  <2>1. CASE Without2
    BY <1>1, <2>1 DEF Swept
  <2>2. CASE (run.script = "A" /\ run.at = 5) \/ (run.script \in PathBs /\ run.at = 8)
    <3>1. Here = DeleteKeysetTolerant(ISD_KVN_2)
      BY <2>2, InPathA, InPathB
    <3> QED BY <1>2, <3>1, DeleteKeysetIs
  <2> QED BY <1>1, <1>4, <2>1, <2>2 DEF Without2
<1> QED BY <1>3, <1>4 DEF Swept, OnIsd

LEMMA ReturnedKeys ==
  ASSUME Placed, KeysInv, KeysApart, Returned
  PROVE  KeysInv'
<1>1. /\ run.script # "rest" /\ result # NoResult /\ run.at # Len(Script)
      /\ card' = card /\ chan' = chan /\ cleaned' = cleaned
      /\ call' = NoCall /\ result' = NoResult /\ did' = {}
  BY ReturnedIs
<1>2. run \in RunType /\ InPlace /\ Apart /\ InUse /\ Swept /\ cleaned = "no"
  BY <1>1 DEF Placed, DemoTypes, KeysInv, Cleaned
<1>3. Cleaned' /\ Heard' /\ NoneDropped' /\ ActiveKeysetKept'
  BY <1>1, <1>2 DEF Cleaned, Heard, NoneDropped, ActiveKeysetKept
<1>4. PICK r \in RunType :
        /\ r.script = run.script /\ r.demo = run.demo /\ r.imported = run.imported /\ r.at = run.at
        /\ r.cfg = run.cfg /\ r.calm = run.calm
        /\ r.orig = IF Confirms /\ result.err \in {"none"} \cup Here.bear THEN result.report.kvn ELSE run.orig
        /\ \/ run' = AtRest
           \/ run' = Onward(r) /\ result.err \in {"none"} \cup Here.bear /\ ~ AtDemoVersion
           \/ run' = Failed(r) /\ r = run
           \/ run' = r /\ r = run
  BY ReturnedIs
<1>5. CASE run' = AtRest
  BY <1>1, <1>2, <1>3, <1>5, AnewKeys
<1>6. CASE run' = run
  <2>1. SamePlace
    BY <1>2, <1>6, RunStays
  <2>2. InUse' /\ Swept'
    <3>1. WithOriginal' <=> WithOriginal
      BY <1>1 DEF WithOriginal, Reachable
    <3> QED BY <1>1, <1>2, <1>6, <3>1 DEF InUse, OriginalInUse, RescueKvn, RescueKeys, Swept, Without1, Without2, OnIsd
  <2>3. Apart'
    BY <1>2, <1>6 DEF Apart
  <2> QED BY <1>3, <2>2, <2>3 DEF KeysInv
<1>7. CASE run' = Onward(r) /\ result.err \in {"none"} \cup Here.bear /\ ~ AtDemoVersion
  <2>1. /\ run'.script = run.script /\ run'.at = run.at + 1 /\ run'.orig = r.orig
        /\ run'.cfg = run.cfg /\ run'.demo = run.demo
    BY <1>1, <1>2, <1>4, <1>7, NextInPlace
  <2>2. InUse' /\ Swept'
    BY <1>1, <1>7, <2>1, NextInUse, NextSwept
  <2>3. Apart'
    <3>1. run.demo = "isd" => run.script \in IsdScripts
      BY <1>2 DEF InPlace
    <3>2. run.demo = "isd" /\ Confirms => result.report.kvn \notin DemoKvns
      BY <1>1, <1>7, <3>1, ConfirmedApart
    <3> QED BY <1>2, <1>4, <2>1, <3>2 DEF Apart
  <2> QED BY <1>3, <2>2, <2>3 DEF KeysInv
<1>8. CASE run' = Failed(run)
  <2>1. CASE \E script \in {"A", "B51", "B50"} : run' = To(run, script)
    <3>1. /\ run'.script \in {"A", "B51", "B50"} /\ run'.at = 1 /\ run'.orig = run.orig /\ run'.cfg = run.cfg
          /\ run'.demo = run.demo
      BY <1>2, <2>1 DEF To, RunType
    <3>2. Apart => Apart'
      BY <3>1 DEF Apart
    <3> QED BY <1>1, <1>2, <1>3, <3>1, <3>2, AnewKeys
  <2>2. CASE run' = To([run EXCEPT !.reported = Versions(card.keys[Isd]), !.orig = 0, !.imported = @ + 3], "ssd_rescue")
             /\ run.script \in {"ssd_flow", "ssd_teardown"}
    <3>1. run'.script = "ssd_rescue" /\ run'.at = 1 /\ run'.demo = run.demo
      BY <1>2, <2>2 DEF To, RunType
    <3>2. run.demo = "ssd"
      BY <1>2, <2>2 DEF InPlace, IsdScripts
    <3>3. Apart => Apart'
      BY <3>1, <3>2 DEF Apart
    <3> QED BY <1>1, <1>2, <1>3, <3>1, <3>3, AnewKeys
  <2>3. \/ run' = AtRest \/ \E script \in {"A", "B51", "B50"} : run' = To(run, script)
        \/ /\ run' = To([run EXCEPT !.reported = Versions(card.keys[Isd]), !.orig = 0, !.imported = @ + 3], "ssd_rescue")
           /\ run.script \in {"ssd_flow", "ssd_teardown"}
    BY <1>8 DEF Failed
  <2> QED BY <1>5, <2>1, <2>2, <2>3
<1> QED BY <1>4, <1>5, <1>6, <1>7, <1>8

LEMMA InitKeys == DemoInit => KeysInv
<1> SUFFICES ASSUME DemoInit PROVE KeysInv
  OBVIOUS
<1>1. run = AtRest /\ cleaned = "no" /\ call = NoCall /\ result = NoResult /\ did = {}
  BY DEF DemoInit, Init
<1>2. InUse /\ Swept /\ Apart
  BY <1>1, AtRestTyped DEF InUse, OriginalInUse, Swept, Without1, Without2, PathBs, Apart, DemoKvns,
     ISD_KVN_1, ISD_KVN_2
<1> QED BY <1>1, <1>2 DEF KeysInv, Heard, NoneDropped, Cleaned, ActiveKeysetKept

LEMMA NextKeys ==
  ASSUME Placed, KeysInv, KeysApart, NotFoundIsTrue, [DemoNext]_demoVars
  PROVE  KeysInv'
<1>1. CASE UNCHANGED demoVars
  <2>1. /\ card' = card /\ chan' = chan /\ call' = call /\ result' = result /\ did' = did
        /\ run' = run /\ cleaned' = cleaned
    BY <1>1 DEF demoVars, vars
  <2>2. WithOriginal' <=> WithOriginal
    BY <2>1 DEF WithOriginal, Reachable
  <2>3. InUse' /\ Swept'
    BY <2>1, <2>2 DEF KeysInv, InUse, OriginalInUse, RescueKvn, RescueKeys, Swept, Without1, Without2, OnIsd
  <2>4. Heard'
    <3>1. HeardOpen(result)' <=> HeardOpen(result)
      BY <2>1 DEF HeardOpen, DomainOf
    <3>2. HeardDelete(result)' <=> HeardDelete(result)
      BY <2>1 DEF HeardDelete, OnIsd
    <3> QED BY <2>1, <3>1, <3>2 DEF KeysInv, Heard
  <2> QED BY <2>1, <2>3, <2>4 DEF KeysInv, Apart, NoneDropped, Cleaned, ActiveKeysetKept
<1>2. CASE DemoNext
  <2>1. CASE \E demo \in {"isd", "ssd"}, keep \in BOOLEAN, cfg \in Configured : Start(demo, keep, cfg)
    BY <2>1, StartKeys
  <2> QED BY <1>2, <2>1, CallKeys, PerformKeys, CloseHereKeys, ReturnedKeys, LoseKeys, KilledKeys
          DEF DemoNext, Work
<1> QED BY <1>1, <1>2

\* Inductive together with Placed: what the session is of and the card still holds.
THEOREM DemoKeysets ==
  ASSUME KeysApart, NotFoundIsTrue
  PROVE  DemoSpec => []KeysInv
<1>1. Placed /\ KeysInv /\ [DemoNext]_demoVars => KeysInv'
  BY NextKeys
<1> QED BY <1>1, InitKeys, DemoPlaced, PTL DEF DemoSpec

\* ActiveKeysetKept: cleanup, in either of its paths, deletes no keyset its own
\* session authenticated with.
THEOREM ActiveKeysetIsKept ==
  ASSUME KeysApart, NotFoundIsTrue
  PROVE  DemoSpec => []ActiveKeysetKept
<1>1. KeysInv => ActiveKeysetKept
  BY DEF KeysInv
<1> QED BY <1>1, DemoKeysets, PTL

\* No step of a program, and no exchange lost in it, locks the card.
LEMMA NextAddressable ==
  ASSUME Placed, KeysInv, Addressable(card), [DemoNext]_demoVars
  PROVE  Addressable(card')
<1>1. card' = card \/ (call # NoCall /\ \E r \in Replies(Pending) : card' = r.card)
  <2>1. CASE Perform
    BY <2>1, WorkflowAnswers DEF Perform, Answered, Placed, DemoTypes, TypedInv
  <2>2. CASE Lose
    BY <2>2 DEF Lose, ExchangeLost, Answered
  <2>3. CASE Killed
    BY <2>3 DEF Killed
  <2>4. CASE (MakeCall \/ TryOriginal \/ CloseHere \/ Returned) \/ UNCHANGED demoVars
    BY <2>4 DEF MakeCall, TryOriginal, Begin, CloseHere, CloseChannel, Returned, demoVars, vars
  <2>5. CASE \E demo \in {"isd", "ssd"}, keep \in BOOLEAN, cfg \in Configured : Start(demo, keep, cfg)
    BY <2>5 DEF Start
  <2> QED BY <2>1, <2>2, <2>3, <2>4, <2>5 DEF DemoNext, Work
<1>2. CASE card' = card
  <2>1. PICK c : c = card'
    OBVIOUS
  <2>2. c = card
    BY <1>2, <2>1
  <2> QED BY <2>1, <2>2
<1>3. ASSUME call # NoCall, NEW r \in Replies(Pending), card' = r.card
      PROVE  Addressable(card')
  <2>1. PICK c : c = card'
    OBVIOUS
  <2>2. c = r.card
    BY <1>3, <2>1
  <2> QED BY <1>3, <2>1, <2>2, AnswerLocksNobodyOut
<1> QED BY <1>1, <1>2, <1>3

\* NeverLockedOut: a card that has come with a keyset the programs know has one
\* for ever, whatever is lost or killed, and it can be addressed.
THEOREM NobodyIsLockedOut ==
  ASSUME KeysApart, NotFoundIsTrue, \A c \in Cards : Addressable(c)
  PROVE  DemoSpec => []NeverLockedOut
<1>1. DemoInit => Addressable(card)
  BY DEF DemoInit, Init
<1>2. Placed /\ KeysInv /\ Addressable(card) /\ [DemoNext]_demoVars => Addressable(card)'
  <2> SUFFICES ASSUME Placed, KeysInv, Addressable(card), [DemoNext]_demoVars
               PROVE  Addressable(card)'
    OBVIOUS
  <2>1. Addressable(card')
    BY NextAddressable
  <2> QED BY <2>1
<1>3. Addressable(card) => NeverLockedOut
  BY DEF Addressable, NeverLockedOut
<1> QED BY <1>1, <1>2, <1>3, DemoPlaced, DemoKeysets, PTL DEF DemoSpec

------------------------------------------------------------------------------
(***************************************************************************)
(* A run without a fault, on a card that refuses nothing                   *)
(***************************************************************************)
\* A channel that has just been opened is in step with the card.
Synced == result # NoResult /\ result.call.op = "open_scp" /\ result.err = "none" => chan.sync
CalmInv == Calm /\ Synced

\* An applet is an object, and owns nothing.
LEMMA AppIs ==
  ASSUME NEW c \in CardType
  PROVE  /\ App \in Objects /\ App # Isd /\ App # Package /\ Needed(c, App) = {}
         /\ On(c, App) <=> c.home[App] # Absent
<1>1. App \in Objects /\ App # Isd /\ App # Package /\ App \notin Domains \cup {Absent}
  BY DemoAssumption, NamesAssumption DEF Objects, Domains
<1>2. c.home \in [Objects -> Domains \cup {Absent}]
  BY CardFields
<1>3. Needed(c, App) = {}
  BY <1>1, <1>2 DEF Needed, Owns
<1> QED BY <1>1, <1>3 DEF On

\* DELETE [object] for the applet takes it, or does not find it.
LEMMA DeletesApp ==
  ASSUME Refusals = {}, NEW c \in CardType, NEW r \in Deletes(c, App, FALSE)
  PROVE  ~ On(r.card, App)
<1> DEFINE gone == {App} \cup Needed(c, App)
           after == [c EXCEPT !.home = [o \in Objects |-> IF o \in gone THEN Absent ELSE @[o]],
                              !.keys = [d \in Domains |-> IF d \in gone THEN [k \in Kvns |-> NoKey] ELSE @[d]]]
           e == {[did |-> "deleted", what |-> o] : o \in gone}
<1>1. App \in Objects /\ App # Isd /\ Needed(c, App) = {}
  BY AppIs
<1>2. (~ On(c, App) /\ r = Says(c, "6A88")) \/ r = Does(after, e)
  BY <1>1 DEF Deletes, Refused
<1>3. CASE ~ On(c, App) /\ r = Says(c, "6A88")
  BY <1>3 DEF Says
<1>4. CASE r = Does(after, e)
  <2>1. after.home[App] = Absent
    BY <1>1 DEF CardType
  <2> HIDE DEF after, e
  <2>2. r.card = after
    BY <1>4 DEF Does
  <2> QED BY <1>1, <2>1, <2>2 DEF On
<1> QED BY <1>2, <1>3, <1>4

\* An answer that installs nothing installs no applet.
LEMMA AppStaysOff ==
  ASSUME Placed, call # NoCall, call.op \in {"delete_applet", "put_sd_keys", "delete_sd_keyset", "open_scp"},
         NEW r \in Replies(Pending), ~ On(card, App)
  PROVE  ~ On(r.card, App)
<1>1. card \in CardType /\ call \in CallType
  BY InHandIs
<1>2. r \in Pending \/ \E sw : r = Says(card, sw)
  BY DEF Replies
<1>3. App \in Objects /\ App # Isd /\ card.home[App] = Absent
  BY <1>1, AppIs
<1>4. ASSUME NEW c, c.home[App] = Absent PROVE ~ On(c, App)
  BY <1>3, <1>4 DEF On
<1>5. CASE (\E sw : r = Says(card, sw)) \/ r \in Refused(card)
  BY <1>3, <1>4, <1>5 DEF Says, Refused
<1>6. CASE r \in Pending /\ call.op = "delete_applet"
  <2>1. \E x : r \in Deletes(card, x, FALSE)
    BY <1>1, <1>6 DEF Pending, CallType, Steps
  <2>2. PICK x : r \in Deletes(card, x, FALSE)
    BY <2>1
  <2> DEFINE gone == {x} \cup Needed(card, x)
             after == [card EXCEPT !.home = [o \in Objects |-> IF o \in gone THEN Absent ELSE @[o]],
                                   !.keys = [d \in Domains |-> IF d \in gone THEN [k \in Kvns |-> NoKey] ELSE @[d]]]
             e == {[did |-> "deleted", what |-> o] : o \in gone}
  <2>3. r \in Refused(card) \/ (\E sw : r = Says(card, sw)) \/ r = Does(after, e)
    BY <2>2 DEF Deletes
  <2>4. CASE r = Does(after, e)
    <3>1. after.home[App] = Absent
      BY <1>1, <1>3 DEF CardType
    <3> HIDE DEF after, e
    <3>2. r.card = after
      BY <2>4 DEF Does
    <3> QED BY <1>4, <3>1, <3>2
  <2> QED BY <1>5, <2>3, <2>4
<1>7. CASE r \in Pending /\ call.op = "put_sd_keys"
  <2>1. PICK d : d = chan.sd
    OBVIOUS
  <2>2. PICK value : value = Received(call)
    OBVIOUS
  <2>3. Pending = PutsKey(card, chan.sd, call.kvn, Received(call))
    BY <1>7 DEF Pending
  <2>4. r \in PutsKey(card, d, call.kvn, value)
    BY <1>7, <2>1, <2>2, <2>3
  <2> DEFINE first == card.quirky /\ card.virgin /\ d = Isd
             old == IF first THEN [k \in Kvns |-> NoKey] ELSE card.keys[d]
             after == [card EXCEPT !.keys[d] = [old EXCEPT ![call.kvn] = value],
                                   !.default = IF first THEN call.kvn ELSE @,
                                   !.virgin = @ /\ d # Isd]
             e == {[did |-> "stored", what |-> d, kvn |-> call.kvn, value |-> value]}
  <2>5. r \in Refused(card) \/ r = Says(card, "6A80") \/ r = Does(after, e)
    BY <2>4 DEF PutsKey
  <2>6. CASE r = Does(after, e)
    <3>1. after.home = card.home
      BY <1>1 DEF CardType
    <3> HIDE DEF after, e
    <3>2. r.card = after
      BY <2>6 DEF Does
    <3> QED BY <1>3, <1>4, <3>1, <3>2
  <2> QED BY <1>5, <2>5, <2>6
<1>8. CASE r \in Pending /\ call.op = "delete_sd_keyset"
  <2>1. PICK d : d = chan.sd
    OBVIOUS
  <2>2. Pending = DeletesKey(card, chan.sd, call.kvn)
    BY <1>8 DEF Pending
  <2>3. r \in DeletesKey(card, d, call.kvn)
    BY <1>8, <2>1, <2>2
  <2>4. r \in Refused(card) \/ (\E sw : r = Says(card, sw))
        \/ \E keys, k, e : r = Does([card EXCEPT !.keys[d] = keys, !.default = k], e)
    BY <2>3 DEF DeletesKey
  <2>5. ASSUME NEW keys, NEW k, NEW e, r = Does([card EXCEPT !.keys[d] = keys, !.default = k], e)
        PROVE  ~ On(r.card, App)
    <3>1. PICK c : c = [card EXCEPT !.keys[d] = keys, !.default = k]
      OBVIOUS
    <3>2. c.home = card.home /\ r.card = c
      BY <1>1, <2>5, <3>1 DEF CardType, Does
    <3> QED BY <1>3, <1>4, <3>2
  <2> QED BY <1>5, <2>4, <2>5
<1>9. CASE r \in Pending /\ call.op = "open_scp"
  <2>1. Pending = {Says(card, "9000")}
    BY <1>9 DEF Pending
  <2> QED BY <1>5, <1>9, <2>1
<1> QED BY <1>2, <1>5, <1>6, <1>7, <1>8, <1>9

\* Where the applet is being deleted, and what is asked once it is gone.
LEMMA AppletAt ==
  ASSUME run \in RunType, InPlace, run.script # "rest"
  PROVE  /\ DeletingApplet => Here = DeleteAppletBestEffort
         /\ AppletDeleted /\ Here.do # "close" => Here.call.op \in {"put_sd_keys", "delete_sd_keyset", "open_scp"}
         /\ ~ (DeletingApplet /\ AppletDeleted)
<1>1. DeletingApplet => Here = DeleteAppletBestEffort
  BY InPathA, InPathB DEF DeletingApplet
<1>2. CASE run.script = "A" /\ run.at \in 4 .. 6
  <2>1. run.at \in {4, 5, 6}
    BY <1>2
  <2> QED BY <1>1, <1>2, <2>1, InPathA, OthersAre, DeleteKeysetIs DEF DeletingApplet, PathBs
<1>3. CASE run.script \in PathBs /\ run.at \in 3 .. 9
  <2>1. run.at \in {3, 4, 5, 6, 7, 8, 9}
    BY <1>3
  <2>2. ~ DeletingApplet
    BY <1>3, <2>1 DEF DeletingApplet, PathBs
  <2> QED BY <1>1, <1>3, <2>1, <2>2, InPathB, OthersAre, DeleteKeysetIs, PutIs, OpenIs
<1> QED BY <1>1, <1>2, <1>3 DEF AppletDeleted

\* At rest, and at the first instruction of a script, nothing is known of the applet.
LEMMA CalmAnew ==
  ASSUME run' = AtRest \/ run'.at = 1, result' = NoResult, cleaned' = "calmly" => ~ On(card', App)
  PROVE  CalmInv'
<1>1. run'.at = 1
  BY DEF AtRest
<1>2. ~ DeletingApplet' /\ ~ AppletDeleted'
  BY <1>1 DEF DeletingApplet, AppletDeleted
<1> QED BY <1>2 DEF CalmInv, Calm, Synced

LEMMA StartCalm ==
  ASSUME Placed, NEW demo \in {"isd", "ssd"}, NEW keep \in BOOLEAN, NEW cfg \in Configured,
         Start(demo, keep, cfg)
  PROVE  CalmInv'
<1>1. run'.at = 1
  BY DEF Start, AtRest
<1>2. result' = NoResult /\ cleaned' = "no"
  BY DEF Start, Placed, InHand
<1> QED BY <1>1, <1>2, CalmAnew

\* The session in which the applet is deleted is open.
LEMMA OpenWhereDeleting ==
  ASSUME KeysInv, DeletingApplet
  PROVE  chan # NoChan
<1>1. chan.sd = Isd
  <2>1. InUse
    BY DEF KeysInv
  <2> QED BY <2>1 DEF DeletingApplet, InUse, OriginalInUse, WithOriginal
<1>2. NoChan.sd # Isd
  BY NamesAssumption DEF NoChan, Domains
<1> QED BY <1>1, <1>2

LEMMA BegunCalm ==
  ASSUME Placed, KeysInv, CalmInv, run.script # "rest", NEW c, Asks(c), c \in CallType, c.at = "first",
         DeletingApplet => ~ c.banned, Begin(c), SamePlace, run'.calm = run.calm, cleaned' = "no"
  PROVE  CalmInv'
<1>1. run \in RunType /\ InPlace
  BY DEF Placed, DemoTypes
<1>2. c.op \notin {"none", "set_card_status"}
  BY <1>1, AskedFor
<1>3. card' = card /\ chan' = chan
  BY <1>2, BeginIs
<1>4. \/ call' = c /\ result' = NoResult
      \/ /\ result'.err \in {"NoOpenChannel", "UnsupportedPrivilege", "InvalidAid"}
         /\ (c.op # "open_scp" /\ chan = NoChan) \/ c.banned
  BY <1>2, BeginIs
<1>5. (DeletingApplet' <=> DeletingApplet) /\ (AppletDeleted' <=> AppletDeleted)
  BY DEF SamePlace, DeletingApplet, AppletDeleted
<1>6. DeletingApplet => call' = c /\ result' = NoResult
  BY <1>4, OpenWhereDeleting
<1>7. Synced'
  BY <1>4 DEF Synced
<1>8. Calm'
  BY <1>3, <1>5, <1>6 DEF CalmInv, Calm
<1> QED BY <1>7, <1>8 DEF CalmInv

LEMMA CallCalm ==
  ASSUME Placed, KeysInv, CalmInv, MakeCall \/ TryOriginal
  PROVE  CalmInv'
<1>1. run.script # "rest" /\ cleaned' = "no" /\ run \in RunType /\ InPlace
  BY DEF MakeCall, TryOriginal, Idle, Placed, DemoTypes
<1>2. CASE MakeCall
  <2>1. Begin(Here.call) /\ run' = run
    BY <1>2 DEF MakeCall
  <2>2. DeletingApplet => ~ Here.call.banned
    <3>1. ~ DeleteAppletBestEffort.call.banned
      BY DEF DeleteAppletBestEffort, Trying, AppletAndElf, NoCall
    <3> QED BY <1>1, <3>1, AppletAt
  <2>3. SamePlace /\ Asks(Here.call) /\ Here.call \in CallType /\ Here.call.at = "first"
    BY <1>2, MakeCallPlaced DEF Calls, Makeable
  <2> QED BY <1>1, <2>1, <2>2, <2>3, BegunCalm
<1>3. CASE TryOriginal
  <2>1. PICK kvn \in Untried : /\ Begin([Here.call EXCEPT !.kvn = kvn])
                               /\ run' = [run EXCEPT !.tried = @ \cup {kvn}]
    BY <1>3 DEF TryOriginal
  <2>2. SamePlace /\ TriesOriginal(Here) /\ kvn \in Nat /\ kvn <= 127
    BY <1>1, <1>3, TryOriginalPlaced, UntriedIs
  <2>3. PICK c : c = [Here.call EXCEPT !.kvn = kvn]
    OBVIOUS
  <2>4. c \in CallType
    BY <2>2, <2>3 DEF TriesOriginal
  <2>5. c.op = Here.call.op /\ c.x = Here.call.x /\ c.value = Here.call.value /\ c.dek = Here.call.dek
        /\ c.kvn = kvn /\ c.at = Here.call.at
    BY <2>3, <2>4 DEF CallType
  <2>6. Asks(c) /\ c.at = "first"
    BY <2>2, <2>5 DEF Asks, TriesOriginal
  <2>7. ~ DeletingApplet
    <3>1. DeleteAppletBestEffort.do = "call"
      BY OthersAre DEF Plain
    <3> QED BY <1>1, <2>2, <3>1, AppletAt DEF TriesOriginal
  <2>8. run'.calm = run.calm
    BY <1>1, <2>1 DEF RunType
  <2> QED BY <1>1, <2>1, <2>2, <2>3, <2>4, <2>6, <2>7, <2>8, BegunCalm
<1> QED BY <1>2, <1>3

\* The instance is deleted first, and nothing that is asked later installs it again.
LEMMA PerformCalm ==
  ASSUME Placed, KeysInv, CalmInv, Refusals = {}, Perform
  PROVE  CalmInv'
<1>1. Workflow /\ run' = run /\ cleaned' = cleaned /\ SamePlace /\ TypedInv /\ IInv
  BY PerformPlaced DEF Perform, Placed, DemoTypes, TypedInv
<1>2. call # NoCall /\ (UNCHANGED <<card, did>> \/ \E r \in Replies(Pending) : Answered(r))
  BY <1>1, WorkflowAnswers
<1>3. /\ call.op \notin {"none", "set_card_status"} /\ run \in RunType /\ InPlace /\ run.script # "rest"
      /\ Here.do # "close" /\ call.op = Here.call.op /\ Asks(call) /\ result = NoResult
      /\ card \in CardType /\ call \in CallType
  BY <1>2, InHandIs
<1>4. cleaned' = "no"
  BY <1>1, <1>2, <1>3, SamePlaceKeeps
<1>5. Synced'
  <2>1. CASE result' = NoResult
    BY <2>1 DEF Synced
  <2>2. CASE result'.call = call /\ call.op = "open_scp"
    <3>1. OpenScp
      BY <1>1, <2>2 DEF Workflow, Transmit, CreateSsd, DeleteSsd, LoadPackage, InstallApplet,
         DeleteInstance, DeleteElf, PutSdKeys, DeleteSdKeyset, GetCardStatus, SetCardStatus
    <3>2. result'.err = "none" => chan'.sync
      BY <1>3, <3>1, OpenIsHeard
    <3> QED BY <3>2 DEF Synced
  <2>3. CASE result'.call = call /\ call.op # "open_scp"
    BY <2>3 DEF Synced
  <2> QED BY <1>1, <1>3, <2>1, <2>2, <2>3, WorkflowIs
<1>6. ASSUME ~ On(card, App), call.op \in {"delete_applet", "put_sd_keys", "delete_sd_keyset", "open_scp"}
      PROVE  ~ On(card', App)
  <2>1. CASE card' = card
    BY <1>6, <2>1
  <2>2. ASSUME NEW r \in Replies(Pending), card' = r.card
        PROVE  ~ On(card', App)
    BY <1>2, <1>6, <2>2, AppStaysOff
  <2> QED BY <1>2, <2>1, <2>2 DEF Answered
<1>7. ASSUME run.calm, DeletingApplet
      PROVE  chan' = chan /\ chan.sync /\ ~ On(card', App)
  <2>1. Here = DeleteAppletBestEffort /\ chan.sync
    BY <1>3, <1>7, AppletAt DEF CalmInv, Calm
  <2>2. call.op = "delete_applet" /\ call.x = App
    BY <1>3, <2>1, OthersAre DEF Asks
  <2>3. DeleteInstance \/ DeleteElf
    BY <1>1, <2>2 DEF Workflow, OpenScp, Transmit, CreateSsd, DeleteSsd, LoadPackage, InstallApplet,
       PutSdKeys, DeleteSdKeyset, GetCardStatus, SetCardStatus
  <2>4. chan' = chan
    BY <2>3 DEF DeleteInstance, DeleteElf
  <2>5. CASE DeleteInstance
    <3>1. PICK r \in Replies(Deletes(card, call.x, FALSE)) : card' = r.card
      BY <2>5 DEF DeleteInstance, Answered
    <3>2. r \in Deletes(card, App, FALSE)
      BY <2>1, <2>2, <3>1 DEF Replies
    <3> QED BY <1>3, <2>1, <2>4, <3>1, <3>2, DeletesApp
  <2>6. CASE DeleteElf
    <3>1. ~ On(card, App)
      BY <1>7, <2>6 DEF DeleteElf, CalmInv, Calm
    <3> QED BY <1>6, <2>1, <2>2, <2>4, <3>1
  <2> QED BY <2>3, <2>5, <2>6
<1>8. ASSUME run.calm, AppletDeleted
      PROVE  ~ On(card', App)
  <2>1. ~ On(card, App)
    BY <1>8 DEF CalmInv, Calm
  <2>2. call.op \in {"put_sd_keys", "delete_sd_keyset", "open_scp"}
    BY <1>3, <1>8, AppletAt
  <2> QED BY <1>6, <2>1, <2>2
<1>9. (DeletingApplet' <=> DeletingApplet) /\ (AppletDeleted' <=> AppletDeleted)
  BY <1>1 DEF DeletingApplet, AppletDeleted
<1>10. Calm'
  BY <1>1, <1>4, <1>7, <1>8, <1>9 DEF Calm
<1> QED BY <1>5, <1>10 DEF CalmInv

\* A run in which an exchange is lost is not calm.
LEMMA LoseCalm ==
  ASSUME Placed, KeysInv, Lose
  PROVE  CalmInv'
<1>1. ExchangeLost /\ cleaned' = cleaned /\ SamePlace /\ call # NoCall /\ run' = [run EXCEPT !.calm = FALSE]
  BY LosePlaced DEF Lose, ExchangeLost
<1>2. cleaned' = "no" /\ run \in RunType
  BY <1>1, SamePlaceKeeps, InHandIs
<1>3. ~ run'.calm
  BY <1>1, <1>2 DEF RunType
<1>4. result'.err \in {"Transport", "InvalidAid"}
  BY <1>1, Returning DEF ExchangeLost
<1> QED BY <1>2, <1>3, <1>4 DEF CalmInv, Calm, Synced

LEMMA CloseHereCalm ==
  ASSUME Placed, KeysInv, CalmInv, CloseHere
  PROVE  CalmInv'
<1>1. /\ run.script # "rest" /\ call = NoCall /\ result = NoResult /\ run \in RunType
      /\ InPlace /\ Here.do = "close"
  BY DEF CloseHere, Idle, Placed, DemoTypes, InHand
<1>2. /\ card' = card /\ result' = NoResult /\ run' = Onward(run)
      /\ cleaned' = "calmly" => run.calm /\ run.script \in Cleanups /\ run.at = Len(Script)
  BY <1>1 DEF CloseHere, CloseChannel
<1>3. cleaned' = "calmly" => ~ On(card', App)
  <2> SUFFICES ASSUME cleaned' = "calmly" PROVE ~ On(card', App)
    OBVIOUS
  <2>1. AppletDeleted
    <3>1. CASE run.script = "A"
      BY <1>2, <3>1, InPathA DEF AppletDeleted
    <3>2. CASE run.script \in PathBs
      <4>1. run.at = 9
        BY <1>2, <3>2, InPathB
      <4> QED BY <3>2, <4>1 DEF AppletDeleted
    <3> QED BY <1>2, <3>1, <3>2 DEF Cleanups, PathBs
  <2> QED BY <1>2, <2>1 DEF CalmInv, Calm
<1>4. CASE run.at # Len(Script)
  <2>1. run'.script = run.script /\ run'.at = run.at + 1 /\ run'.calm = run.calm
    <3>1. PICK r \in RunType : r = run
      BY <1>1
    <3> QED BY <1>1, <1>2, <1>4, <3>1, NextInPlace
  <2>2. run.at \in Nat /\ run.at >= 1
    BY <1>1 DEF InPlace, RunType
  <2>3. /\ ~ (run.script = "A" /\ run.at \in 2 .. 5)
        /\ ~ (run.script \in PathBs /\ run.at \in (1 .. 4) \cup (6 .. 8))
    BY <1>1, ClosesAt
  <2>4. ~ DeletingApplet' /\ (AppletDeleted' => AppletDeleted)
    BY <2>1, <2>2, <2>3 DEF DeletingApplet, AppletDeleted
  <2>5. run.calm /\ AppletDeleted => ~ On(card', App)
    BY <1>2 DEF CalmInv, Calm
  <2> QED BY <1>2, <1>3, <2>1, <2>4, <2>5 DEF CalmInv, Calm, Synced
<1>5. CASE run.at = Len(Script)
  <2>1. run' = AtRest \/ \E s, script : run' = To(s, script) /\ s \in RunType
    <3>1. run' = Through(run)
      BY <1>2, <1>5 DEF Onward
    <3>2. [run EXCEPT !.phase = "after"] \in RunType
      BY <1>1 DEF RunType
    <3> QED BY <1>1, <3>1, <3>2 DEF Through
  <2>2. run' = AtRest \/ run'.at = 1
    BY <2>1 DEF To, RunType
  <2> QED BY <1>2, <1>3, <2>2, CalmAnew
<1> QED BY <1>4, <1>5

LEMMA ReturnedCalm ==
  ASSUME Placed, KeysInv, CalmInv, Returned
  PROVE  CalmInv'
<1>1. /\ run.script # "rest" /\ result # NoResult /\ run.at # Len(Script) /\ Asks(result.call)
      /\ card' = card /\ chan' = chan /\ cleaned' = cleaned /\ call' = NoCall /\ result' = NoResult
  BY ReturnedIs
<1>2. run \in RunType /\ InPlace /\ cleaned = "no" /\ run.at \in Nat
  BY <1>1 DEF Placed, DemoTypes, KeysInv, Cleaned, RunType
<1>3. PICK r \in RunType :
        /\ r.script = run.script /\ r.demo = run.demo /\ r.imported = run.imported /\ r.at = run.at
        /\ r.calm = run.calm
        /\ \/ run' = AtRest
           \/ run' = Onward(r) /\ result.err \in {"none"} \cup Here.bear
           \/ run' = Failed(r) /\ r = run
           \/ run' = r /\ r = run
  BY ReturnedIs
<1>4. CASE run' = AtRest
  BY <1>1, <1>2, <1>4, CalmAnew
<1>5. CASE run' = Failed(run)
  <2>1. \/ run' = AtRest \/ \E script \in {"A", "B51", "B50"} : run' = To(run, script)
        \/ run' = To([run EXCEPT !.reported = Versions(card.keys[Isd]), !.orig = 0, !.imported = @ + 3], "ssd_rescue")
    BY <1>5 DEF Failed
  <2>2. run' = AtRest \/ run'.at = 1
    BY <1>2, <2>1 DEF To, RunType
  <2> QED BY <1>1, <1>2, <2>2, CalmAnew
<1>6. CASE run' = run
  <2> QED BY <1>1, <1>2, <1>6, Quiet DEF CalmInv, Calm, Synced, DeletingApplet, AppletDeleted
<1>7. CASE run' = Onward(r) /\ result.err \in {"none"} \cup Here.bear
  <2>1. run'.script = run.script /\ run'.at = run.at + 1 /\ run'.calm = run.calm
    BY <1>1, <1>2, <1>3, <1>7, NextInPlace
  <2>2. ASSUME DeletingApplet'
        PROVE  chan.sync
    <3>1. Here.bear = {} /\ Here.call.op = "open_scp"
      <4>1. (run.script = "A" /\ run.at = 2) \/ (run.script \in PathBs /\ run.at = 1)
        BY <1>2, <2>1, <2>2 DEF DeletingApplet
      <4> QED BY <4>1, InPathA, InPathB, OpenIs, OpenOriginalIs
    <3>2. result.call.op = "open_scp" /\ result.err = "none"
      BY <1>1, <1>7, <3>1 DEF Asks
    <3> QED BY <1>1, <3>2 DEF CalmInv, Synced
  <2>3. AppletDeleted' => AppletDeleted \/ DeletingApplet
    BY <1>2, <2>1 DEF AppletDeleted, DeletingApplet
  <2>4. run.calm /\ AppletDeleted' => ~ On(card', App)
    BY <1>1, <2>3 DEF CalmInv, Calm
  <2>5. ~ (call'.at = "second" \/ result' # NoResult)
    BY <1>1, Quiet
  <2> QED BY <1>1, <1>2, <2>1, <2>2, <2>4, <2>5 DEF CalmInv, Calm, Synced
<1> QED BY <1>3, <1>4, <1>5, <1>6, <1>7

LEMMA NextCalm ==
  ASSUME Placed, KeysInv, CalmInv, Refusals = {}, [DemoNext]_demoVars
  PROVE  CalmInv'
<1>1. CASE UNCHANGED demoVars
  <2>1. card' = card /\ chan' = chan /\ call' = call /\ result' = result /\ run' = run /\ cleaned' = cleaned
    BY <1>1 DEF demoVars, vars
  <2> QED BY <2>1 DEF CalmInv, Calm, Synced, DeletingApplet, AppletDeleted
<1>2. CASE Killed
  BY <1>2, CalmAnew DEF Killed
<1>3. CASE \E demo \in {"isd", "ssd"}, keep \in BOOLEAN, cfg \in Configured : Start(demo, keep, cfg)
  BY <1>3, StartCalm
<1> QED BY <1>1, <1>2, <1>3, CallCalm, PerformCalm, LoseCalm, CloseHereCalm, ReturnedCalm DEF DemoNext, Work

\* CleanKeys: a cleanup that reports success has left the original keyset and none
\* of the demos', and, on a card that refuses nothing and in a run without a fault,
\* not the applet either.
THEOREM CleanedMeansClean ==
  ASSUME KeysApart, Refusals = {}, Applets = {App}
  PROVE  DemoSpec => []CleanKeys
<1>1. DemoInit => CalmInv
  <2>1. ASSUME DemoInit PROVE CalmInv
    <3>1. run = AtRest /\ cleaned = "no" /\ result = NoResult
      BY <2>1 DEF DemoInit, Init
    <3>2. run.script = "rest"
      BY <3>1, AtRestTyped
    <3> QED BY <3>1, <3>2 DEF CalmInv, Calm, Synced, DeletingApplet, AppletDeleted, PathBs
  <2> QED BY <2>1
<1>2. Placed /\ KeysInv /\ CalmInv /\ [DemoNext]_demoVars => CalmInv'
  BY NextCalm
<1>3. KeysInv /\ CalmInv => CleanKeys
  BY DEF KeysInv, Cleaned, CalmInv, Calm, CleanKeys
<1>4. NotFoundIsTrue
  BY DEF NotFoundIsTrue
<1> QED BY <1>1, <1>2, <1>3, <1>4, DemoPlaced, DemoKeysets, PTL DEF DemoSpec
=============================================================================
