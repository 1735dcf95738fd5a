--------------------------- MODULE DemoLifecycles ---------------------------
(***************************************************************************)
(* The two programs that use the library for a whole life cycle, run again *)
(* and again on one card: isd-lifecycle rotates keysets on the ISD itself, *)
(* ssd-lifecycle on a security domain of its own.  Each is a script of     *)
(* ContentManagement's calls; an exchange may be lost and the program may  *)
(* be killed at any point, and what is left on the card is for the next    *)
(* run to recover.  The card keeps its life cycle state.                   *)
(***************************************************************************)
EXTENDS ContentManagement, Sequences

CONSTANTS
  App, Ssd,             \* the demos' applet and security domain
  IsdKeys, Ks1, Ks2,    \* the card's original keyset and the two demo keysets
  Configured,           \* values SCLL_ISD_KVN may have
  MaxFaults             \* bound: lost exchanges and kills

ISD_KVN_1 == 50
ISD_KVN_2 == 51
KVN_1 == 48
KVN_2 == 49
JCSIM_FACTORY_KVN == 48
MAX_KEYS == 16
DemoKvns == {ISD_KVN_1, ISD_KVN_2}

ASSUME DemoAssumption ==
  /\ App \in Applets /\ Ssd \in Ssds /\ {IsdKeys, Ks1, Ks2} \subseteq KeyValues
  /\ {KVN_1, KVN_2, ISD_KVN_1, ISD_KVN_2, JCSIM_FACTORY_KVN} \subseteq Kvns
  /\ Configured \subseteq {0} \cup Kvns /\ MaxFaults \in Nat

VARIABLES
  run,      \* the program: its script and position, and what it knows of the card
  faults,   \* history: faults so far
  cleaned   \* history: an isd-lifecycle cleanup has just reported success, in a
            \* run without a fault ("calmly") or not ("yes")

demoVars == <<vars, run, faults, cleaned>>

Scripts == {"rest", "isd_flow", "A", "B51", "B50", "ssd_flow", "ssd_teardown", "ssd_rescue"}
RunType == [demo : {"isd", "ssd"}, script : Scripts, at : Nat, phase : {"before", "after"},
            keep : BOOLEAN, calm : BOOLEAN, cfg : Nat, reported : SUBSET Kvns,
            first : {0} \cup (Kvns \ DemoKvns), orig : Nat, imported : Nat, tried : SUBSET Nat]
AtRest == [demo |-> "isd", script |-> "rest", at |-> 1, phase |-> "before", keep |-> FALSE,
           calm |-> TRUE, cfg |-> 0, reported |-> {}, first |-> 0, orig |-> 0, imported |-> 0,
           tried |-> {}]

(***************************************************************************)
(* Instructions: a call and the errors of it that are passed over.         *)
(***************************************************************************)
Do(c) == [do |-> "call", call |-> c, bear |-> {}]
Trying(c, errors) == [do |-> "call", call |-> c, bear |-> errors]
OpenOriginal(x) == [do |-> "original", call |-> [NoCall EXCEPT !.op = "open_scp", !.x = x, !.value = IsdKeys],
                    bear |-> {}]
Close == [do |-> "close", call |-> NoCall, bear |-> {}]

Open(x, kvn, value) == Do([NoCall EXCEPT !.op = "open_scp", !.x = x, !.kvn = kvn, !.value = value])
Put(kvn, value, dek) == Do([NoCall EXCEPT !.op = "put_sd_keys", !.kvn = kvn, !.value = value, !.dek = dek])
Exchange == Do([NoCall EXCEPT !.op = "transmit"])
Load(d) == Do([NoCall EXCEPT !.op = "load_package", !.x = d])
Install == Do([NoCall EXCEPT !.op = "install_applet", !.x = App])

AppletAndElf(cascade) == [NoCall EXCEPT !.op = "delete_applet", !.x = App, !.cascade = cascade, !.elf = TRUE]
TheSsd(cascade) == [NoCall EXCEPT !.op = "delete_ssd", !.x = Ssd, !.cascade = cascade]
DeleteAppletBestEffort == Trying(AppletAndElf("Always"), Errors)
DeleteSsdBestEffort == Trying(TheSsd("Never"), Errors)
DeleteKeysetTolerant(kvn) == Trying([NoCall EXCEPT !.op = "delete_sd_keyset", !.kvn = kvn], {"KeyNotFound"})

(***************************************************************************)
(* The scripts, in terms of what the run knows.                            *)
(***************************************************************************)
Selector == IF run.orig <= 127 THEN run.orig ELSE 0

IsdFlow ==
  <<Open(Isd, Selector, IsdKeys), Load(Isd), Install, Close,
    Open(Isd, Selector, IsdKeys), Put(ISD_KVN_1, Ks1, IsdKeys), Close,
    Open(App, ISD_KVN_1, Ks1), Exchange, Close,
    Open(Isd, ISD_KVN_1, Ks1), Put(ISD_KVN_2, Ks2, Ks1), Close,
    Open(App, ISD_KVN_2, Ks2), Exchange, Close>>

\* Plausible mistake: only the version the flow ends on is removed.
PathAForgets ==
  <<Close, OpenOriginal(Isd), DeleteAppletBestEffort, DeleteKeysetTolerant(ISD_KVN_2), Close>>

\* cleanup, Path A: the original keys still authenticate.
PathA ==
  <<Close, OpenOriginal(Isd), DeleteAppletBestEffort,
    DeleteKeysetTolerant(ISD_KVN_1), DeleteKeysetTolerant(ISD_KVN_2), Close>>

\* cleanup, Path B: restore the original keyset by value from a demo keyset.
Preferred ==
  IF run.orig # 0 THEN run.orig
  ELSE IF run.first # 0 THEN run.first
  ELSE IF run.cfg # 0 THEN run.cfg ELSE JCSIM_FACTORY_KVN
Restore == IF Preferred \in 1..127 THEN Preferred ELSE JCSIM_FACTORY_KVN

\* Plausible mistake: the demo versions go before the original is back.
PathBDeletesFirst(kvn, value, other) ==
  <<Open(Isd, kvn, value), DeleteAppletBestEffort,
    DeleteKeysetTolerant(ISD_KVN_1), DeleteKeysetTolerant(ISD_KVN_2),
    Put(Restore, IsdKeys, value), Close, Open(Isd, Restore, IsdKeys), Close>>

PathB(kvn, value, other) ==
  <<Open(Isd, kvn, value), DeleteAppletBestEffort, DeleteKeysetTolerant(other),
    Put(Restore, IsdKeys, value), Close, Open(Isd, Restore, IsdKeys),
    DeleteKeysetTolerant(ISD_KVN_1), DeleteKeysetTolerant(ISD_KVN_2), Close>>

SsdFlow ==
  <<OpenOriginal(Isd), Exchange, DeleteAppletBestEffort, DeleteSsdBestEffort,
    Do([NoCall EXCEPT !.op = "create_ssd", !.x = Ssd]), Close,
    OpenOriginal(Ssd), Put(KVN_1, Ks1, IsdKeys), Close,
    Open(Isd, Selector, IsdKeys), Load(Ssd), Install, Close,
    Open(App, KVN_1, Ks1), Exchange, Close,
    Open(Ssd, KVN_1, Ks1), Put(KVN_2, Ks2, Ks1), Close,
    Open(App, KVN_2, Ks2), Exchange, Close>>

SsdTeardown ==
  <<Open(Isd, Selector, IsdKeys), Do(AppletAndElf("IfLastInstance")), Do(TheSsd("OnlyIfEmpty")), Close>>

SsdRescue == <<Close, OpenOriginal(Isd), DeleteAppletBestEffort, DeleteSsdBestEffort, Close>>

Script ==
  CASE run.script = "rest" -> <<>>
    [] run.script = "isd_flow" -> IsdFlow
    [] run.script = "A" -> PathA
    [] run.script = "B51" -> PathB(ISD_KVN_2, Ks2, ISD_KVN_1)
    [] run.script = "B50" -> PathB(ISD_KVN_1, Ks1, ISD_KVN_2)
    [] run.script = "ssd_flow" -> SsdFlow
    [] run.script = "ssd_teardown" -> SsdTeardown
    [] run.script = "ssd_rescue" -> SsdRescue

Cleanups == {"A", "B51", "B50"}
Here == Script[run.at]

(***************************************************************************)
(* open_isd_original: the key version selectors it tries.  Their order is  *)
(* left open.                                                              *)
(***************************************************************************)
\* Plausible mistake: the default key version and the configured one will do.
CandidatesFew(r, x) == {0, r.cfg}

Candidates(r, x) ==
  {0} \cup ({k \in ({r.orig, r.cfg} \cup (IF x = Isd THEN r.reported \ DemoKvns ELSE {})) : k <= 127})
  \cup {k \in {JCSIM_FACTORY_KVN} : r.cfg = 0}

Untried == Candidates(run, Here.call.x) \ run.tried

-----------------------------------------------------------------------------
DemoInit ==
  /\ Init
  /\ run = AtRest
  /\ faults = 0
  /\ cleaned = "no"

\* Of the versions that are no demo's, a card lists any one first; 0 if it has none.
FirstListed ==
  LET others == Versions(card.keys[Isd]) \ DemoKvns IN IF others = {} THEN {0} ELSE others

\* A new process: a new manager and key table, the key versions as discovered.
Start(demo, keep, cfg) ==
  /\ run.script = "rest"
  /\ demo = "isd" => cfg \notin DemoKvns
  /\ \E first \in FirstListed :
       run' = [AtRest EXCEPT !.demo = demo, !.script = IF demo = "isd" THEN "A" ELSE "ssd_flow",
                             !.keep = keep, !.cfg = cfg, !.imported = 9,
                             !.reported = Versions(card.keys[Isd]), !.first = first]
  /\ chan' = NoChan /\ cleaned' = "no"
  /\ UNCHANGED <<card, call, result, did, known, faults>>

Idle == run.script # "rest" /\ call = NoCall /\ result = NoResult

MakeCall ==
  /\ Idle /\ Here.do = "call"
  /\ Begin(Here.call)
  /\ cleaned' = "no"
  /\ UNCHANGED <<run, faults>>

TryOriginal ==
  /\ Idle /\ Here.do = "original"
  /\ \E kvn \in Untried :
       Begin([Here.call EXCEPT !.kvn = kvn]) /\ run' = [run EXCEPT !.tried = @ \cup {kvn}]
  /\ cleaned' = "no"
  /\ UNCHANGED faults

Perform ==
  /\ Workflow
  /\ UNCHANGED <<run, faults, cleaned>>

(***************************************************************************)
(* Where a script leads when it is through, and when a step of it fails.   *)
(***************************************************************************)
To(r, script) == [r EXCEPT !.script = script, !.at = 1, !.tried = {}]

Through(r) ==
  CASE r.script \in Cleanups /\ r.phase = "before" -> To([r EXCEPT !.phase = "after"], "isd_flow")
    [] r.script = "isd_flow" /\ ~r.keep -> To(r, "A")
    [] r.script = "ssd_flow" /\ ~r.keep -> To(r, "ssd_teardown")
    [] OTHER -> AtRest

\* Plausible mistake: the rescue imports the demo keysets too.
FailedImportsAll(r) ==
  IF r.script \in {"ssd_flow", "ssd_teardown"} /\ ~r.keep
  THEN To([r EXCEPT !.reported = Versions(card.keys[Isd]), !.orig = 0, !.imported = @ + 9], "ssd_rescue")
  ELSE AtRest

\* The rescue of ssd-lifecycle discovers the card and imports its keys again.
Failed(r) ==
  CASE r.script = "A" /\ Here.do = "original" -> To(r, "B51")
    [] r.script = "B51" /\ r.at = 1 -> To(r, "B50")
    [] r.script = "isd_flow" /\ ~r.keep -> To(r, "A")
    [] r.script \in {"ssd_flow", "ssd_teardown"} /\ ~r.keep ->
         To([r EXCEPT !.reported = Versions(card.keys[Isd]), !.orig = 0, !.imported = @ + 3], "ssd_rescue")
    [] OTHER -> AtRest

Onward(r) == IF r.at = Len(Script) THEN Through(r) ELSE [r EXCEPT !.at = @ + 1, !.tried = {}]

\* The key version an open with the original keys confirms.
Confirms == Here.call.op = "open_scp" /\ Here.call.value = IsdKeys /\ Here.call.x = Isd

CloseHere ==
  /\ Idle /\ Here.do = "close"
  /\ CloseChannel
  /\ run' = Onward(run)
  /\ cleaned' = IF run.script \in Cleanups /\ run.at = Len(Script)
                THEN IF run.calm THEN "calmly" ELSE "yes"
                ELSE "no"
  /\ UNCHANGED faults

\* Plausible mistake: guard 1 is thought to be enough.
NoGuard2 == FALSE

\* Guard 2: the card's own keyset must not sit at a demo version.
AtDemoVersion == run.script = "A" /\ Here.do = "original" /\ result.report.kvn \in DemoKvns

Returned ==
  /\ run.script # "rest" /\ call = NoCall /\ result # NoResult
  /\ run' = IF result.err \in {"none"} \cup Here.bear
            THEN IF AtDemoVersion THEN AtRest
                 ELSE Onward(IF Confirms THEN [run EXCEPT !.orig = result.report.kvn] ELSE run)
            ELSE IF Here.do = "original" /\ Untried # {} THEN run ELSE Failed(run)
  /\ result' = NoResult /\ did' = {}
  /\ UNCHANGED <<card, chan, call, known, faults, cleaned>>

Lose ==
  /\ faults < MaxFaults
  /\ ExchangeLost
  /\ faults' = faults + 1 /\ run' = [run EXCEPT !.calm = FALSE]
  /\ UNCHANGED cleaned

\* The process is killed between two exchanges, or with one in flight.
Killed ==
  /\ faults < MaxFaults /\ run.script # "rest"
  /\ \/ UNCHANGED card
     \/ call # NoCall /\ \E r \in Replies(Pending) : card' = r.card
  /\ run' = AtRest /\ faults' = faults + 1 /\ cleaned' = "no"
  /\ chan' = NoChan /\ call' = NoCall /\ result' = NoResult /\ did' = {}
  /\ UNCHANGED known

Work == MakeCall \/ TryOriginal \/ Perform \/ CloseHere \/ Returned
DemoNext ==
  \/ \E demo \in {"isd", "ssd"}, keep \in BOOLEAN, cfg \in Configured : Start(demo, keep, cfg)
  \/ Work \/ Lose \/ Killed

(***************************************************************************)
(* A started program goes on; and of the runs that are made for ever, some *)
(* are of isd-lifecycle without SCLL_KEEP.                                 *)
(***************************************************************************)
Rerun == \E cfg \in Configured : Start("isd", FALSE, cfg)
DemoSpec == DemoInit /\ [][DemoNext]_demoVars /\ WF_demoVars(Work) /\ SF_demoVars(Rerun)

-----------------------------------------------------------------------------
DemoTypeOK ==
  /\ TypeOK
  /\ run \in RunType /\ run.imported <= MAX_KEYS
  /\ faults \in 0..MaxFaults /\ cleaned \in {"no", "yes", "calmly"}

\* Some keyset the programs know the value of can always be addressed on the ISD.
NeverLockedOut ==
  \E kvn \in 0..127 : \E k \in Selected(card, Isd, kvn) :
     card.keys[Isd][k] \in {IsdKeys, Ks1, Ks2}

\* No DELETE [key] takes the keyset its own session authenticated with.
ActiveKeysetKept ==
  \A e \in did : e.did = "dropped" => <<e.what, e.kvn>> # <<chan.sd, chan.kvn>>

\* A cleanup that reports success leaves no demo keyset, and the original one in place;
\* one without a fault in its run leaves no applet.  It may leave the load file:
\* delete_applet stops at an applet that is already gone.
CleanKeys ==
  /\ cleaned # "no" => /\ DemoKvns \cap Versions(card.keys[Isd]) = {}
                       /\ \E kvn \in Kvns : card.keys[Isd][kvn] = IsdKeys
  /\ cleaned = "calmly" => \A x \in Applets : ~On(card, x)

\* Whatever faults there were, a run that is repeated gets its keysets back, unless
\* it must refuse to run because the card's own keyset sits at a demo version.
KeysComeBack ==
  (\A kvn \in DemoKvns : card.keys[Isd][kvn] # IsdKeys) => []<>(cleaned # "no")
=============================================================================
