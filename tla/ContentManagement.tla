-------------------------- MODULE ContentManagement --------------------------
(***************************************************************************)
(* The in-session workflows that change a card: create_ssd, delete_ssd,    *)
(* load_package, install_applet, delete_applet, put_sd_keys,               *)
(* delete_sd_keyset, get_card_status and set_card_status.  A workflow is   *)
(* a call that waits for one answer at a time; between two answers, and    *)
(* between the card's doing and the host's hearing of it, the exchange may *)
(* be lost, and an application on the card may move the life cycle.        *)
(* Opening a channel is one step here; CardChannel has its exchanges.      *)
(***************************************************************************)
EXTENDS CardRegistry

CONSTANTS
  Requests,     \* the calls an application may make
  Cards,        \* the cards it may meet
  Protocol      \* "SCP02" or "SCP03", as negotiated

ASSUME ProtocolAssumption == Protocol \in {"SCP02", "SCP03"}
ASSUME CardsAssumption == Cards \subseteq CardType

VARIABLES
  card,     \* see CardRegistry
  chan,     \* CardManager.session: the domain, the keyset it authenticated with
  call,     \* the workflow under way and the step it waits at
  result,   \* what the last call returned
  did,      \* history: what the card did for the call
  known     \* the life cycle state the caller last learnt

vars == <<card, chan, call, result, did, known>>

(***************************************************************************)
(* A call: `x' is the object or domain, `elf' whether an ELF AID is given, *)
(* `label' whether the AID that is only reported is a valid one, `banned'  *)
(* whether the privileges hold one the workflow refuses.                   *)
(***************************************************************************)
Ops == {"none", "open_scp", "transmit", "create_ssd", "delete_ssd", "load_package",
        "install_applet", "delete_applet", "put_sd_keys", "delete_sd_keyset",
        "get_card_status", "set_card_status"}
Cascades == {"Never", "OnlyIfEmpty", "IfLastInstance", "Cascade", "Always"}
LifeCycles == Lives \cup {"Unknown"}
Steps == {"first", "second"}

NoCall == [op |-> "none", x |-> Isd, label |-> TRUE, banned |-> FALSE, cascade |-> "Never",
           elf |-> FALSE, kvn |-> 0, value |-> NoKey, dek |-> NoKey, target |-> "Unknown",
           current |-> "read", force |-> FALSE, at |-> "first"]
CallType == [op : Ops, x : Domains \cup Objects, label : BOOLEAN, banned : BOOLEAN,
             cascade : Cascades, elf : BOOLEAN, kvn : Nat, value : KeyValues \cup {NoKey},
             dek : KeyValues \cup {NoKey}, target : LifeCycles,
             current : LifeCycles \cup {"read"}, force : BOOLEAN, at : Steps]
\* A call is made from its first step, and PUT KEY always has a keyset to put.
Makeable(c) == c.at = "first" /\ (c.op = "put_sd_keys" => c.value # NoKey)
ASSUME RequestsAssumption == Requests \subseteq {c \in CallType : Makeable(c)}

NoChan == [sd |-> Absent, kvn |-> 0, value |-> NoKey, sync |-> FALSE]
ChanType == [sd : Domains \cup {Absent}, kvn : Nat, value : KeyValues \cup {NoKey},
             sync : BOOLEAN]

Errors == {"none", "NoOpenChannel", "UnsupportedPrivilege", "ResidentSdNotFound",
           "PackageNotFound", "PackageAidExists", "AidAlreadyExists", "TargetNoLongerExists",
           "SsdHasApplets", "ElfHasOtherInstances", "KeyNotFound", "KeyCheckValueMismatch",
           "IllegalLifecycleTransition", "TerminateOutOfScope", "SecurityStatusNotSatisfied",
           "ConditionsNotSatisfied", "Card", "InvalidAid", "Transport", "CardCryptogramFail"}

\* A report: `checked' is a full KCV echo, `kvn' the key version in effect.
Report == [cascaded |-> FALSE, checked |-> FALSE, noop |-> FALSE, irreversible |-> FALSE,
           state |-> "Unknown", kvn |-> 0]
ReportType == [cascaded : BOOLEAN, checked : BOOLEAN, noop : BOOLEAN, irreversible : BOOLEAN,
               state : LifeCycles, kvn : Nat]
ResultType == [call : CallType, err : Errors, report : ReportType]
NoResult == [call |-> NoCall, err |-> "none", report |-> Report]

Effects == [did : {"made", "deleted"}, what : Objects]
           \cup [did : {"stored"}, what : Domains, kvn : Kvns, value : KeyValues \cup {Garbled}]
           \cup [did : {"dropped"}, what : Domains, kvn : Kvns]
           \cup [did : {"moved"}, from : Lives, to : Lives]

Init ==
  /\ card \in Cards
  /\ chan = NoChan
  /\ call = NoCall
  /\ result = NoResult
  /\ did = {}
  /\ known = "Unknown"

(***************************************************************************)
(* Status words.                                                           *)
(***************************************************************************)
\* Plausible mistake: 6985 taken for a success.
ConditionsIgnored(sw) == IF sw \in {"9000", "6985"} THEN "none" ELSE "Card"

General(sw) ==
  CASE sw = "9000" -> "none"
    [] sw = "6982" -> "SecurityStatusNotSatisfied"
    [] sw = "6985" -> "ConditionsNotSatisfied"
    [] OTHER -> "Card"

Meanings ==
  {<<"create_ssd", "6A88", "ResidentSdNotFound">>, <<"create_ssd", "6A80", "AidAlreadyExists">>,
   <<"load_package", "6A88", "ResidentSdNotFound">>, <<"load_package", "6A80", "PackageAidExists">>,
   <<"install_applet", "6A88", "PackageNotFound">>, <<"install_applet", "6A80", "AidAlreadyExists">>,
   <<"delete_applet", "6A88", "TargetNoLongerExists">>, <<"delete_ssd", "6A88", "TargetNoLongerExists">>,
   <<"delete_sd_keyset", "6A88", "KeyNotFound">>, <<"set_card_status", "6985", "IllegalLifecycleTransition">>}

MeaningOf(c, sw) ==
  IF \E m \in Meanings : m[1] = c.op /\ m[2] = sw
  THEN (CHOOSE m \in Meanings : m[1] = c.op /\ m[2] = sw)[3]
  ELSE General(sw)

(***************************************************************************)
(* Returning.  Aid::new on an AID a report repeats, but no command carries,*)
(* runs after the card has answered: a success may turn into InvalidAid.   *)
(***************************************************************************)
Return(c, err, report) ==
  /\ call' = NoCall
  /\ result' = [call |-> c, report |-> report,
                err |-> IF err = "none" /\ ~c.label /\ c.op # "set_card_status"
                        THEN "InvalidAid" ELSE err]

Answered(r) == card' = r.card /\ did' = did \cup r.did

\* A card whose MAC chain has come apart from the host's refuses everything.
Replies(answers) == IF chan.sync THEN answers ELSE {Says(card, "6982")}

(***************************************************************************)
(* lifecycle.rs: check_transition, with the plan it returns.               *)
(***************************************************************************)
\* Plausible mistake: the skip-ahead needs no force.
LegalAnyway(force) ==
  {<<"OP_READY", "INITIALIZED">>, <<"INITIALIZED", "SECURED">>, <<"CARD_LOCKED", "SECURED">>,
   <<"SECURED", "CARD_LOCKED">>, <<"OP_READY", "SECURED">>}

Legal(force) ==
  {<<"OP_READY", "INITIALIZED">>, <<"INITIALIZED", "SECURED">>, <<"CARD_LOCKED", "SECURED">>,
   <<"SECURED", "CARD_LOCKED">>}
  \cup {<<"OP_READY", "SECURED">> : f \in {TRUE} \cap {force}}

CheckTransition(current, target, force) ==
  IF target = "TERMINATED" THEN "TerminateOutOfScope"
  ELSE IF target = "Unknown" THEN "IllegalLifecycleTransition"
  ELSE IF current = target THEN "NoOp"
  ELSE IF <<current, target>> \in Legal(force) THEN "Apply"
  ELSE "IllegalLifecycleTransition"

\* Plausible mistake: only single steps of provisioning count.
IrreversibleOneStep(current, target) ==
  <<current, target>> \in {<<"OP_READY", "INITIALIZED">>, <<"INITIALIZED", "SECURED">>}

Irreversible(current, target) ==
  target \in {"INITIALIZED", "SECURED"} /\ current # "CARD_LOCKED"

\* set_card_status once it has a current state to go by.
Decide(c, current) ==
  LET plan == CheckTransition(current, c.target, c.force)
      d == [c EXCEPT !.current = current, !.at = "second"] IN
  IF plan = "Apply" THEN call' = d /\ result' = NoResult
  ELSE IF plan = "NoOp"
       THEN Return(d, "none", [Report EXCEPT !.noop = TRUE, !.state = current,
                                  !.irreversible = Irreversible(current, c.target)])
       ELSE Return(d, plan, Report)

(***************************************************************************)
(* The application calls: the manager wants an open channel, the installs  *)
(* look at the privileges.                                                 *)
(***************************************************************************)
Begin(c) ==
  /\ call = NoCall
  /\ did' = {}
  /\ IF c.op # "open_scp" /\ chan = NoChan THEN Return(c, "NoOpenChannel", Report)
     ELSE IF c.banned THEN Return(c, "UnsupportedPrivilege", Report)
     ELSE IF c.op = "set_card_status" /\ c.current # "read" THEN Decide(c, c.current)
     ELSE call' = c /\ result' = NoResult
  /\ UNCHANGED <<card, chan, known>>

CloseChannel ==
  /\ call = NoCall
  /\ chan' = NoChan
  /\ UNCHANGED <<card, call, result, did, known>>

(***************************************************************************)
(* open_scp: an applet's channel is its domain's; the keyset the selector  *)
(* stands for must have the value the host holds.  A failed open leaves the*)
(* manager with its old channel, of which the card may keep nothing.       *)
(***************************************************************************)
DomainOf(x) == IF x \in Applets THEN card.home[x] ELSE x

OpenScp ==
  /\ call.op = "open_scp"
  /\ \/ /\ Selectable(card, call.x) /\ Refusals = {} => Selected(card, DomainOf(call.x), call.kvn) = {}
        /\ Return(call, "Card", Report)
        /\ \E s \in BOOLEAN : chan' = [chan EXCEPT !.sync = @ /\ s]
     \/ /\ Selectable(card, call.x)
        /\ \E k \in Selected(card, DomainOf(call.x), call.kvn) :
             IF KeysOf(card, DomainOf(call.x))[k] = call.value
             THEN /\ chan' = [sd |-> DomainOf(call.x), kvn |-> k, value |-> call.value, sync |-> TRUE]
                  /\ Return(call, "none", [Report EXCEPT !.kvn = k])
             ELSE Return(call, "CardCryptogramFail", Report) /\ chan' = [chan EXCEPT !.sync = FALSE]
  /\ UNCHANGED <<card, did, known>>

Transmit ==
  /\ call.op = "transmit"
  /\ Return(call, "none", Report)
  /\ UNCHANGED <<card, chan, did, known>>

CreateSsd ==
  /\ call.op = "create_ssd"
  /\ \E r \in Replies(Installs(card, call.x)) :
       Answered(r) /\ Return(call, MeaningOf(call, r.sw), Report)
  /\ UNCHANGED <<chan, known>>

InstallApplet ==
  /\ call.op = "install_applet"
  /\ \E r \in Replies(Installs(card, call.x)) :
       Answered(r) /\ Return(call, MeaningOf(call, r.sw), Report)
  /\ UNCHANGED <<chan, known>>

\* load_package: here its outcome; LoadPackage has the blocks.
LoadPackage ==
  /\ call.op = "load_package"
  /\ \E r \in Replies(Loads(card, call.x)) :
       Answered(r) /\ Return(call, MeaningOf(call, r.sw), Report)
  /\ UNCHANGED <<chan, known>>

CascadeFlag(cascade) == cascade \in {"Cascade", "Always"}

DeleteSsd ==
  /\ call.op = "delete_ssd"
  /\ \E r \in Replies(Deletes(card, call.x, CascadeFlag(call.cascade))) :
       /\ Answered(r)
       /\ Return(call, IF r.sw = "6985" /\ ~CascadeFlag(call.cascade) THEN "SsdHasApplets"
                       ELSE MeaningOf(call, r.sw),
                 [Report EXCEPT !.cascaded = CascadeFlag(call.cascade)])
  /\ UNCHANGED <<chan, known>>

\* delete_applet: the instance, then, when asked and told which, the load file.
WantsElf(c) == c.cascade \in {"Always", "IfLastInstance"} /\ c.elf

DeleteInstance ==
  /\ call.op = "delete_applet" /\ call.at = "first"
  /\ \E r \in Replies(Deletes(card, call.x, FALSE)) :
       /\ Answered(r)
       /\ IF r.sw = "9000" /\ WantsElf(call)
          THEN call' = [call EXCEPT !.at = "second"] /\ UNCHANGED result
          ELSE Return(call, MeaningOf(call, r.sw), Report)
  /\ UNCHANGED <<chan, known>>

DeleteElf ==
  /\ call.op = "delete_applet" /\ call.at = "second"
  /\ \E r \in Replies(Deletes(card, Package, FALSE)) :
       /\ Answered(r)
       /\ Return(call, IF r.sw = "6985" THEN "ElfHasOtherInstances" ELSE MeaningOf(call, r.sw),
                 [Report EXCEPT !.cascaded = r.sw = "9000"])
  /\ UNCHANGED <<chan, known>>

(***************************************************************************)
(* put_sd_keys: SCP03 encrypts under the DEK handle the caller gives, SCP02*)
(* under the session's own.  A card that does not hold the DEK used finds  *)
(* another value, and the KCV of it in its echo, when it sends one.        *)
(***************************************************************************)
Received(c) == IF Protocol = "SCP02" \/ c.dek = chan.value THEN c.value ELSE Garbled

\* The echo is looked at only where it holds all the KCVs.
KcvEchoMismatch(c, full) == full /\ Received(c) # c.value

\* Plausible mistake: a short echo is an error.
PutSdKeysWantsEcho ==
  /\ call.op = "put_sd_keys"
  /\ \E r \in Replies(PutsKey(card, chan.sd, call.kvn, Received(call))), full \in BOOLEAN :
       /\ Answered(r)
       /\ Return(call, IF r.sw = "9000" /\ ~full THEN "Card" ELSE MeaningOf(call, r.sw), Report)
  /\ UNCHANGED <<chan, known>>

PutSdKeys ==
  /\ call.op = "put_sd_keys"
  /\ \E r \in Replies(PutsKey(card, chan.sd, call.kvn, Received(call))), full \in BOOLEAN :
       LET mismatch == r.sw = "9000" /\ KcvEchoMismatch(call, full) IN
       /\ Answered(r)
       /\ Return(call, IF mismatch THEN "KeyCheckValueMismatch" ELSE MeaningOf(call, r.sw),
                 [Report EXCEPT !.checked = full, !.kvn = call.kvn])
  /\ UNCHANGED <<chan, known>>

DeleteSdKeyset ==
  /\ call.op = "delete_sd_keyset"
  /\ \E r \in Replies(DeletesKey(card, chan.sd, call.kvn)) :
       /\ Answered(r)
       /\ Return(call, MeaningOf(call, r.sw), [Report EXCEPT !.kvn = call.kvn])
  /\ UNCHANGED <<chan, known>>

(***************************************************************************)
(* get_card_status: the ISD's state, or Unknown when nothing parses.       *)
(***************************************************************************)
ParsedStates(sw) == {"Unknown"} \cup {l \in {card.life} : sw = "9000"}

StatusRead(c, state) ==
  IF c.op = "get_card_status"
  THEN Return(c, "none", [Report EXCEPT !.state = state]) /\ known' = state
  ELSE /\ IF c.label THEN Decide(c, state) ELSE Return(c, "InvalidAid", Report)
       /\ UNCHANGED known

GetCardStatus ==
  /\ call.op \in {"get_card_status", "set_card_status"} /\ call.at = "first"
  /\ \E r \in Replies({Says(card, "9000")} \cup Refused(card)) :
       IF r.sw \in {"9000", "6A88"}
       THEN \E state \in ParsedStates(r.sw) : StatusRead(call, state)
       ELSE Return(call, General(r.sw), Report) /\ UNCHANGED known
  /\ UNCHANGED <<card, chan, did>>

SetCardStatus ==
  /\ call.op = "set_card_status" /\ call.at = "second"
  /\ \E r \in Replies(SetsLife(card, call.target)) :
       /\ Answered(r)
       /\ Return(call, MeaningOf(call, r.sw),
                 [Report EXCEPT !.state = call.current,
                    !.irreversible = Irreversible(call.current, call.target)])
       /\ known' = IF r.sw = "9000" THEN call.target ELSE known
  /\ UNCHANGED chan

(***************************************************************************)
(* What may go wrong: the command or its answer is lost, with or without   *)
(* the two MAC chains coming apart, and the workflow returns an error.     *)
(***************************************************************************)
Pending ==
  CASE call.op = "create_ssd" \/ call.op = "install_applet" -> Installs(card, call.x)
    [] call.op = "load_package" -> Loads(card, call.x)
    [] call.op = "delete_ssd" -> Deletes(card, call.x, CascadeFlag(call.cascade))
    [] call.op = "delete_applet" /\ call.at = "first" -> Deletes(card, call.x, FALSE)
    [] call.op = "delete_applet" /\ call.at = "second" -> Deletes(card, Package, FALSE)
    [] call.op = "put_sd_keys" -> PutsKey(card, chan.sd, call.kvn, Received(call))
    [] call.op = "delete_sd_keyset" -> DeletesKey(card, chan.sd, call.kvn)
    [] call.op = "set_card_status" /\ call.at = "second" -> SetsLife(card, call.target)
    [] OTHER -> {Says(card, "9000")}

ExchangeLost ==
  /\ call # NoCall
  /\ \/ UNCHANGED <<card, did>> /\ chan' = [chan EXCEPT !.sync = FALSE]
     \/ /\ \E r \in Replies(Pending) : Answered(r)
        /\ \E s \in BOOLEAN : chan' = [chan EXCEPT !.sync = @ /\ s]
  /\ Return(call, "Transport", Report)
  /\ UNCHANGED known

\* An application on the card, or another terminal between two sessions.
CardMoves ==
  /\ \E l \in Lives : <<card.life, l>> \in Arrows /\ card' = [card EXCEPT !.life = l]
  /\ UNCHANGED <<chan, call, result, did, known>>

Workflow ==
  \/ OpenScp \/ Transmit \/ CreateSsd \/ DeleteSsd \/ LoadPackage \/ InstallApplet
  \/ DeleteInstance \/ DeleteElf \/ PutSdKeys \/ DeleteSdKeyset \/ GetCardStatus \/ SetCardStatus

\* A caller that names a current state names the one it last learnt.
Honest(c) == c.op = "set_card_status" => c.current \in {"read", known}

Next ==
  \/ \E c \in Requests : Honest(c) /\ Begin(c)
  \/ CloseChannel
  \/ Workflow
  \/ ExchangeLost
  \/ CardMoves

Spec == Init /\ [][Next]_vars

-----------------------------------------------------------------------------
TypeOK ==
  /\ card \in CardType /\ chan \in ChanType /\ call \in CallType
  /\ result \in ResultType /\ did \subseteq Effects /\ known \in LifeCycles

\* What the report of a call that succeeded says the card did.
Claims(c, r) ==
  CASE c.op \in {"create_ssd", "install_applet"} -> {[did |-> "made", what |-> c.x]}
    [] c.op = "load_package" -> {[did |-> "made", what |-> Package]}
    [] c.op = "delete_ssd" -> {[did |-> "deleted", what |-> c.x]}
    [] c.op = "delete_applet" -> {[did |-> "deleted", what |-> x] :
                                    x \in {c.x} \cup {p \in {Package} : r.cascaded}}
    [] OTHER -> {}

(***************************************************************************)
(* A call that succeeds has done to the card what its report says, and     *)
(* nothing else: of the two DELETEs of delete_applet, the ones it lists;   *)
(* of PUT KEY, the keyset the caller meant, whenever the card sent the KCV *)
(* echo verify_kcv_echo looks for; of SET STATUS, nothing for a no-op.     *)
(* An SSD deleted with its contents takes objects along that are not listed*)
(* (instances_removed stays empty), and says so with cascade_used.         *)
(***************************************************************************)
ReportIsTrue ==
  LET c == result.call  r == result.report IN
  result.err = "none" =>
    /\ Claims(c, r) \subseteq did
    /\ c.op \in {"create_ssd", "install_applet", "load_package", "delete_applet"} => did = Claims(c, r)
    /\ c.op = "put_sd_keys" /\ r.checked =>
         \E d \in Domains : did = {[did |-> "stored", what |-> d, kvn |-> c.kvn, value |-> c.value]}
    /\ c.op = "delete_sd_keyset" => \E d \in Domains : did = {[did |-> "dropped", what |-> d, kvn |-> c.kvn]}
    /\ c.op = "set_card_status" =>
         IF r.noop THEN did = {} ELSE \E l \in Lives : did = {[did |-> "moved", from |-> l, to |-> c.target]}

(***************************************************************************)
(* An error leaves the card as it was, with four exceptions a caller has   *)
(* to know of: a lost exchange; the second DELETE of delete_applet, after  *)
(* which the instance is gone; a KCV mismatch, after which the card holds  *)
(* another keyset than the caller's at that version; and InvalidAid for an *)
(* AID that is only reported, after which everything has been done.        *)
(***************************************************************************)
ErrorsSayWhatTheyLeave ==
  LET c == result.call  err == result.err IN
  /\ err \notin {"none", "Transport", "KeyCheckValueMismatch", "InvalidAid"} =>
       did = IF c.op = "delete_applet" /\ c.at = "second" THEN {[did |-> "deleted", what |-> c.x]} ELSE {}
  /\ err = "KeyCheckValueMismatch" => \E e \in did : e.did = "stored" /\ e.kvn = c.kvn /\ e.value # c.value

\* The call the history `did' belongs to, under way or returned.
Caller == IF call = NoCall THEN result.call ELSE call

(***************************************************************************)
(* set_card_status never terminates a card, never moves it but along an    *)
(* arrow, and takes it from OP_READY straight to SECURED only by force:    *)
(* even with a current state that was read long ago, while other terminals *)
(* moved the card.                                                         *)
(***************************************************************************)
NoStateSkipped ==
  \A e \in did : e.did = "moved" =>
    /\ e.to # "TERMINATED"
    /\ e.from = "OP_READY" /\ e.to = "SECURED" => Caller.force

(***************************************************************************)
(* A step that cannot be undone is never reported as one that can, although*)
(* `irreversible' is computed from the state the caller believed the card  *)
(* in and not from where it was.  (The converse fails: a card that was     *)
(* locked behind the caller's back is unlocked with `irreversible' set.)   *)
(***************************************************************************)
IrreversibleIsTold ==
  result.err = "none" /\ result.call.op = "set_card_status" =>
    \A e \in did : e.did = "moved" /\ e.to \in {"INITIALIZED", "SECURED"} /\ e.from # "CARD_LOCKED"
                      => result.report.irreversible

=============================================================================
