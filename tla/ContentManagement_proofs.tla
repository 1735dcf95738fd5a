------------------------ MODULE ContentManagement_proofs ------------------------
(***************************************************************************)
(* For every card, whatever it refuses and whoever else moves it, and for  *)
(* every sequence of calls: reports and errors say what was done, and      *)
(* set_card_status skips no state.                                         *)
(*                                                                         *)
(* The four properties speak of a call that has returned.  Between calls   *)
(* they must be known of the step before: what the first DELETE of         *)
(* delete_applet has done already (SoFar), that set_card_status waits for  *)
(* the card only with a step check_transition allows (Allowed), and what a *)
(* state read earlier still says of a card that has moved on (Fits): from  *)
(* OP_READY a card leaves for good, and a locked card is unlocked to       *)
(* SECURED or terminated.                                                  *)
(***************************************************************************)
EXTENDS ContentManagement, TLAPS

Sound(c) ==
  /\ {"life", "home"} \subseteq DOMAIN c
  /\ c.life \in Lives /\ c.home \in [Objects -> Domains \cup {Absent}]

InDomain == "sd" \in DOMAIN chan /\ chan.sd \in Domains

Session ==
  /\ chan = NoChan \/ InDomain
  /\ call.op \notin {"none", "open_scp"} => InDomain

\* What a state learnt earlier says of a card that may have moved since.
Fits(state) ==
  /\ state \notin {"read", "Unknown", "OP_READY"} => card.life # "OP_READY"
  /\ state = "CARD_LOCKED" => card.life \in {"CARD_LOCKED", "SECURED", "TERMINATED"}

Allowed ==
  call.op = "set_card_status" /\ call.at = "second" =>
    <<call.current, call.target>> \in Legal(call.force) /\ Fits(call.current)

Deleted(x) == [did |-> "deleted", what |-> x]
Before(c) == IF c.op = "delete_applet" /\ c.at = "second" THEN {Deleted(c.x)} ELSE {}
SoFar == call # NoCall => result = NoResult /\ did = Before(call)

Told == ReportIsTrue /\ ErrorsSayWhatTheyLeave /\ NoStateSkipped /\ IrreversibleIsTold

IInv ==
  /\ Sound(card) /\ call \in CallType /\ Session
  /\ Fits(known) /\ Allowed /\ SoFar /\ Told

------------------------------------------------------------------------------
(***************************************************************************)
(* The card                                                                *)
(***************************************************************************)
\* An answer of a card that refuses has changed nothing; one that succeeds
\* has had the effects of the command, and left the life cycle alone.
Plainly(c, r, effects) ==
  /\ Sound(r.card) /\ r.card.life = c.life
  /\ IF r.sw = "9000" THEN r.did = effects ELSE r.did = {}

\* A refusal is a status word and no more.
LEMMA RefusalsKeep ==
  ASSUME NEW c, Sound(c), NEW r \in Refused(c), NEW effects
  PROVE  Plainly(c, r, effects) /\ r.sw # "9000" /\ r.card = c
<1>1. PICK sw \in Refusals : r = Says(c, sw)
  BY DEF Refused
<1>2. sw # "9000"
  BY RefusalsAssumption
<1> QED BY <1>1, <1>2 DEF Says, Plainly

\* An answer that only says something.
LEMMA SayingKeeps ==
  ASSUME NEW c, Sound(c), NEW sw, sw # "9000", NEW effects
  PROVE  Plainly(c, Says(c, sw), effects)
BY DEF Says, Plainly

\* INSTALL [for load] and LOAD make the package an object of a domain.
LEMMA LoadsKeep ==
  ASSUME NEW c, Sound(c), NEW d, NEW r \in Loads(c, d)
  PROVE  Plainly(c, r, {[did |-> "made", what |-> Package]})
<1> DEFINE e == {[did |-> "made", what |-> Package]}
           after == [c EXCEPT !.home[Package] = d]
<1>1. CASE r \in Refused(c)
  BY <1>1, RefusalsKeep
<1>2. CASE r = Says(c, "6A80") \/ r = Says(c, "6A88")
  BY <1>2, SayingKeeps
<1>3. CASE r = Does(after, e) /\ d \in Domains
  <2>1. after.life = c.life /\ after.home = [c.home EXCEPT ![Package] = d] /\ DOMAIN after = DOMAIN c
    BY DEF Sound
  <2>2. Sound(after)
    BY <1>3, <2>1 DEF Sound
  <2> HIDE DEF after
  <2> QED BY <1>3, <2>1, <2>2 DEF Does, Plainly
<1> QED BY <1>1, <1>2, <1>3 DEF Loads

\* INSTALL [for install] makes an SSD, or an applet of a loaded package.
LEMMA InstallsKeep ==
  ASSUME NEW c, Sound(c), NEW x, NEW r \in Installs(c, x)
  PROVE  Plainly(c, r, {[did |-> "made", what |-> x]})
<1> DEFINE e == {[did |-> "made", what |-> x]}
           d == IF x \in Applets THEN c.home[Package] ELSE Isd
           after == [c EXCEPT !.home[x] = d]
<1>1. CASE r \in Refused(c)
  BY <1>1, RefusalsKeep
<1>2. CASE r = Says(c, "6A80") \/ r = Says(c, "6A88")
  BY <1>2, SayingKeeps
<1>3. CASE r = Does(after, e)
  <2>1. d \in Domains \cup {Absent}
    BY DEF Sound, Objects, Domains
  <2> HIDE DEF d
  <2>2. after.life = c.life /\ after.home = [c.home EXCEPT ![x] = d] /\ DOMAIN after = DOMAIN c
    BY DEF Sound
  <2>3. Sound(after)
    BY <2>1, <2>2 DEF Sound
  <2> HIDE DEF after
  <2> QED BY <1>3, <2>2, <2>3 DEF Does, Plainly
<1> QED BY <1>1, <1>2, <1>3 DEF Installs

\* DELETE [object] takes the object, and what needs it only when told to.
LEMMA DeletesKeep ==
  ASSUME NEW c, Sound(c), NEW x, NEW cascade \in BOOLEAN, NEW r \in Deletes(c, x, cascade)
  PROVE  \E more : /\ Plainly(c, r, {Deleted(o) : o \in {x} \cup more})
                   /\ ~ cascade => more = {}
<1> DEFINE more == IF cascade THEN Needed(c, x) ELSE {}
           gone == {x} \cup Needed(c, x)
           e == {Deleted(o) : o \in {x} \cup more}
           after == [c EXCEPT
                      !.home = [o \in Objects |-> IF o \in gone THEN Absent ELSE @[o]],
                      !.keys = [d \in Domains |-> IF d \in gone THEN [k \in Kvns |-> NoKey] ELSE @[d]]]
<1>1. CASE r \in Refused(c)
  <2>1. Plainly(c, r, e)
    BY <1>1, RefusalsKeep
  <2> QED BY <2>1
<1>2. CASE r = Says(c, "6A88") \/ r = Says(c, "6985")
  <2>1. Plainly(c, r, e)
    BY <1>2, SayingKeeps
  <2> QED BY <2>1
<1>3. CASE /\ r = Does(after, {[did |-> "deleted", what |-> o] : o \in gone})
           /\ ~ cascade => Needed(c, x) = {}
  <2>1. /\ after.life = c.life /\ DOMAIN after = DOMAIN c
        /\ after.home = [o \in Objects |-> IF o \in gone THEN Absent ELSE c.home[o]]
    BY DEF Sound
  <2>2. Sound(after)
    <3>1. after.home \in [Objects -> Domains \cup {Absent}]
      BY <2>1 DEF Sound
    <3> QED BY <2>1, <3>1 DEF Sound
  <2>3. gone = {x} \cup more
    BY <1>3
  <2> HIDE DEF after, gone, more
  <2>4. Plainly(c, r, e)
    BY <1>3, <2>1, <2>2, <2>3 DEF Does, Plainly, Deleted
  <2> QED BY <1>3, <2>4 DEF more
<1> QED BY <1>1, <1>2, <1>3 DEF Deletes

\* PUT KEY stores the keyset at the version the command names.
LEMMA PutsKeyKeeps ==
  ASSUME NEW c, Sound(c), NEW d, NEW kvn, NEW value, NEW r \in PutsKey(c, d, kvn, value)
  PROVE  Plainly(c, r, {[did |-> "stored", what |-> d, kvn |-> kvn, value |-> value]})
<1> DEFINE e == {[did |-> "stored", what |-> d, kvn |-> kvn, value |-> value]}
           first == c.quirky /\ c.virgin /\ d = Isd
           old == IF first THEN [k \in Kvns |-> NoKey] ELSE c.keys[d]
           after == [c EXCEPT !.keys[d] = [old EXCEPT ![kvn] = value],
                              !.default = IF first THEN kvn ELSE @,
                              !.virgin = @ /\ d # Isd]
<1>1. CASE r \in Refused(c)
  BY <1>1, RefusalsKeep
<1>2. CASE r = Says(c, "6A80")
  BY <1>2, SayingKeeps
<1>3. CASE r = Does(after, e)
  <2>1. after.life = c.life /\ after.home = c.home /\ DOMAIN after = DOMAIN c
    BY DEF Sound
  <2> HIDE DEF after
  <2> QED BY <1>3, <2>1 DEF Does, Plainly, Sound
<1> QED BY <1>1, <1>2, <1>3 DEF PutsKey

\* DELETE [key] drops the version, whichever the card makes its default then.
LEMMA DeletesKeyKeeps ==
  ASSUME NEW c, Sound(c), NEW d, NEW kvn, NEW r \in DeletesKey(c, d, kvn)
  PROVE  Plainly(c, r, {[did |-> "dropped", what |-> d, kvn |-> kvn]})
<1> DEFINE e == {[did |-> "dropped", what |-> d, kvn |-> kvn]}
           after(k) == [c EXCEPT !.keys[d] = [c.keys[d] EXCEPT ![kvn] = NoKey], !.default = k]
<1>1. CASE r \in Refused(c)
  BY <1>1, RefusalsKeep
<1>2. CASE r = Says(c, "6A88")
  BY <1>2, SayingKeeps
<1>3. ASSUME NEW k, r = Does(after(k), e)
      PROVE  Plainly(c, r, e)
  <2>1. after(k).life = c.life /\ after(k).home = c.home /\ DOMAIN after(k) = DOMAIN c
    BY DEF Sound
  <2> HIDE DEF after
  <2> QED BY <1>3, <2>1 DEF Does, Plainly, Sound
<1>4. \/ r \in Refused(c) \/ r = Says(c, "6A88")
      \/ \E k : r = Does(after(k), e)
  BY DEF DeletesKey
<1> QED BY <1>1, <1>2, <1>3, <1>4

\* SET STATUS moves the card along an arrow, to the state the command names.
LEMMA SetsLifeKeeps ==
  ASSUME NEW c, Sound(c), NEW target, NEW r \in SetsLife(c, target)
  PROVE  /\ Sound(r.card)
         /\ \/ r.sw # "9000" /\ r.card.life = c.life /\ r.did = {}
            \/ /\ r.sw = "9000" /\ r.card.life = target /\ <<c.life, target>> \in Arrows
               /\ r.did = {[did |-> "moved", from |-> c.life, to |-> target]}
<1> DEFINE after == [c EXCEPT !.life = target]
           e == {[did |-> "moved", from |-> c.life, to |-> target]}
<1>1. CASE r \in Refused(c)
  BY <1>1, RefusalsKeep DEF Plainly
<1>2. CASE r = Says(c, "6985")
  BY <1>2, SayingKeeps DEF Says
<1>3. CASE r = Does(after, e) /\ <<c.life, target>> \in Arrows
  <2>1. after.life = target /\ after.home = c.home /\ DOMAIN after = DOMAIN c
    BY DEF Sound
  <2>2. target \in Lives
    BY <1>3 DEF Arrows, Lives
  <2> HIDE DEF after
  <2> QED BY <1>3, <2>1, <2>2 DEF Does, Sound
<1> QED BY <1>1, <1>2, <1>3 DEF SetsLife
\* A session whose chains have come apart is refused, and nothing is done.
LEMMA RepliesKeep ==
  ASSUME Sound(card), NEW answers, NEW r \in Replies(answers)
  PROVE  r \in answers \/ \A effects : Plainly(card, r, effects) /\ r.sw # "9000" /\ r.card = card
<1>1. CASE r = Says(card, "6982")
  <2>1. ASSUME NEW effects PROVE Plainly(card, r, effects)
    BY <1>1, SayingKeeps
  <2>2. r.sw # "9000" /\ r.card = card
    BY <1>1 DEF Says
  <2> QED BY <2>1, <2>2
<1> QED BY <1>1 DEF Replies

\* set_card_status hears of the step it asked for, or of a refusal.
LifeReply(r) ==
  /\ Sound(r.card)
  /\ \/ r.sw # "9000" /\ r.card.life = card.life /\ r.did = {}
     \/ /\ r.sw = "9000" /\ r.card.life = call.target /\ <<card.life, call.target>> \in Arrows
        /\ r.did = {[did |-> "moved", from |-> card.life, to |-> call.target]}

\* What has happened on the card once a reply is on its way.
LEMMA LifeReplies ==
  ASSUME Sound(card), NEW r \in Replies(SetsLife(card, call.target))
  PROVE  LifeReply(r)
<1>1. CASE r \in SetsLife(card, call.target)
  BY <1>1, SetsLifeKeeps DEF LifeReply
<1>2. CASE Plainly(card, r, {}) /\ r.sw # "9000"
  BY <1>2 DEF LifeReply, Plainly
<1> QED BY <1>1, <1>2, RepliesKeep

------------------------------------------------------------------------------
(***************************************************************************)
(* Errors and reports                                                      *)
(***************************************************************************)
\* Only 9000 is a success, and no status word stands for a host-side error.
LEMMA MeaningsTold ==
  ASSUME NEW c, NEW sw
  PROVE  /\ MeaningOf(c, sw) = "none" <=> sw = "9000"
         /\ MeaningOf(c, sw) # "KeyCheckValueMismatch"
<1>1. \A m \in Meanings : /\ m[2] # "9000" /\ m[3] # "none"
                          /\ m[3] # "KeyCheckValueMismatch"
  BY DEF Meanings
<1>2. /\ General(sw) = "none" <=> sw = "9000"
      /\ General(sw) # "KeyCheckValueMismatch"
  BY DEF General
<1>3. CASE \E m \in Meanings : m[1] = c.op /\ m[2] = sw
  <2> DEFINE m == CHOOSE m \in Meanings : m[1] = c.op /\ m[2] = sw
  <2>1. m \in Meanings /\ m[2] = sw
    BY <1>3
  <2>2. MeaningOf(c, sw) = m[3]
    BY <1>3 DEF MeaningOf
  <2> HIDE DEF m
  <2> QED BY <1>1, <2>1, <2>2
<1>4. CASE ~ \E m \in Meanings : m[1] = c.op /\ m[2] = sw
  BY <1>2, <1>4 DEF MeaningOf
<1> QED BY <1>3, <1>4

\* The properties of the call that has returned, in terms of what it was told.
Honours(c, r, d) ==
  /\ Claims(c, r) \subseteq d
  /\ c.op \in {"create_ssd", "install_applet", "load_package", "delete_applet"} => d = Claims(c, r)
  /\ c.op = "put_sd_keys" /\ r.checked =>
       \E x \in Domains : d = {[did |-> "stored", what |-> x, kvn |-> c.kvn, value |-> c.value]}
  /\ c.op = "delete_sd_keyset" =>
       \E x \in Domains : d = {[did |-> "dropped", what |-> x, kvn |-> c.kvn]}
  /\ c.op = "set_card_status" =>
       /\ IF r.noop THEN d = {}
          ELSE \E l \in Lives : d = {[did |-> "moved", from |-> l, to |-> c.target]}
       /\ \A e \in d : e.did = "moved" /\ e.to \in {"INITIALIZED", "SECURED"}
                          /\ e.from # "CARD_LOCKED" => r.irreversible

Leaves(c, err, d) ==
  /\ err \notin {"none", "Transport", "KeyCheckValueMismatch", "InvalidAid"} => d = Before(c)
  /\ err = "KeyCheckValueMismatch" =>
       \E e \in d : e.did = "stored" /\ e.kvn = c.kvn /\ e.value # c.value

SkipsNothing(c, d) ==
  \A e \in d : e.did = "moved" =>
    /\ e.to # "TERMINATED"
    /\ e.from = "OP_READY" /\ e.to = "SECURED" => c.force

\* A workflow that returns leaves the manager idle, and tells what it did.
LEMMA ReturnsTold ==
  ASSUME NEW c \in CallType, NEW err, NEW report, Return(c, err, report),
         NEW d, did' = d,
         err = "none" => Honours(c, report, d), Leaves(c, err, d), SkipsNothing(c, d)
  PROVE  call' = NoCall /\ Told'
<1>1. /\ call' = NoCall /\ result'.call = c /\ result'.report = report
      /\ result'.err \in {err, "InvalidAid"} /\ (result'.err = "none" => err = "none")
      /\ (result'.err # err => result'.err = "InvalidAid")
  BY DEF Return
<1>2. ReportIsTrue'
  BY <1>1 DEF ReportIsTrue, Honours, Claims
<1>3. ErrorsSayWhatTheyLeave'
  BY <1>1 DEF ErrorsSayWhatTheyLeave, Leaves, Before, Deleted
<1>4. NoStateSkipped'
  BY <1>1 DEF NoStateSkipped, Caller, SkipsNothing
<1>5. IrreversibleIsTold'
  BY <1>1 DEF IrreversibleIsTold, Honours
<1> QED BY <1>1, <1>2, <1>3, <1>4, <1>5 DEF Told

\* Nothing is asked and nothing told yet: this too is of the types.
LEMMA Quiet ==
  /\ NoCall \in CallType /\ Before(NoCall) = {}
  /\ NoCall.op = "none" /\ NoCall.at = "first"
  /\ NoResult.err = "none" /\ NoResult.call = NoCall
<1>1. NoCall.op = "none" /\ NoCall.at = "first" /\ NoResult.err = "none" /\ NoResult.call = NoCall
  BY DEF NoCall, NoResult
<1>2. NoCall \in CallType
  BY DEF NoCall, CallType, Ops, Domains, Cascades, LifeCycles, Steps
<1> QED BY <1>1, <1>2 DEF Before

\* While a call waits, nothing is told yet and only its first DELETE is done.
LEMMA WaitingTold ==
  ASSUME call' # NoCall, result' = NoResult, did' = Before(call')
  PROVE  Told'
<1>1. \A e \in Before(call') : e.did # "moved"
  BY DEF Before, Deleted
<1>2. /\ result'.err = "none" /\ result'.call.op = "none"
  BY Quiet
<1>3. ReportIsTrue' /\ ErrorsSayWhatTheyLeave' /\ IrreversibleIsTold'
  BY <1>2 DEF ReportIsTrue, ErrorsSayWhatTheyLeave, IrreversibleIsTold, Claims
<1>4. NoStateSkipped'
  BY <1>1 DEF NoStateSkipped
<1> QED BY <1>3, <1>4 DEF Told

\* A call that returns from a card whose life cycle has not moved.
LEMMA ReturnKeepsIInv ==
  ASSUME IInv, NEW c \in CallType, NEW err, NEW report, Return(c, err, report), Told',
         Sound(card'), Fits(known)', chan' = NoChan \/ InDomain'
  PROVE  IInv'
<1>1. call' = NoCall
  BY DEF Return
<1> QED BY <1>1, Quiet DEF IInv, Session, Allowed, SoFar
\* A call that has had its answer, the life cycle not being concerned.
LEMMA AnsweredKeepsIInv ==
  ASSUME IInv, call # NoCall, NEW err, NEW report, Return(call, err, report),
         NEW r, Answered(r), NEW effects, Plainly(card, r, effects),
         \A e \in effects : e.did # "moved",
         UNCHANGED known, chan' = NoChan \/ InDomain',
         err = "none" => Honours(call, report, did'), Leaves(call, err, did')
  PROVE  IInv'
<1>1. /\ card' = r.card /\ did' = did \cup r.did /\ did = Before(call)
      /\ call \in CallType /\ Sound(card')
  BY DEF Answered, Plainly, IInv, SoFar
<1>2. \A e \in did' : e.did # "moved"
  <2>1. \A e \in Before(call) : e.did # "moved"
    BY DEF Before, Deleted
  <2>2. \A e \in r.did : e.did # "moved"
    BY DEF Plainly
  <2> QED BY <1>1, <2>1, <2>2
<1>3. Told'
  BY <1>1, <1>2, ReturnsTold DEF SkipsNothing
<1>4. Fits(known)'
  BY <1>1 DEF IInv, Fits, Plainly
<1> QED BY <1>1, <1>3, <1>4, ReturnKeepsIInv

------------------------------------------------------------------------------
(***************************************************************************)
(* Every step                                                              *)
(***************************************************************************)
\* A new manager has no channel, and has heard nothing of the card.
LEMMA InitIInv == Init => IInv
<1> SUFFICES ASSUME Init PROVE IInv
  OBVIOUS
<1>1. Sound(card)
  BY CardsAssumption DEF Init, CardType, Sound
<1>2. Told
  BY Quiet DEF Init, Told, ReportIsTrue, ErrorsSayWhatTheyLeave, NoStateSkipped,
     IrreversibleIsTold, Claims
<1> QED BY <1>1, <1>2, Quiet DEF Init, IInv, Session, Fits, Allowed, SoFar

\* set_card_status with a state to go by: what check_transition says of it.
LEMMA DecideKeepsIInv ==
  ASSUME IInv, NEW c \in CallType, NEW current \in LifeCycles, Decide(c, current),
         c.op = "set_card_status", did' = {}, Fits(current), InDomain,
         UNCHANGED <<card, chan, known>>
  PROVE  IInv'
<1> DEFINE plan == CheckTransition(current, c.target, c.force)
           d == [c EXCEPT !.current = current, !.at = "second"]
           report == [Report EXCEPT !.noop = TRUE, !.state = current,
                                    !.irreversible = Irreversible(current, c.target)]
<1>1. /\ d \in CallType /\ d.op = "set_card_status" /\ d.at = "second" /\ d.current = current
      /\ d.target = c.target /\ d.force = c.force /\ d.op # "none"
  BY DEF CallType, Steps
<1>2. /\ Sound(card') /\ Fits(known)' /\ Fits(current)' /\ InDomain'
  BY DEF IInv, Fits, InDomain
<1>3. CASE plan = "Apply"
  <2>1. call' = d /\ result' = NoResult /\ <<current, c.target>> \in Legal(c.force)
    BY <1>3 DEF Decide, CheckTransition
  <2> HIDE DEF d
  <2>2. call' # NoCall /\ did' = Before(call')
    BY <1>1, <2>1, Quiet DEF Before
  <2>3. Told'
    BY <2>1, <2>2, WaitingTold
  <2> QED BY <1>1, <1>2, <2>1, <2>2, <2>3 DEF IInv, Session, Allowed, SoFar
<1>4. CASE plan = "NoOp"
  <2>1. Return(d, "none", report)
    BY <1>4 DEF Decide
  <2>2. report.noop = TRUE /\ Claims(d, report) = {}
    BY <1>1 DEF Report, Claims
  <2>3. Honours(d, report, {})
    BY <1>1, <2>2 DEF Honours
  <2>4. Leaves(d, "none", {}) /\ SkipsNothing(d, {})
    BY DEF Leaves, SkipsNothing
  <2> HIDE DEF d, report
  <2>5. Told'
    BY <1>1, <2>1, <2>3, <2>4, ReturnsTold
  <2> QED BY <1>1, <1>2, <2>1, <2>5, ReturnKeepsIInv
<1>5. CASE plan \notin {"Apply", "NoOp"}
  <2>1. Return(d, plan, Report)
    BY <1>5 DEF Decide
  <2>2. plan \in {"TerminateOutOfScope", "IllegalLifecycleTransition"}
    BY <1>5 DEF CheckTransition
  <2>3. Leaves(d, plan, {}) /\ SkipsNothing(d, {})
    BY <1>1, <2>2 DEF Leaves, SkipsNothing, Before
  <2> HIDE DEF d, plan
  <2>4. Told'
    BY <1>1, <2>1, <2>2, <2>3, ReturnsTold
  <2> QED BY <1>1, <1>2, <2>1, <2>4, ReturnKeepsIInv
<1> QED BY <1>3, <1>4, <1>5

\* The manager refuses a call, or starts it with nothing done.
LEMMA BeginKeepsIInv ==
  ASSUME IInv, NEW c \in CallType, Makeable(c), Honest(c), Begin(c)
  PROVE  IInv'
<1>1. /\ c \in CallType /\ c.at = "first" /\ did' = {} /\ UNCHANGED <<card, chan, known>>
  BY DEF Begin, Makeable
<1>2. Sound(card') /\ Fits(known)' /\ (chan = NoChan \/ InDomain) /\ (chan' = NoChan \/ InDomain')
  BY <1>1 DEF IInv, Fits, InDomain, Session
<1>3. ASSUME NEW err, err \notin {"none", "Transport", "KeyCheckValueMismatch", "InvalidAid"},
             Return(c, err, Report)
      PROVE  IInv'
  <2>1. Leaves(c, err, {}) /\ SkipsNothing(c, {})
    BY <1>1, <1>3 DEF Leaves, SkipsNothing, Before
  <2>2. Told'
    BY <1>1, <1>3, <2>1, ReturnsTold
  <2> QED BY <1>1, <1>2, <1>3, <2>2, ReturnKeepsIInv
<1>4. CASE c.op # "open_scp" /\ chan = NoChan
  BY <1>3, <1>4 DEF Begin
<1>5. CASE ~ (c.op # "open_scp" /\ chan = NoChan) /\ c.banned
  BY <1>3, <1>5 DEF Begin
<1>6. CASE /\ ~ (c.op # "open_scp" /\ chan = NoChan) /\ ~ c.banned
           /\ c.op = "set_card_status" /\ c.current # "read"
  <2>1. c.current \in LifeCycles /\ c.current = known /\ Decide(c, c.current) /\ InDomain
    BY <1>1, <1>2, <1>6 DEF Honest, Begin, CallType
  <2> QED BY <1>1, <1>6, <2>1, DecideKeepsIInv DEF IInv
<1>7. CASE /\ ~ (c.op # "open_scp" /\ chan = NoChan) /\ ~ c.banned
           /\ ~ (c.op = "set_card_status" /\ c.current # "read")
  <2>1. call' = c /\ result' = NoResult
    BY <1>7 DEF Begin
  <2>2. Before(c) = {}
    BY <1>1 DEF Before
  <2>3. Told'
    <3>1. CASE c # NoCall
      BY <1>1, <2>1, <2>2, <3>1, WaitingTold
    <3>2. CASE c = NoCall
      BY <1>1, <2>1, <3>2, Quiet DEF Told, ReportIsTrue, ErrorsSayWhatTheyLeave, NoStateSkipped,
         IrreversibleIsTold, Claims
    <3> QED BY <3>1, <3>2
  <2>4. c.op \notin {"none", "open_scp"} => InDomain'
    BY <1>2, <1>7, <1>1 DEF InDomain
  <2> QED BY <1>1, <1>2, <2>1, <2>2, <2>3, <2>4 DEF IInv, Session, Allowed, SoFar
<1> QED BY <1>4, <1>5, <1>6, <1>7

\* open_scp does nothing to the card but open, or lose, a session.
LEMMA OpenScpKeepsIInv ==
  ASSUME IInv, OpenScp
  PROVE  IInv'
<1>1. /\ call \in CallType /\ call # NoCall /\ call.op = "open_scp" /\ did = {}
      /\ UNCHANGED <<card, did, known>> /\ Sound(card)
      /\ (chan = NoChan \/ InDomain)
  BY Quiet DEF IInv, OpenScp, SoFar, Before, Session
<1>2. Sound(card') /\ Fits(known)'
  BY <1>1 DEF IInv, Fits
<1>3. Selectable(card, call.x) => DomainOf(call.x) \in Domains
  <2>1. call.x \in Domains \cup Objects
    BY <1>1 DEF CallType
  <2>2. CASE call.x \in Applets /\ Selectable(card, call.x)
    <3>1. call.x \in Objects /\ call.x # Isd
      BY <2>2, NamesAssumption DEF Objects
    <3>2. card.home[call.x] \in Domains \cup {Absent} /\ card.home[call.x] # Absent
      BY <1>1, <2>2, <3>1 DEF Sound, Selectable, On
    <3> QED BY <2>2, <3>2 DEF DomainOf
  <2>3. CASE call.x \notin Applets /\ Selectable(card, call.x)
    BY <2>1, <2>3 DEF DomainOf, Selectable, Objects, Domains
  <2> QED BY <2>2, <2>3
<1>4. ASSUME NEW s \in BOOLEAN, chan' = [chan EXCEPT !.sync = @ /\ s]
      PROVE  chan' = NoChan \/ InDomain'
  <2>1. CASE chan = NoChan
    BY <1>4, <2>1 DEF NoChan
  <2>2. CASE InDomain
    BY <1>4, <2>2 DEF InDomain
  <2> QED BY <1>1, <2>1, <2>2
<1>5. ASSUME chan' = [chan EXCEPT !.sync = FALSE]
      PROVE  chan' = NoChan \/ InDomain'
  <2>1. CASE chan = NoChan
    BY <1>5, <2>1 DEF NoChan
  <2>2. CASE InDomain
    BY <1>5, <2>2 DEF InDomain
  <2> QED BY <1>1, <2>1, <2>2
<1>6. ASSUME NEW err \in {"none", "Card", "CardCryptogramFail"}, NEW report, Return(call, err, report)
      PROVE  Told'
  <2>1. Honours(call, report, {}) /\ Leaves(call, err, {}) /\ SkipsNothing(call, {})
    BY <1>1 DEF Honours, Claims, Leaves, Before, SkipsNothing
  <2> QED BY <1>1, <1>6, <2>1, ReturnsTold
<1>7. /\ chan' = NoChan \/ InDomain'
      /\ \E report : \E err \in {"none", "Card", "CardCryptogramFail"} : Return(call, err, report)
  <2>1. CASE /\ Return(call, "Card", Report)
             /\ \E s \in BOOLEAN : chan' = [chan EXCEPT !.sync = @ /\ s]
    BY <1>4, <2>1
  <2>2. ASSUME NEW k, Selectable(card, call.x),
               chan' = [sd |-> DomainOf(call.x), kvn |-> k, value |-> call.value, sync |-> TRUE],
               Return(call, "none", [Report EXCEPT !.kvn = k])
        PROVE  InDomain' /\ \E report : Return(call, "none", report)
    BY <1>3, <2>2 DEF InDomain
  <2>3. CASE Return(call, "CardCryptogramFail", Report) /\ chan' = [chan EXCEPT !.sync = FALSE]
    BY <1>5, <2>3
  <2> QED BY <2>1, <2>2, <2>3 DEF OpenScp
<1> QED BY <1>1, <1>2, <1>6, <1>7, ReturnKeepsIInv
\* A call that asks the card one thing, which the card does or refuses to do.
LEMMA PlainCallKeepsIInv ==
  ASSUME IInv, call.op \in {"create_ssd", "install_applet", "load_package", "delete_sd_keyset"},
         NEW e, Claims(call, Report) \subseteq {e}, e.did # "moved",
         call.op # "delete_sd_keyset" => Claims(call, Report) = {e},
         call.op = "delete_sd_keyset" =>
           \E x \in Domains : e = [did |-> "dropped", what |-> x, kvn |-> call.kvn],
         NEW report, Claims(call, report) = Claims(call, Report),
         NEW r, Plainly(card, r, {e}), Answered(r), Return(call, MeaningOf(call, r.sw), report),
         UNCHANGED <<chan, known>>
  PROVE  IInv'
<1>1. call # NoCall /\ did = {} /\ Before(call) = {} /\ (chan' = NoChan \/ InDomain')
  BY Quiet DEF IInv, SoFar, Before, Session, InDomain
<1>2. CASE r.sw = "9000"
  <2>1. did' = {e} /\ MeaningOf(call, r.sw) = "none"
    BY <1>1, <1>2, MeaningsTold DEF Answered, Plainly
  <2>2. Honours(call, report, {e})
    BY DEF Honours
  <2> QED BY <1>1, <2>1, <2>2, AnsweredKeepsIInv DEF Leaves
<1>3. CASE r.sw # "9000"
  <2>1. did' = {} /\ MeaningOf(call, r.sw) \notin {"none", "KeyCheckValueMismatch"}
    BY <1>1, <1>3, MeaningsTold DEF Answered, Plainly
  <2> QED BY <1>1, <2>1, AnsweredKeepsIInv DEF Leaves
<1> QED BY <1>2, <1>3

\* create_ssd, install_applet and load_package report what the card made.
LEMMA InstallsKeepIInv ==
  ASSUME IInv, CreateSsd \/ InstallApplet \/ LoadPackage
  PROVE  IInv'
<1> DEFINE e(x) == [did |-> "made", what |-> x]
<1>1. CASE CreateSsd \/ InstallApplet
  <2>1. PICK r \in Replies(Installs(card, call.x)) :
          Answered(r) /\ Return(call, MeaningOf(call, r.sw), Report)
    BY <1>1 DEF CreateSsd, InstallApplet
  <2>2. Plainly(card, r, {e(call.x)})
    BY <2>1, InstallsKeep, RepliesKeep DEF IInv
  <2>3. call.op \in {"create_ssd", "install_applet"} /\ UNCHANGED <<chan, known>>
    BY <1>1 DEF CreateSsd, InstallApplet
  <2>4. Claims(call, Report) = {e(call.x)} /\ e(call.x).did # "moved"
    BY <2>3 DEF Claims
  <2> QED BY <2>1, <2>2, <2>3, <2>4, PlainCallKeepsIInv
<1>2. CASE LoadPackage
  <2>1. PICK r \in Replies(Loads(card, call.x)) :
          Answered(r) /\ Return(call, MeaningOf(call, r.sw), Report)
    BY <1>2 DEF LoadPackage
  <2>2. Plainly(card, r, {e(Package)})
    BY <2>1, LoadsKeep, RepliesKeep DEF IInv
  <2>3. call.op = "load_package" /\ UNCHANGED <<chan, known>>
    BY <1>2 DEF LoadPackage
  <2>4. Claims(call, Report) = {e(Package)} /\ e(Package).did # "moved"
    BY <2>3 DEF Claims
  <2> QED BY <2>1, <2>2, <2>3, <2>4, PlainCallKeepsIInv
<1> QED BY <1>1, <1>2

\* delete_sd_keyset drops the version it names from the session's domain.
LEMMA DeleteSdKeysetKeepsIInv ==
  ASSUME IInv, DeleteSdKeyset
  PROVE  IInv'
<1> DEFINE e == [did |-> "dropped", what |-> chan.sd, kvn |-> call.kvn]
           report == [Report EXCEPT !.kvn = call.kvn]
<1>1. PICK r \in Replies(DeletesKey(card, chan.sd, call.kvn)) :
        Answered(r) /\ Return(call, MeaningOf(call, r.sw), report)
  BY DEF DeleteSdKeyset
<1>2. Plainly(card, r, {e})
  BY <1>1, DeletesKeyKeeps, RepliesKeep DEF IInv
<1>3. call.op = "delete_sd_keyset" /\ UNCHANGED <<chan, known>> /\ chan.sd \in Domains
  BY DEF DeleteSdKeyset, IInv, Session, InDomain
<1>4. Claims(call, Report) = {} /\ Claims(call, report) = {} /\ e.did # "moved"
  BY <1>3 DEF Claims
<1>5. \E x \in Domains : e = [did |-> "dropped", what |-> x, kvn |-> call.kvn]
  BY <1>3
<1> HIDE DEF e, report
<1> QED BY <1>1, <1>2, <1>3, <1>4, <1>5, PlainCallKeepsIInv

\* delete_ssd takes the domain, and what it owns only with the cascade flag.
LEMMA DeleteSsdKeepsIInv ==
  ASSUME IInv, DeleteSsd
  PROVE  IInv'
<1> DEFINE cascade == CascadeFlag(call.cascade)
           report == [Report EXCEPT !.cascaded = cascade]
<1>1. PICK r \in Replies(Deletes(card, call.x, cascade)) :
        /\ Answered(r)
        /\ Return(call, IF r.sw = "6985" /\ ~ cascade THEN "SsdHasApplets"
                        ELSE MeaningOf(call, r.sw), report)
  BY DEF DeleteSsd
<1>2. /\ call.op = "delete_ssd" /\ UNCHANGED <<chan, known>> /\ cascade \in BOOLEAN
      /\ call # NoCall /\ did = {} /\ Before(call) = {} /\ (chan' = NoChan \/ InDomain')
      /\ Sound(card)
  BY Quiet DEF DeleteSsd, CascadeFlag, IInv, SoFar, Before, Session, InDomain
<1>3. PICK more : Plainly(card, r, {Deleted(o) : o \in {call.x} \cup more})
  <2>1. CASE r \in Deletes(card, call.x, cascade)
    BY <1>2, <2>1, DeletesKeep
  <2>2. CASE \A effects : Plainly(card, r, effects)
    BY <2>2
  <2> QED BY <1>1, <1>2, <2>1, <2>2, RepliesKeep
<1> DEFINE effects == {Deleted(o) : o \in {call.x} \cup more}
<1>4. \A e \in effects : e.did # "moved"
  BY DEF Deleted
<1>5. Claims(call, report) \subseteq effects
  BY <1>2 DEF Claims, Deleted
<1> HIDE DEF cascade, report, effects
<1>6. CASE r.sw = "9000"
  <2>1. did' = effects /\ Return(call, "none", report)
    BY <1>1, <1>2, <1>3, <1>6, MeaningsTold DEF Answered, Plainly, effects
  <2>2. Honours(call, report, effects)
    BY <1>2, <1>5 DEF Honours
  <2> QED BY <1>1, <1>2, <1>3, <1>4, <2>1, <2>2, AnsweredKeepsIInv DEF Leaves, effects
<1>7. CASE r.sw # "9000"
  <2>1. PICK err : Return(call, err, report) /\ err \notin {"none", "KeyCheckValueMismatch"}
    BY <1>1, <1>7, MeaningsTold
  <2>2. did' = {}
    BY <1>1, <1>2, <1>3, <1>7 DEF Answered, Plainly
  <2> QED BY <1>1, <1>2, <1>3, <1>4, <2>1, <2>2, AnsweredKeepsIInv DEF Leaves, effects
<1> QED BY <1>6, <1>7
\* A DELETE without the cascade flag takes its object alone.
LEMMA DeletesAlone ==
  ASSUME Sound(card), NEW x, NEW r \in Replies(Deletes(card, x, FALSE))
  PROVE  Plainly(card, r, {Deleted(x)})
<1>1. CASE r \in Deletes(card, x, FALSE)
  <2>1. PICK more : /\ Plainly(card, r, {Deleted(o) : o \in {x} \cup more})
                    /\ ~ FALSE => more = {}
    BY <1>1, DeletesKeep
  <2>2. {Deleted(o) : o \in {x} \cup more} = {Deleted(x)}
    BY <2>1
  <2> QED BY <2>1, <2>2
<1> QED BY <1>1, RepliesKeep

\* The first DELETE of delete_applet: an error has done nothing, a success
\* waits for the second or is all there was to do.
LEMMA DeleteInstanceKeepsIInv ==
  ASSUME IInv, DeleteInstance
  PROVE  IInv'
<1>1. PICK r \in Replies(Deletes(card, call.x, FALSE)) :
        /\ Answered(r)
        /\ IF r.sw = "9000" /\ WantsElf(call)
           THEN call' = [call EXCEPT !.at = "second"] /\ UNCHANGED result
           ELSE Return(call, MeaningOf(call, r.sw), Report)
  BY DEF DeleteInstance
<1>2. /\ call.op = "delete_applet" /\ call.at = "first" /\ UNCHANGED <<chan, known>>
      /\ call # NoCall /\ did = {} /\ Before(call) = {} /\ result = NoResult
      /\ call \in CallType /\ InDomain'
  BY Quiet DEF DeleteInstance, IInv, SoFar, Before, Session, InDomain
<1>3. Plainly(card, r, {Deleted(call.x)})
  BY <1>1, DeletesAlone DEF IInv
<1>4. CASE r.sw = "9000" /\ WantsElf(call)
  <2>1. /\ call' \in CallType /\ call'.op = "delete_applet" /\ call'.at = "second"
        /\ call'.x = call.x /\ result' = NoResult
    BY <1>1, <1>2, <1>4 DEF CallType, Steps
  <2>2. did' = Before(call')
    BY <1>1, <1>2, <1>3, <1>4, <2>1 DEF Before, Answered, Plainly
  <2>3. Told'
    BY <2>1, <2>2, Quiet, WaitingTold
  <2>4. Sound(card') /\ Fits(known)'
    BY <1>1, <1>2, <1>3 DEF Answered, Plainly, IInv, Fits
  <2> QED BY <1>2, <2>1, <2>2, <2>3, <2>4 DEF IInv, Session, Allowed, SoFar
<1>5. CASE ~ (r.sw = "9000" /\ WantsElf(call)) /\ r.sw = "9000"
  <2>1. did' = {Deleted(call.x)} /\ Return(call, "none", Report)
    BY <1>1, <1>2, <1>3, <1>5, MeaningsTold DEF Answered, Plainly
  <2>2. Claims(call, Report) = {Deleted(call.x)}
    BY <1>2 DEF Claims, Report, Deleted
  <2>3. Honours(call, Report, {Deleted(call.x)}) /\ Deleted(call.x).did # "moved"
    BY <1>2, <2>2 DEF Honours, Deleted
  <2> QED BY <1>1, <1>2, <1>3, <2>1, <2>3, AnsweredKeepsIInv DEF Leaves
<1>6. CASE r.sw # "9000"
  <2>1. PICK err : Return(call, err, Report) /\ err \notin {"none", "KeyCheckValueMismatch"}
    BY <1>1, <1>6, MeaningsTold
  <2>2. did' = {} /\ Deleted(call.x).did # "moved"
    BY <1>1, <1>2, <1>3, <1>6 DEF Answered, Plainly, Deleted
  <2> QED BY <1>1, <1>2, <1>3, <2>1, <2>2, AnsweredKeepsIInv DEF Leaves
<1> QED BY <1>4, <1>5, <1>6

\* The second DELETE of delete_applet: whatever comes of it, the instance is gone.
LEMMA DeleteElfKeepsIInv ==
  ASSUME IInv, DeleteElf
  PROVE  IInv'
<1>1. PICK r \in Replies(Deletes(card, Package, FALSE)) :
        /\ Answered(r)
        /\ Return(call, IF r.sw = "6985" THEN "ElfHasOtherInstances" ELSE MeaningOf(call, r.sw),
                  [Report EXCEPT !.cascaded = r.sw = "9000"])
  BY DEF DeleteElf
<1> DEFINE report == [Report EXCEPT !.cascaded = r.sw = "9000"]
<1>2. /\ call.op = "delete_applet" /\ call.at = "second" /\ UNCHANGED <<chan, known>>
      /\ call # NoCall /\ did = {Deleted(call.x)} /\ Before(call) = {Deleted(call.x)}
      /\ (chan' = NoChan \/ InDomain')
  BY Quiet DEF DeleteElf, IInv, SoFar, Before, Session, InDomain
<1>3. Plainly(card, r, {Deleted(Package)}) /\ Deleted(Package).did # "moved"
  BY <1>1, DeletesAlone DEF IInv, Deleted
<1>4. CASE r.sw = "9000"
  <2>1. did' = {Deleted(call.x), Deleted(Package)} /\ Return(call, "none", report)
    BY <1>1, <1>2, <1>3, <1>4, MeaningsTold DEF Answered, Plainly
  <2>2. report.cascaded = TRUE
    BY <1>4 DEF Report
  <2>3. Claims(call, report) = {Deleted(call.x), Deleted(Package)}
    BY <1>2, <2>2 DEF Claims, Deleted
  <2>4. Honours(call, report, {Deleted(call.x), Deleted(Package)})
    BY <1>2, <2>3 DEF Honours
  <2> HIDE DEF report
  <2> QED BY <1>1, <1>2, <1>3, <2>1, <2>4, AnsweredKeepsIInv DEF Leaves
<1>5. CASE r.sw # "9000"
  <2>1. PICK err : Return(call, err, report) /\ err \notin {"none", "KeyCheckValueMismatch"}
    BY <1>1, <1>5, MeaningsTold
  <2>2. did' = Before(call)
    BY <1>1, <1>2, <1>3, <1>5 DEF Answered, Plainly
  <2> HIDE DEF report
  <2> QED BY <1>1, <1>2, <1>3, <2>1, <2>2, AnsweredKeepsIInv DEF Leaves
<1> QED BY <1>4, <1>5

\* put_sd_keys: a full echo that matches is the caller's keyset, one that does
\* not is another keyset, at the version the caller named.
LEMMA PutSdKeysKeepsIInv ==
  ASSUME IInv, PutSdKeys
  PROVE  IInv'
<1> DEFINE e == [did |-> "stored", what |-> chan.sd, kvn |-> call.kvn, value |-> Received(call)]
           mismatch(r, full) == r.sw = "9000" /\ KcvEchoMismatch(call, full)
           report(full) == [Report EXCEPT !.checked = full, !.kvn = call.kvn]
<1>1. PICK r \in Replies(PutsKey(card, chan.sd, call.kvn, Received(call))), full \in BOOLEAN :
        /\ Answered(r)
        /\ Return(call, IF mismatch(r, full) THEN "KeyCheckValueMismatch" ELSE MeaningOf(call, r.sw),
                  report(full))
  BY DEF PutSdKeys
<1>2. /\ call.op = "put_sd_keys" /\ UNCHANGED <<chan, known>>
      /\ call # NoCall /\ did = {} /\ Before(call) = {} /\ chan.sd \in Domains
      /\ (chan' = NoChan \/ InDomain')
  BY Quiet DEF PutSdKeys, IInv, SoFar, Before, Session, InDomain
<1>3. Plainly(card, r, {e}) /\ e.did # "moved"
  BY <1>1, PutsKeyKeeps, RepliesKeep DEF IInv
<1>4. CASE mismatch(r, full)
  <2>1. did' = {e} /\ Return(call, "KeyCheckValueMismatch", report(full))
    BY <1>1, <1>2, <1>3, <1>4 DEF Answered, Plainly
  <2>2. e.value # call.value /\ e.did = "stored" /\ e.kvn = call.kvn
    BY <1>4 DEF KcvEchoMismatch
  <2>3. Leaves(call, "KeyCheckValueMismatch", {e})
    BY <2>2 DEF Leaves
  <2> HIDE DEF e, report
  <2> QED BY <1>1, <1>2, <1>3, <2>1, <2>3, AnsweredKeepsIInv
<1>5. CASE ~ mismatch(r, full) /\ r.sw = "9000"
  <2>1. did' = {e} /\ Return(call, "none", report(full))
    BY <1>1, <1>2, <1>3, <1>5, MeaningsTold DEF Answered, Plainly
  <2>2. full => e = [did |-> "stored", what |-> chan.sd, kvn |-> call.kvn, value |-> call.value]
    BY <1>5 DEF KcvEchoMismatch
  <2>3. report(full).checked = full /\ Claims(call, report(full)) = {}
    BY <1>2 DEF Report, Claims
  <2>4. Honours(call, report(full), {e})
    BY <1>2, <2>2, <2>3 DEF Honours
  <2> HIDE DEF e, report
  <2> QED BY <1>1, <1>2, <1>3, <2>1, <2>4, AnsweredKeepsIInv DEF Leaves
<1>6. CASE r.sw # "9000"
  <2>1. PICK err : Return(call, err, report(full)) /\ err \notin {"none", "KeyCheckValueMismatch"}
    BY <1>1, <1>6, MeaningsTold
  <2>2. did' = {}
    BY <1>1, <1>2, <1>3, <1>6 DEF Answered, Plainly
  <2> HIDE DEF e, report
  <2> QED BY <1>1, <1>2, <1>3, <2>1, <2>2, AnsweredKeepsIInv DEF Leaves
<1> QED BY <1>4, <1>5, <1>6
\* transmit passes an APDU: what it does is the application's affair.
LEMMA TransmitKeepsIInv ==
  ASSUME IInv, Transmit
  PROVE  IInv'
<1>1. /\ call \in CallType /\ call.op = "transmit" /\ Return(call, "none", Report) /\ did' = {}
      /\ Sound(card') /\ Fits(known)' /\ (chan' = NoChan \/ InDomain')
  BY Quiet DEF Transmit, IInv, SoFar, Before, Session, InDomain, Fits
<1>2. Honours(call, Report, {}) /\ Leaves(call, "none", {}) /\ SkipsNothing(call, {})
  BY <1>1 DEF Honours, Claims, Leaves, SkipsNothing
<1>3. Told'
  BY <1>1, <1>2, ReturnsTold
<1> QED BY <1>1, <1>3, ReturnKeepsIInv

\* get_card_status, and the read of set_card_status: a state the card was in.
LEMMA GetCardStatusKeepsIInv ==
  ASSUME IInv, GetCardStatus
  PROVE  IInv'
<1>1. /\ call \in CallType /\ call # NoCall /\ did' = {} /\ UNCHANGED <<card, chan>>
      /\ call.op \in {"get_card_status", "set_card_status"} /\ call.at = "first"
      /\ Sound(card) /\ InDomain /\ InDomain' /\ Sound(card') /\ Fits(known)
  BY Quiet DEF GetCardStatus, IInv, SoFar, Before, Session, InDomain
<1>2. ASSUME NEW err, err \in {"InvalidAid"} \cup {General(sw) : sw \in StatusWords \ {"9000"}},
             Return(call, err, Report), UNCHANGED known
      PROVE  IInv'
  <2>1. err \notin {"none", "KeyCheckValueMismatch"}
    BY <1>2 DEF General
  <2>2. Leaves(call, err, {}) /\ SkipsNothing(call, {})
    BY <1>1, <2>1 DEF Leaves, SkipsNothing, Before
  <2>3. Told'
    BY <1>1, <1>2, <2>1, <2>2, ReturnsTold
  <2>4. Fits(known)'
    BY <1>1, <1>2 DEF Fits
  <2> QED BY <1>1, <1>2, <2>3, <2>4, ReturnKeepsIInv
<1>3. ASSUME NEW state \in {"Unknown", card.life}, StatusRead(call, state)
      PROVE  IInv'
  <2>1. state \in LifeCycles /\ Fits(state)
    BY <1>1 DEF LifeCycles, Sound, Fits
  <2>2. CASE call.op = "get_card_status"
    <3> DEFINE report == [Report EXCEPT !.state = state]
    <3>1. Return(call, "none", report) /\ known' = state
      BY <1>3, <2>2 DEF StatusRead
    <3>2. Honours(call, report, {}) /\ Leaves(call, "none", {}) /\ SkipsNothing(call, {})
      BY <2>2 DEF Honours, Claims, Leaves, SkipsNothing
    <3> HIDE DEF report
    <3>3. Told'
      BY <1>1, <3>1, <3>2, ReturnsTold
    <3>4. Fits(known)'
      BY <1>1, <2>1, <3>1 DEF Fits
    <3> QED BY <1>1, <3>1, <3>3, <3>4, ReturnKeepsIInv
  <2>3. CASE call.op = "set_card_status"
    <3>1. UNCHANGED known /\ (Decide(call, state) \/ Return(call, "InvalidAid", Report))
      BY <1>3, <2>3 DEF StatusRead
    <3> QED BY <1>1, <1>2, <2>1, <2>3, <3>1, DecideKeepsIInv
  <2> QED BY <1>1, <2>2, <2>3
<1>4. PICK r \in Replies({Says(card, "9000")} \cup Refused(card)) :
        IF r.sw \in {"9000", "6A88"}
        THEN \E state \in ParsedStates(r.sw) : StatusRead(call, state)
        ELSE Return(call, General(r.sw), Report) /\ UNCHANGED known
  BY DEF GetCardStatus
<1>5. r.sw \in StatusWords
  BY <1>4, RefusalsAssumption DEF Replies, Refused, Says, StatusWords
<1>6. ParsedStates(r.sw) \subseteq {"Unknown", card.life}
  BY DEF ParsedStates
<1> QED BY <1>2, <1>3, <1>4, <1>5, <1>6

\* What SET STATUS did, for a step check_transition allowed from a state that
\* was read earlier: the card left OP_READY, if it did, as it was told to.
LEMMA LifeMoved ==
  ASSUME IInv, call.op = "set_card_status", call.at = "second", NEW r, LifeReply(r), Answered(r)
  PROVE  /\ Sound(card') /\ SkipsNothing(call, did') /\ did = {}
         /\ Fits(known) => (known' = known => Fits(known)')
         /\ r.sw = "9000" =>
              /\ call.target # "OP_READY" /\ call.target # "TERMINATED"
              /\ card'.life = call.target
              /\ did' = {[did |-> "moved", from |-> card.life, to |-> call.target]}
              /\ call.target \in {"INITIALIZED", "SECURED"} /\ card.life # "CARD_LOCKED"
                   => call.current # "CARD_LOCKED"
<1>1. /\ call # NoCall /\ did = {} /\ call \in CallType
      /\ <<call.current, call.target>> \in Legal(call.force) /\ Fits(call.current) /\ Sound(card)
  BY Quiet DEF IInv, SoFar, Before, Allowed
<1>2. /\ card' = r.card /\ did' = r.did /\ Sound(card')
  BY <1>1 DEF Answered, LifeReply
<1>3. \/ call.force /\ call.current = "OP_READY" /\ call.target = "SECURED"
      \/ call.current = "OP_READY" /\ call.target = "INITIALIZED"
      \/ call.current \in {"INITIALIZED", "CARD_LOCKED"} /\ call.target = "SECURED"
      \/ call.current = "SECURED" /\ call.target = "CARD_LOCKED"
  <2>1. CASE call.force = TRUE
    BY <1>1, <2>1 DEF Legal
  <2>2. CASE call.force = FALSE
    BY <1>1, <2>2 DEF Legal
  <2> QED BY <1>1, <2>1, <2>2 DEF CallType
<1>4. CASE r.sw # "9000" /\ card'.life = card.life /\ did' = {}
  <2>1. Fits(known) => (known' = known => Fits(known)')
    BY <1>4 DEF Fits
  <2> QED BY <1>1, <1>2, <1>4, <2>1 DEF SkipsNothing
<1>5. CASE /\ r.sw = "9000" /\ card'.life = call.target /\ <<card.life, call.target>> \in Arrows
           /\ did' = {[did |-> "moved", from |-> card.life, to |-> call.target]}
  <2>1. call.target # "TERMINATED" /\ call.target # "OP_READY"
    BY <1>3
  <2>2. card.life = "OP_READY" /\ call.target = "SECURED" => call.force
    BY <1>1, <1>3 DEF Fits
  <2>3. \/ card.life = "OP_READY" /\ call.target = "INITIALIZED"
        \/ card.life \in {"OP_READY", "INITIALIZED", "CARD_LOCKED"} /\ call.target = "SECURED"
        \/ card.life = "SECURED" /\ call.target = "CARD_LOCKED"
    BY <1>5, <2>1, <1>3 DEF Arrows
  <2>4. /\ call.target \in {"INITIALIZED", "SECURED"} /\ card.life # "CARD_LOCKED"
             => call.current # "CARD_LOCKED"
    BY <1>1, <1>3, <2>3 DEF Fits
  <2>5. Fits(known) => (known' = known => Fits(known)')
    BY <1>5, <2>1, <2>3 DEF Fits
  <2> QED BY <1>1, <1>2, <1>5, <2>1, <2>2, <2>4, <2>5 DEF SkipsNothing
<1> QED BY <1>2, <1>4, <1>5 DEF LifeReply

\* set_card_status returns what the card did of the step it asked for.
LEMMA SetCardStatusKeepsIInv ==
  ASSUME IInv, SetCardStatus
  PROVE  IInv'
<1> DEFINE report == [Report EXCEPT !.state = call.current,
                        !.irreversible = Irreversible(call.current, call.target)]
<1>1. /\ call \in CallType /\ call # NoCall /\ call.op = "set_card_status" /\ call.at = "second"
      /\ Sound(card) /\ InDomain' /\ Before(call) = {} /\ Fits(known)
  BY Quiet DEF SetCardStatus, IInv, Before, Session, InDomain
<1>2. PICK r \in Replies(SetsLife(card, call.target)) :
        /\ Answered(r)
        /\ Return(call, MeaningOf(call, r.sw), report)
        /\ known' = IF r.sw = "9000" THEN call.target ELSE known
  BY DEF SetCardStatus
<1>3. LifeReply(r)
  BY <1>1, <1>2, LifeReplies
<1>4. report.noop = FALSE /\ report.irreversible = Irreversible(call.current, call.target)
  BY DEF Report
<1>5. Claims(call, report) = {}
  BY <1>1 DEF Claims
<1> HIDE DEF report
<1>6. CASE r.sw = "9000"
  <2> DEFINE e == [did |-> "moved", from |-> card.life, to |-> call.target]
  <2>1. /\ Sound(card') /\ SkipsNothing(call, did') /\ did' = {e} /\ known' = call.target
        /\ call.target # "OP_READY" /\ card'.life = call.target
        /\ (e.to \in {"INITIALIZED", "SECURED"} /\ e.from # "CARD_LOCKED"
              => report.irreversible)
    BY <1>1, <1>2, <1>3, <1>4, <1>6, LifeMoved DEF Irreversible
  <2>2. \E l \in Lives : {e} = {[did |-> "moved", from |-> l, to |-> call.target]}
    BY <1>1 DEF Sound
  <2>3. Fits(known)'
    BY <2>1 DEF Fits
  <2> HIDE DEF e
  <2>4. Honours(call, report, {e})
    <3>1. ~ report.noop
      BY <1>4
    <3>2. \A x \in {e} : x.did = "moved" /\ x.to \in {"INITIALIZED", "SECURED"}
                          /\ x.from # "CARD_LOCKED" => report.irreversible
      BY <2>1
    <3> QED BY <1>1, <1>5, <2>2, <3>1, <3>2, Zenon DEF Honours
  <2>5. Return(call, "none", report)
    BY <1>2, <1>6, MeaningsTold
  <2>6. Told'
    BY <1>1, <2>1, <2>4, <2>5, ReturnsTold DEF Leaves
  <2> QED BY <1>1, <2>1, <2>3, <2>5, <2>6, ReturnKeepsIInv
<1>7. CASE r.sw # "9000"
  <2>1. PICK err : Return(call, err, report) /\ err \notin {"none", "KeyCheckValueMismatch"}
    BY <1>2, <1>7, MeaningsTold
  <2>2. did' = {} /\ known' = known /\ Sound(card') /\ SkipsNothing(call, did') /\ Fits(known)'
    BY <1>1, <1>2, <1>3, <1>7, LifeMoved DEF LifeReply, Answered
  <2>3. Leaves(call, err, did')
    BY <1>1, <2>1, <2>2 DEF Leaves
  <2>4. Told'
    BY <1>1, <2>1, <2>2, <2>3, ReturnsTold
  <2> QED BY <1>1, <2>1, <2>2, <2>4, ReturnKeepsIInv
<1> QED BY <1>6, <1>7
\* What the card may have done of a call whose answer is lost.
LEMMA PendingKept ==
  ASSUME IInv, call # NoCall, NEW r \in Replies(Pending)
  PROVE  \/ Sound(r.card) /\ r.card.life = card.life /\ \A e \in r.did : e.did # "moved"
         \/ call.op = "set_card_status" /\ call.at = "second" /\ LifeReply(r)
<1>1. Sound(card) /\ call \in CallType
  BY DEF IInv
<1>2. ASSUME NEW effects, Plainly(card, r, effects), \A e \in effects : e.did # "moved"
      PROVE  Sound(r.card) /\ r.card.life = card.life /\ \A e \in r.did : e.did # "moved"
  BY <1>2 DEF Plainly
<1>3. CASE r \in Pending
  <2>1. CASE call.op \in {"create_ssd", "install_applet"}
    <3>1. r \in Installs(card, call.x)
      BY <1>3, <2>1 DEF Pending
    <3>2. Plainly(card, r, {[did |-> "made", what |-> call.x]})
      BY <1>1, <3>1, InstallsKeep
    <3> QED BY <1>2, <3>2
  <2>2. CASE call.op = "load_package"
    <3>1. r \in Loads(card, call.x)
      BY <1>3, <2>2 DEF Pending
    <3>2. Plainly(card, r, {[did |-> "made", what |-> Package]})
      BY <1>1, <3>1, LoadsKeep
    <3> QED BY <1>2, <3>2
  <2>3. CASE call.op \in {"delete_ssd", "delete_applet"}
    <3>1. \E x : \E cascade \in BOOLEAN : r \in Deletes(card, x, cascade)
      <4>1. CASE call.op = "delete_ssd"
        <5>1. r \in Deletes(card, call.x, CascadeFlag(call.cascade))
          BY <1>3, <4>1 DEF Pending
        <5>2. CascadeFlag(call.cascade) \in BOOLEAN
          BY DEF CascadeFlag
        <5> QED BY <5>1, <5>2
      <4>2. CASE call.op = "delete_applet" /\ call.at = "first"
        <5>1. r \in Deletes(card, call.x, FALSE)
          BY <1>3, <4>2 DEF Pending
        <5> QED BY <5>1
      <4>3. CASE call.op = "delete_applet" /\ call.at = "second"
        <5>1. r \in Deletes(card, Package, FALSE)
          BY <1>3, <4>3 DEF Pending
        <5> QED BY <5>1
      <4> QED BY <1>1, <2>3, <4>1, <4>2, <4>3 DEF CallType, Steps
    <3>11. PICK x, cascade : cascade \in BOOLEAN /\ r \in Deletes(card, x, cascade)
      BY <3>1
    <3>2. PICK more : Plainly(card, r, {Deleted(o) : o \in {x} \cup more})
      BY <1>1, <3>11, DeletesKeep
    <3> QED BY <1>2, <3>2 DEF Deleted
  <2>4. CASE call.op = "put_sd_keys"
    <3>1. r \in PutsKey(card, chan.sd, call.kvn, Received(call))
      BY <1>3, <2>4 DEF Pending
    <3>2. Plainly(card, r, {[did |-> "stored", what |-> chan.sd, kvn |-> call.kvn, value |-> Received(call)]})
      BY <1>1, <3>1, PutsKeyKeeps
    <3> QED BY <1>2, <3>2
  <2>5. CASE call.op = "delete_sd_keyset"
    <3>1. r \in DeletesKey(card, chan.sd, call.kvn)
      BY <1>3, <2>5 DEF Pending
    <3>2. Plainly(card, r, {[did |-> "dropped", what |-> chan.sd, kvn |-> call.kvn]})
      BY <1>1, <3>1, DeletesKeyKeeps
    <3> QED BY <1>2, <3>2
  <2>6. CASE call.op = "set_card_status" /\ call.at = "second"
    <3>1. r \in SetsLife(card, call.target)
      BY <1>3, <2>6 DEF Pending
    <3>2. LifeReply(r)
      BY <1>1, <3>1, SetsLifeKeeps DEF LifeReply
    <3> QED BY <2>6, <3>2
  <2>7. CASE r = Says(card, "9000")
    BY <1>1, <2>7 DEF Says
  <2> QED BY <1>1, <1>3, <2>1, <2>2, <2>3, <2>4, <2>5, <2>6, <2>7 DEF Pending
<1>4. CASE Plainly(card, r, {})
  BY <1>2, <1>4
<1> QED BY <1>1, <1>3, <1>4, RepliesKeep

\* A lost exchange is told as an error; the card may have done all of it.
LEMMA ExchangeLostKeepsIInv ==
  ASSUME IInv, ExchangeLost
  PROVE  IInv'
<1>1. /\ call \in CallType /\ call # NoCall /\ did = Before(call) /\ Fits(known)
      /\ Return(call, "Transport", Report) /\ known' = known /\ Sound(card)
      /\ (chan = NoChan \/ InDomain)
  BY DEF ExchangeLost, IInv, SoFar, Session
<1>2. \A e \in Before(call) : e.did # "moved"
  BY DEF Before, Deleted
<1>3. chan' = NoChan \/ InDomain'
  <2>1. PICK s : chan' = [chan EXCEPT !.sync = s] /\ (chan = NoChan => s = FALSE)
    <3>1. CASE chan' = [chan EXCEPT !.sync = FALSE]
      BY <3>1
    <3>2. ASSUME NEW s \in BOOLEAN, chan' = [chan EXCEPT !.sync = @ /\ s]
          PROVE  \E t : chan' = [chan EXCEPT !.sync = t] /\ (chan = NoChan => t = FALSE)
      <4>1. chan = NoChan => (chan.sync /\ s) = FALSE
        BY DEF NoChan
      <4> QED BY <3>2, <4>1
    <3> QED BY <3>1, <3>2 DEF ExchangeLost
  <2>2. CASE chan = NoChan
    BY <2>1, <2>2 DEF NoChan
  <2>3. CASE InDomain
    BY <2>1, <2>3 DEF InDomain
  <2> QED BY <1>1, <2>2, <2>3
<1>4. Sound(card') /\ SkipsNothing(call, did') /\ Fits(known)'
  <2>1. CASE UNCHANGED <<card, did>>
    BY <1>1, <1>2, <2>1 DEF SkipsNothing, Fits
  <2>2. ASSUME NEW r \in Replies(Pending), Answered(r)
        PROVE  Sound(card') /\ SkipsNothing(call, did') /\ Fits(known)'
    <3>1. CASE Sound(r.card) /\ r.card.life = card.life /\ \A e \in r.did : e.did # "moved"
      BY <1>1, <1>2, <2>2, <3>1 DEF Answered, SkipsNothing, Fits
    <3>2. CASE call.op = "set_card_status" /\ call.at = "second" /\ LifeReply(r)
      BY <1>1, <2>2, <3>2, LifeMoved
    <3> QED BY <1>1, <3>1, <3>2, PendingKept
  <2> QED BY <2>1, <2>2 DEF ExchangeLost
<1>5. Leaves(call, "Transport", did')
  BY DEF Leaves
<1>6. Told'
  BY <1>1, <1>4, <1>5, ReturnsTold
<1> QED BY <1>1, <1>3, <1>4, <1>6, ReturnKeepsIInv

\* A card that others move fits what was learnt of it before.
LEMMA CardMovesKeepsIInv ==
  ASSUME IInv, CardMoves
  PROVE  IInv'
<1>1. PICK l \in Lives : <<card.life, l>> \in Arrows /\ card' = [card EXCEPT !.life = l]
  BY DEF CardMoves
<1>2. UNCHANGED <<chan, call, result, did, known>>
  BY DEF CardMoves
<1>3. Sound(card') /\ card'.life = l /\ l # "OP_READY"
  BY <1>1 DEF IInv, Sound, Arrows, Lives
<1>4. card.life \in {"CARD_LOCKED", "SECURED", "TERMINATED"} =>
        l \in {"CARD_LOCKED", "SECURED", "TERMINATED"}
  BY <1>1 DEF Arrows
<1>5. Fits(known)'
  BY <1>2, <1>3, <1>4 DEF IInv, Fits
<1>6. Allowed'
  BY <1>2, <1>3, <1>4 DEF IInv, Allowed, Fits
<1>7. (Session /\ SoFar)'
  BY <1>2 DEF IInv, Session, InDomain, SoFar
<1>8. Told'
  BY <1>2 DEF IInv, Told, ReportIsTrue, ErrorsSayWhatTheyLeave, NoStateSkipped, Caller,
     IrreversibleIsTold
<1> QED BY <1>2, <1>3, <1>5, <1>6, <1>7, <1>8 DEF IInv

\* close_channel forgets the channel and does nothing to the card.
LEMMA CloseChannelKeepsIInv ==
  ASSUME IInv, CloseChannel
  PROVE  IInv'
<1>1. call = NoCall /\ chan' = NoChan /\ UNCHANGED <<card, call, result, did, known>>
  BY DEF CloseChannel
<1>2. Told'
  BY <1>1 DEF IInv, Told, ReportIsTrue, ErrorsSayWhatTheyLeave, NoStateSkipped, Caller,
     IrreversibleIsTold
<1> QED BY <1>1, <1>2, Quiet DEF IInv, Session, SoFar, Allowed, Fits

\* Every step of the manager, of a workflow and of the card keeps the invariant.
LEMMA NextKeepsIInv ==
  ASSUME IInv, [Next]_vars
  PROVE  IInv'
<1>1. CASE UNCHANGED vars
  <2>1. UNCHANGED <<card, chan, call, result, did, known>>
    BY <1>1 DEF vars
  <2>2. Told'
    BY <2>1 DEF IInv, Told, ReportIsTrue, ErrorsSayWhatTheyLeave, NoStateSkipped, Caller,
       IrreversibleIsTold
  <2> QED BY <2>1, <2>2 DEF IInv, Session, InDomain, SoFar, Allowed, Fits
<1>2. CASE \E c \in Requests : Honest(c) /\ Begin(c)
  BY <1>2, BeginKeepsIInv, RequestsAssumption
<1>3. CASE OpenScp \/ Transmit \/ GetCardStatus \/ SetCardStatus
  BY <1>3, OpenScpKeepsIInv, TransmitKeepsIInv, GetCardStatusKeepsIInv, SetCardStatusKeepsIInv
<1>4. CASE CreateSsd \/ InstallApplet \/ LoadPackage
  BY <1>4, InstallsKeepIInv
<1>5. CASE DeleteSsd \/ DeleteInstance \/ DeleteElf
  BY <1>5, DeleteSsdKeepsIInv, DeleteInstanceKeepsIInv, DeleteElfKeepsIInv
<1>6. CASE PutSdKeys \/ DeleteSdKeyset
  BY <1>6, PutSdKeysKeepsIInv, DeleteSdKeysetKeepsIInv
<1>7. CASE CloseChannel \/ ExchangeLost \/ CardMoves
  BY <1>7, CloseChannelKeepsIInv, ExchangeLostKeepsIInv, CardMovesKeepsIInv
<1> QED BY <1>1, <1>2, <1>3, <1>4, <1>5, <1>6, <1>7 DEF Next, Workflow

\* Through every sequence of calls, lost exchanges and moves of the card, what a
\* waiting call has done and what a read state is worth stay known.
THEOREM Inductive == Spec => []IInv
<1>1. IInv /\ [Next]_vars => IInv'
  BY NextKeepsIInv
<1> QED BY <1>1, InitIInv, PTL DEF Spec

------------------------------------------------------------------------------
\* A workflow that returns Ok has done to the card what its report says: for
\* every card, every refusal and every order of calls.
THEOREM ReportsAreTrue == Spec => []ReportIsTrue
<1>1. IInv => ReportIsTrue
  BY DEF IInv, Told
<1> QED BY <1>1, Inductive, PTL

\* A workflow that returns an error has left the card as it was, but for the
\* second DELETE of delete_applet, a KCV mismatch, an AID found invalid
\* afterwards and a lost exchange.
THEOREM ErrorsAreTold == Spec => []ErrorsSayWhatTheyLeave
<1>1. IInv => ErrorsSayWhatTheyLeave
  BY DEF IInv, Told
<1> QED BY <1>1, Inductive, PTL

\* set_card_status terminates no card and takes none from OP_READY to SECURED
\* without force, however stale the state it goes by.
THEOREM StatesAreNotSkipped == Spec => []NoStateSkipped
<1>1. IInv => NoStateSkipped
  BY DEF IInv, Told
<1> QED BY <1>1, Inductive, PTL

\* set_card_status reports `irreversible' whenever the step cannot be undone.
THEOREM IrreversibleToldAlways == Spec => []IrreversibleIsTold
<1>1. IInv => IrreversibleIsTold
  BY DEF IInv, Told
<1> QED BY <1>1, Inductive, PTL

------------------------------------------------------------------------------
(***************************************************************************)
(* Types: a card that is of its type answers with one that is.             *)
(***************************************************************************)
TypedReply(r) == r.card \in CardType /\ r.did \subseteq Effects

\* The fields of a card, each with its type.
LEMMA CardFields ==
  ASSUME NEW c \in CardType
  PROVE  /\ c.life \in Lives /\ c.home \in [Objects -> Domains \cup {Absent}]
         /\ c.keys \in [Domains -> KeyTable] /\ c.default \in Kvns
         /\ c.virgin \in BOOLEAN /\ c.quirky \in BOOLEAN
BY DEF CardType

\* An answer that only says something, a refusal among them.
LEMMA SayingTyped ==
  ASSUME NEW c \in CardType, NEW r, (\E sw : r = Says(c, sw)) \/ r \in Refused(c)
  PROVE  TypedReply(r)
<1>1. \E sw : r = Says(c, sw)
  BY DEF Refused
<1> QED BY <1>1 DEF Says, TypedReply

\* INSTALL [for load] puts the package in a domain.
LEMMA LoadsTyped ==
  ASSUME NEW c \in CardType, NEW d, NEW r \in Loads(c, d)
  PROVE  TypedReply(r)
<1> DEFINE after == [c EXCEPT !.home[Package] = d]
           e == {[did |-> "made", what |-> Package]}
<1>1. CASE r \in Refused(c) \/ r = Says(c, "6A80") \/ r = Says(c, "6A88")
  BY <1>1, SayingTyped
<1>2. CASE r = Does(after, e) /\ d \in Domains
  <2>1. [c.home EXCEPT ![Package] = d] \in [Objects -> Domains \cup {Absent}]
    BY <1>2, CardFields
  <2>2. after \in CardType
    BY <2>1 DEF CardType
  <2>3. e \subseteq Effects
    BY DEF Effects, Objects
  <2> HIDE DEF after, e
  <2> QED BY <1>2, <2>2, <2>3 DEF Does, TypedReply
<1> QED BY <1>1, <1>2 DEF Loads

\* INSTALL [for install] puts an SSD or an applet in a domain; the ISD is there.
LEMMA InstallsTyped ==
  ASSUME NEW c \in CardType, NEW x \in Domains \cup Objects, NEW r \in Installs(c, x)
  PROVE  TypedReply(r)
<1> DEFINE d == IF x \in Applets THEN c.home[Package] ELSE Isd
           after == [c EXCEPT !.home[x] = d]
           e == {[did |-> "made", what |-> x]}
<1>1. CASE r \in Refused(c) \/ r = Says(c, "6A80") \/ r = Says(c, "6A88")
  BY <1>1, SayingTyped
<1>2. CASE r = Does(after, e) /\ ~ On(c, x)
  <2>1. x \in Objects
    BY <1>2 DEF On, Domains, Objects
  <2>2. d \in Domains \cup {Absent}
    BY CardFields DEF Objects, Domains
  <2> HIDE DEF d
  <2>3. [c.home EXCEPT ![x] = d] \in [Objects -> Domains \cup {Absent}]
    BY <2>1, <2>2, CardFields
  <2>4. after \in CardType
    BY <2>3 DEF CardType
  <2>5. e \subseteq Effects
    BY <2>1 DEF Effects
  <2> HIDE DEF after, e
  <2> QED BY <1>2, <2>4, <2>5 DEF Does, TypedReply
<1> QED BY <1>1, <1>2 DEF Installs

\* DELETE [object] leaves every object and every keyset in its place or absent.
LEMMA DeletesTyped ==
  ASSUME NEW c \in CardType, NEW x \in Domains \cup Objects, NEW cascade, NEW r \in Deletes(c, x, cascade)
  PROVE  TypedReply(r)
<1> DEFINE gone == {x} \cup Needed(c, x)
           home == [o \in Objects |-> IF o \in gone THEN Absent ELSE c.home[o]]
           keys == [d \in Domains |-> IF d \in gone THEN [k \in Kvns |-> NoKey] ELSE c.keys[d]]
           after == [c EXCEPT !.home = [o \in Objects |-> IF o \in gone THEN Absent ELSE @[o]],
                              !.keys = [d \in Domains |-> IF d \in gone THEN [k \in Kvns |-> NoKey] ELSE @[d]]]
           e == {[did |-> "deleted", what |-> o] : o \in gone}
<1>1. CASE r \in Refused(c) \/ r = Says(c, "6A88") \/ r = Says(c, "6985")
  BY <1>1, SayingTyped
<1>2. CASE r = Does(after, e) /\ x # Isd
  <2>1. gone \subseteq Objects
    BY <1>2 DEF Needed, Owns, Domains, Objects
  <2>2. home \in [Objects -> Domains \cup {Absent}]
    BY CardFields
  <2>3. keys \in [Domains -> KeyTable]
    <3>1. [k \in Kvns |-> NoKey] \in KeyTable
      BY DEF KeyTable
    <3> QED BY <3>1, CardFields
  <2>4. after = [c EXCEPT !.home = home, !.keys = keys]
    OBVIOUS
  <2> HIDE DEF home, keys, after
  <2>5. after \in CardType
    BY <2>2, <2>3, <2>4 DEF CardType
  <2> HIDE DEF gone
  <2>6. e \subseteq Effects
    BY <2>1 DEF Effects
  <2> HIDE DEF e
  <2> QED BY <1>2, <2>5, <2>6 DEF Does, TypedReply
<1> QED BY <1>1, <1>2 DEF Deletes

\* PUT KEY fills one version, of a table that may have been emptied for it.
LEMMA PutsKeyTyped ==
  ASSUME NEW c \in CardType, NEW d \in Domains, NEW kvn, NEW value \in KeyValues \cup {Garbled},
         NEW r \in PutsKey(c, d, kvn, value)
  PROVE  TypedReply(r)
<1> DEFINE first == c.quirky /\ c.virgin /\ d = Isd
           old == IF first THEN [k \in Kvns |-> NoKey] ELSE c.keys[d]
           keys == [c.keys EXCEPT ![d] = [old EXCEPT ![kvn] = value]]
           after == [c EXCEPT !.keys[d] = [old EXCEPT ![kvn] = value],
                              !.default = IF first THEN kvn ELSE @,
                              !.virgin = @ /\ d # Isd]
           e == {[did |-> "stored", what |-> d, kvn |-> kvn, value |-> value]}
<1>1. CASE r \in Refused(c) \/ r = Says(c, "6A80")
  BY <1>1, SayingTyped
<1>2. CASE r = Does(after, e) /\ kvn \in Kvns
  <2>1. old \in KeyTable
    BY CardFields DEF KeyTable
  <2> HIDE DEF old
  <2>2. [old EXCEPT ![kvn] = value] \in KeyTable
    BY <1>2, <2>1 DEF KeyTable
  <2>3. keys \in [Domains -> KeyTable]
    BY <2>2, CardFields
  <2>4. PICK default : default = IF first THEN kvn ELSE c.default
    OBVIOUS
  <2>5. PICK virgin \in BOOLEAN : virgin = (c.virgin /\ d # Isd)
    OBVIOUS
  <2>6. default \in Kvns
    BY <1>2, <2>4, CardFields
  <2>7. after = [c EXCEPT !.keys = keys, !.default = default, !.virgin = virgin]
    BY <2>4, <2>5
  <2> HIDE DEF keys, after
  <2>8. after \in CardType
    BY <2>3, <2>6, <2>7 DEF CardType
  <2>9. e \subseteq Effects
    BY <1>2 DEF Effects
  <2> HIDE DEF e
  <2> QED BY <1>2, <2>8, <2>9 DEF Does, TypedReply
<1> QED BY <1>1, <1>2 DEF PutsKey

\* DELETE [key] empties one version, and the default is some version still.
LEMMA DeletesKeyTyped ==
  ASSUME NEW c \in CardType, NEW d \in Domains, NEW kvn, NEW r \in DeletesKey(c, d, kvn)
  PROVE  TypedReply(r)
<1> DEFINE table == [c.keys[d] EXCEPT ![kvn] = NoKey]
           picks == IF d # Isd \/ c.quirky \/ Versions(table) = {} \/ c.default # kvn
                    THEN {c.default} ELSE Versions(table)
           after(k) == [c EXCEPT !.keys[d] = table, !.default = k]
           e == {[did |-> "dropped", what |-> d, kvn |-> kvn]}
<1>1. CASE r \in Refused(c) \/ r = Says(c, "6A88")
  BY <1>1, SayingTyped
<1>2. ASSUME NEW k \in picks, r = Does(after(k), e), kvn \in Versions(c.keys[d])
      PROVE  TypedReply(r)
  <2>1. k \in Kvns
    BY <1>2, CardFields DEF Versions
  <2>2. kvn \in Kvns /\ c.keys[d] \in KeyTable
    BY <1>2, CardFields DEF Versions
  <2>3. table \in KeyTable
    BY <2>2 DEF KeyTable
  <2> HIDE DEF table
  <2>4. [c.keys EXCEPT ![d] = table] \in [Domains -> KeyTable]
    BY <2>3, CardFields
  <2>5. after(k) \in CardType
    BY <2>1, <2>4 DEF CardType
  <2>6. e \subseteq Effects
    BY <2>2 DEF Effects
  <2> HIDE DEF after, e
  <2> QED BY <1>2, <2>5, <2>6 DEF Does, TypedReply
<1>3. \/ r \in Refused(c) \/ r = Says(c, "6A88")
      \/ kvn \in Versions(c.keys[d]) /\ \E k \in picks : r = Does(after(k), e)
  BY DEF DeletesKey
<1> QED BY <1>1, <1>2, <1>3

\* SET STATUS leads to one of the states.
LEMMA SetsLifeTyped ==
  ASSUME NEW c \in CardType, NEW target, NEW r \in SetsLife(c, target)
  PROVE  TypedReply(r)
<1> DEFINE after == [c EXCEPT !.life = target]
           e == {[did |-> "moved", from |-> c.life, to |-> target]}
<1>1. CASE r \in Refused(c) \/ r = Says(c, "6985")
  BY <1>1, SayingTyped
<1>2. CASE r = Does(after, e) /\ <<c.life, target>> \in Arrows
  <2>1. target \in Lives /\ c.life \in Lives
    BY <1>2, CardFields DEF Arrows, Lives
  <2>2. after \in CardType
    BY <2>1 DEF CardType
  <2>3. e \subseteq Effects
    BY <2>1 DEF Effects
  <2> HIDE DEF after, e
  <2> QED BY <1>2, <2>2, <2>3 DEF Does, TypedReply
<1> QED BY <1>1, <1>2 DEF SetsLife

\* The errors a status word may stand for are among the errors.
LEMMA MeaningTyped ==
  ASSUME NEW c, NEW sw
  PROVE  MeaningOf(c, sw) \in Errors
<1>1. \A m \in Meanings : m[3] \in Errors
  BY DEF Meanings, Errors
<1>2. General(sw) \in Errors
  BY DEF General, Errors
<1>3. CASE \E m \in Meanings : m[1] = c.op /\ m[2] = sw
  <2> DEFINE m == CHOOSE m \in Meanings : m[1] = c.op /\ m[2] = sw
  <2>1. m \in Meanings
    BY <1>3
  <2>2. MeaningOf(c, sw) = m[3]
    BY <1>3 DEF MeaningOf
  <2> HIDE DEF m
  <2> QED BY <1>1, <2>1, <2>2
<1> QED BY <1>2, <1>3 DEF MeaningOf

\* The reports the workflows make.
LEMMA ReportsTyped ==
  /\ Report \in ReportType /\ NoResult \in ResultType
  /\ \A b \in BOOLEAN : [Report EXCEPT !.cascaded = b] \in ReportType
  /\ \A k \in Nat : [Report EXCEPT !.kvn = k] \in ReportType
  /\ \A b \in BOOLEAN, k \in Nat : [Report EXCEPT !.checked = b, !.kvn = k] \in ReportType
  /\ \A s \in LifeCycles, b \in BOOLEAN : [Report EXCEPT !.state = s, !.irreversible = b] \in ReportType
  /\ \A s \in LifeCycles, a, b \in BOOLEAN :
       [Report EXCEPT !.noop = a, !.state = s, !.irreversible = b] \in ReportType
  /\ \A s \in LifeCycles : [Report EXCEPT !.state = s] \in ReportType
<1>1. Report \in ReportType
  BY DEF Report, ReportType, LifeCycles
<1>2. NoResult \in ResultType
  BY <1>1, Quiet DEF NoResult, ResultType, Errors
<1> HIDE DEF Report
<1> QED BY <1>1, <1>2 DEF ReportType

\* What returns is a result, whatever the error became.
LEMMA ReturnTyped ==
  ASSUME NEW c \in CallType, NEW err \in Errors, NEW report \in ReportType, Return(c, err, report)
  PROVE  call' = NoCall /\ call' \in CallType /\ result' \in ResultType
<1>1. PICK e : e = IF err = "none" /\ ~ c.label /\ c.op # "set_card_status" THEN "InvalidAid" ELSE err
  OBVIOUS
<1>2. e \in Errors
  BY <1>1 DEF Errors
<1>3. result' = [call |-> c, report |-> report, err |-> e] /\ call' = NoCall
  BY <1>1 DEF Return
<1> QED BY <1>2, <1>3, Quiet DEF ResultType

\* PUT KEY has a keyset to put.
HasValue == call.op = "put_sd_keys" => call.value \in KeyValues
TypedInv == IInv /\ TypeOK /\ HasValue

\* What the card receives of a keyset is the keyset, or garbled.
LEMMA ReceivedTyped ==
  ASSUME TypedInv, call.op = "put_sd_keys"
  PROVE  Received(call) \in KeyValues \cup {Garbled}
BY DEF TypedInv, HasValue, Received

\* Whatever exchange a call waits for, its answer is of the types.
LEMMA PendingTyped ==
  ASSUME TypedInv, call # NoCall, NEW r \in Replies(Pending)
  PROVE  TypedReply(r)
<1>1. card \in CardType /\ call \in CallType
  BY DEF TypedInv, TypeOK
<1>2. /\ call.op \in Ops /\ call.x \in Domains \cup Objects /\ call.at \in Steps
  BY <1>1 DEF CallType
<1>3. call.op \in {"put_sd_keys", "delete_sd_keyset"} => chan.sd \in Domains
  BY DEF TypedInv, IInv, Session, InDomain
<1>4. CASE r = Says(card, "6982") \/ r = Says(card, "9000")
  BY <1>1, <1>4, SayingTyped
<1>5. CASE r \in Pending
  <2>1. CASE call.op = "create_ssd" \/ call.op = "install_applet"
    BY <1>1, <1>2, <1>5, <2>1, InstallsTyped DEF Pending
  <2>2. CASE call.op = "load_package"
    <3>1. r \in Loads(card, call.x)
      BY <1>5, <2>2 DEF Pending
    <3> QED BY <1>1, <3>1, LoadsTyped
  <2>3. CASE call.op = "delete_ssd"
    <3>1. r \in Deletes(card, call.x, CascadeFlag(call.cascade))
      BY <1>5, <2>3 DEF Pending
    <3> QED BY <1>1, <1>2, <3>1, DeletesTyped
  <2>4. CASE call.op = "delete_applet"
    <3>1. r \in Deletes(card, call.x, FALSE) \/ r \in Deletes(card, Package, FALSE)
      BY <1>2, <1>5, <2>4 DEF Pending, Steps
    <3>2. Package \in Domains \cup Objects
      BY DEF Objects
    <3> QED BY <1>1, <1>2, <3>1, <3>2, DeletesTyped
  <2>5. CASE call.op = "put_sd_keys"
    <3>1. r \in PutsKey(card, chan.sd, call.kvn, Received(call))
      BY <1>5, <2>5 DEF Pending
    <3> QED BY <1>1, <1>3, <2>5, <3>1, PutsKeyTyped, ReceivedTyped
  <2>6. CASE call.op = "delete_sd_keyset"
    <3>1. r \in DeletesKey(card, chan.sd, call.kvn)
      BY <1>5, <2>6 DEF Pending
    <3> QED BY <1>1, <1>3, <2>6, <3>1, DeletesKeyTyped
  <2>7. CASE call.op = "set_card_status" /\ call.at = "second"
    <3>1. r \in SetsLife(card, call.target)
      BY <1>5, <2>7 DEF Pending
    <3> QED BY <1>1, <3>1, SetsLifeTyped
  <2>8. \/ call.op \in {"create_ssd", "install_applet", "load_package", "delete_ssd", "delete_applet",
                        "put_sd_keys", "delete_sd_keyset"}
        \/ call.op = "set_card_status" /\ call.at = "second"
        \/ r = Says(card, "9000")
    BY <1>5 DEF Pending
  <2> QED BY <1>4, <2>1, <2>2, <2>3, <2>4, <2>5, <2>6, <2>7, <2>8
<1> QED BY <1>4, <1>5 DEF Replies

\* What an answer does is typed before and after.
LEMMA AnsweredTyped ==
  ASSUME TypedInv, call # NoCall, NEW r \in Replies(Pending), Answered(r)
  PROVE  card' \in CardType /\ did' \subseteq Effects
BY PendingTyped DEF Answered, TypedReply, TypedInv, TypeOK

\* Losing step with the card changes only that.
LEMMA SyncTyped ==
  ASSUME chan \in ChanType, NEW s \in BOOLEAN, chan' = [chan EXCEPT !.sync = s]
  PROVE  chan' \in ChanType
BY DEF ChanType

\* A workflow's step is the answer to the exchange it waits for, or asks the
\* card nothing that changes it.
LEMMA WorkflowAnswers ==
  ASSUME IInv, Workflow
  PROVE  call # NoCall /\ (UNCHANGED <<card, did>> \/ \E r \in Replies(Pending) : Answered(r))
<1>1. call # NoCall
  BY Quiet DEF Workflow, OpenScp, Transmit, CreateSsd, DeleteSsd, LoadPackage, InstallApplet,
     DeleteInstance, DeleteElf, PutSdKeys, DeleteSdKeyset, GetCardStatus, SetCardStatus
<1>2. CASE OpenScp \/ Transmit \/ GetCardStatus
  <2>1. UNCHANGED card /\ UNCHANGED did
    BY <1>2 DEF OpenScp, Transmit, GetCardStatus
  <2> QED BY <1>1, <2>1
<1>3. CASE CreateSsd \/ InstallApplet
  <2>1. /\ call.op = "create_ssd" \/ call.op = "install_applet"
        /\ \E r \in Replies(Installs(card, call.x)) : Answered(r)
    BY <1>3 DEF CreateSsd, InstallApplet
  <2>2. Pending = Installs(card, call.x)
    BY <2>1 DEF Pending
  <2> QED BY <1>1, <2>1, <2>2
<1>4. CASE LoadPackage
  <2>1. call.op = "load_package" /\ \E r \in Replies(Loads(card, call.x)) : Answered(r)
    BY <1>4 DEF LoadPackage
  <2>2. Pending = Loads(card, call.x)
    BY <2>1 DEF Pending
  <2> QED BY <1>1, <2>1, <2>2
<1>5. CASE DeleteSsd
  <2>1. call.op = "delete_ssd" /\ \E r \in Replies(Deletes(card, call.x, CascadeFlag(call.cascade))) : Answered(r)
    BY <1>5 DEF DeleteSsd
  <2>2. Pending = Deletes(card, call.x, CascadeFlag(call.cascade))
    BY <2>1 DEF Pending
  <2> QED BY <1>1, <2>1, <2>2
<1>6. CASE DeleteInstance
  <2>1. call.op = "delete_applet" /\ call.at = "first" /\ \E r \in Replies(Deletes(card, call.x, FALSE)) : Answered(r)
    BY <1>6 DEF DeleteInstance
  <2>2. Pending = Deletes(card, call.x, FALSE)
    BY <2>1 DEF Pending
  <2> QED BY <1>1, <2>1, <2>2
<1>7. CASE DeleteElf
  <2>1. call.op = "delete_applet" /\ call.at = "second" /\ \E r \in Replies(Deletes(card, Package, FALSE)) : Answered(r)
    BY <1>7 DEF DeleteElf
  <2>2. Pending = Deletes(card, Package, FALSE)
    BY <2>1 DEF Pending
  <2> QED BY <1>1, <2>1, <2>2
<1>8. CASE PutSdKeys
  <2>1. call.op = "put_sd_keys" /\ \E r \in Replies(PutsKey(card, chan.sd, call.kvn, Received(call))) : Answered(r)
    BY <1>8 DEF PutSdKeys
  <2>2. Pending = PutsKey(card, chan.sd, call.kvn, Received(call))
    BY <2>1 DEF Pending
  <2> QED BY <1>1, <2>1, <2>2
<1>9. CASE DeleteSdKeyset
  <2>1. call.op = "delete_sd_keyset" /\ \E r \in Replies(DeletesKey(card, chan.sd, call.kvn)) : Answered(r)
    BY <1>9 DEF DeleteSdKeyset
  <2>2. Pending = DeletesKey(card, chan.sd, call.kvn)
    BY <2>1 DEF Pending
  <2> QED BY <1>1, <2>1, <2>2
<1>10. CASE SetCardStatus
  <2>1. call.op = "set_card_status" /\ call.at = "second" /\ \E r \in Replies(SetsLife(card, call.target)) : Answered(r)
    BY <1>10 DEF SetCardStatus
  <2>2. Pending = SetsLife(card, call.target)
    BY <2>1 DEF Pending
  <2> QED BY <1>1, <2>1, <2>2
<1> QED BY <1>1, <1>2, <1>3, <1>4, <1>5, <1>6, <1>7, <1>8, <1>9, <1>10 DEF Workflow

\* The manager's and the caller's part of the types.
CallTyped == call \in CallType /\ result \in ResultType /\ HasValue

\* A call that returns leaves the types as they are.
LEMMA ReturnLeavesTypes ==
  ASSUME NEW c \in CallType, NEW err \in Errors, NEW report \in ReportType, Return(c, err, report)
  PROVE  CallTyped'
<1>1. call' = NoCall /\ result' \in ResultType
  BY ReturnTyped
<1> QED BY <1>1, Quiet DEF CallTyped, HasValue

\* set_card_status with a state to go by, typed.
LEMMA DecideTyped ==
  ASSUME NEW c \in CallType, NEW current \in LifeCycles, Decide(c, current), c.op = "set_card_status"
  PROVE  CallTyped'
<1> DEFINE plan == CheckTransition(current, c.target, c.force)
           d == [c EXCEPT !.current = current, !.at = "second"]
<1>1. d \in CallType /\ d.op = "set_card_status"
  BY DEF CallType, Steps
<1>2. PICK b \in BOOLEAN : b = Irreversible(current, c.target)
  BY DEF Irreversible
<1>3. \/ call' = d /\ result' = NoResult
      \/ Return(d, "none", [Report EXCEPT !.noop = TRUE, !.state = current, !.irreversible = b])
      \/ plan \notin {"Apply", "NoOp"} /\ Return(d, plan, Report)
  BY <1>2 DEF Decide
<1>4. plan \notin {"Apply", "NoOp"} => plan \in Errors
  BY DEF CheckTransition, Errors
<1> HIDE DEF d, plan
<1>5. CASE call' = d /\ result' = NoResult
  BY <1>1, <1>5, ReportsTyped DEF CallTyped, HasValue
<1>6. CASE Return(d, "none", [Report EXCEPT !.noop = TRUE, !.state = current, !.irreversible = b])
  <2>1. [Report EXCEPT !.noop = TRUE, !.state = current, !.irreversible = b] \in ReportType
    BY ReportsTyped
  <2>2. "none" \in Errors
    BY DEF Errors
  <2> QED BY <1>1, <1>6, <2>1, <2>2, ReturnLeavesTypes
<1>7. CASE plan \notin {"Apply", "NoOp"} /\ Return(d, plan, Report)
  BY <1>1, <1>4, <1>7, ReportsTyped, ReturnLeavesTypes
<1> QED BY <1>3, <1>5, <1>6, <1>7

\* A call begun, or refused by the manager.
LEMMA BeginTyped ==
  ASSUME TypedInv, NEW c \in CallType, Makeable(c), Begin(c)
  PROVE  CallTyped'
<1>1. CASE \E err \in {"NoOpenChannel", "UnsupportedPrivilege"} : Return(c, err, Report)
  <2>1. PICK err \in Errors : Return(c, err, Report)
    BY <1>1 DEF Errors
  <2> QED BY <2>1, ReportsTyped, ReturnLeavesTypes
<1>2. CASE c.op = "set_card_status" /\ c.current # "read" /\ Decide(c, c.current)
  <2>1. c.current \in LifeCycles
    BY <1>2 DEF CallType
  <2> QED BY <1>2, <2>1, DecideTyped
<1>3. CASE call' = c /\ result' = NoResult
  <2>1. c.op = "put_sd_keys" => c.value \in KeyValues
    BY DEF CallType, Makeable
  <2> QED BY <1>3, <2>1, ReportsTyped DEF CallTyped, HasValue
<1> QED BY <1>1, <1>2, <1>3 DEF Begin

\* open_scp leaves a session on a domain, or the old one.
LEMMA OpenScpTyped ==
  ASSUME TypedInv, OpenScp
  PROVE  CallTyped' /\ chan' \in ChanType
<1>1. call \in CallType /\ chan \in ChanType /\ card \in CardType
  BY DEF TypedInv, TypeOK
<1>2. \A s \in BOOLEAN : [chan EXCEPT !.sync = s] \in ChanType
  BY <1>1 DEF ChanType
<1>3. {"none", "Card", "CardCryptogramFail"} \subseteq Errors
  BY DEF Errors
<1>4. CASE /\ Return(call, "Card", Report)
           /\ \E s \in BOOLEAN : chan' = [chan EXCEPT !.sync = @ /\ s]
  <2>1. CallTyped'
    BY <1>1, <1>3, <1>4, ReportsTyped, ReturnLeavesTypes
  <2>2. PICK s \in BOOLEAN : chan' = [chan EXCEPT !.sync = @ /\ s]
    BY <1>4
  <2>3. (chan.sync /\ s) \in BOOLEAN
    OBVIOUS
  <2> QED BY <1>2, <2>1, <2>2, <2>3
<1>5. CASE Return(call, "CardCryptogramFail", Report) /\ chan' = [chan EXCEPT !.sync = FALSE]
  BY <1>1, <1>2, <1>3, <1>5, ReportsTyped, ReturnLeavesTypes
<1>6. ASSUME NEW k \in Selected(card, DomainOf(call.x), call.kvn),
             chan' = [sd |-> DomainOf(call.x), kvn |-> k, value |-> call.value, sync |-> TRUE],
             Return(call, "none", [Report EXCEPT !.kvn = k])
      PROVE  CallTyped' /\ chan' \in ChanType
  <2>1. k \in Nat
    BY KvnsAssumption DEF Selected, Versions
  <2>2. CallTyped'
    BY <1>1, <1>3, <1>6, <2>1, ReportsTyped, ReturnLeavesTypes
  <2>3. DomainOf(call.x) \in Domains
    <3>1. IInv' /\ call.op = "open_scp"
      BY OpenScpKeepsIInv DEF TypedInv, OpenScp
    <3>2. chan' = NoChan \/ InDomain'
      BY <3>1 DEF IInv, Session
    <3>3. chan' # NoChan
      BY <1>6 DEF NoChan
    <3> QED BY <1>6, <3>2, <3>3 DEF InDomain
  <2>4. call.value \in KeyValues \cup {NoKey}
    BY <1>1 DEF CallType
  <2> QED BY <1>6, <2>1, <2>2, <2>3, <2>4 DEF ChanType
<1> QED BY <1>4, <1>5, <1>6 DEF OpenScp

\* The workflows of one exchange, and the two of delete_applet.
LEMMA AnswersTyped ==
  ASSUME TypedInv,
         Transmit \/ CreateSsd \/ DeleteSsd \/ LoadPackage \/ InstallApplet \/ DeleteInstance
         \/ DeleteElf \/ PutSdKeys \/ DeleteSdKeyset
  PROVE  CallTyped'
<1>1. call \in CallType /\ result \in ResultType /\ call.kvn \in Nat
  BY DEF TypedInv, TypeOK, CallType
<1>2. {"none", "SsdHasApplets", "ElfHasOtherInstances", "KeyCheckValueMismatch"} \subseteq Errors
  BY DEF Errors
<1>3. ASSUME NEW err \in Errors, NEW report \in ReportType, Return(call, err, report)
      PROVE  CallTyped'
  BY <1>1, <1>3, ReturnLeavesTypes
<1>4. CASE Transmit
  BY <1>2, <1>3, <1>4, ReportsTyped DEF Transmit
<1>5. CASE CreateSsd \/ LoadPackage \/ InstallApplet
  <2>1. \E r : Return(call, MeaningOf(call, r.sw), Report)
    BY <1>5 DEF CreateSsd, LoadPackage, InstallApplet
  <2> QED BY <1>3, <2>1, MeaningTyped, ReportsTyped
<1>6. CASE DeleteSsd
  <2>1. PICK r : Return(call, IF r.sw = "6985" /\ ~CascadeFlag(call.cascade) THEN "SsdHasApplets"
                              ELSE MeaningOf(call, r.sw), [Report EXCEPT !.cascaded = CascadeFlag(call.cascade)])
    BY <1>6 DEF DeleteSsd
  <2>2. CascadeFlag(call.cascade) \in BOOLEAN
    BY DEF CascadeFlag
  <2>3. [Report EXCEPT !.cascaded = CascadeFlag(call.cascade)] \in ReportType
    BY <2>2, ReportsTyped
  <2> QED BY <1>2, <1>3, <2>1, <2>3, MeaningTyped
<1>7. CASE DeleteInstance
  <2>1. PICK r : IF r.sw = "9000" /\ WantsElf(call)
                 THEN call' = [call EXCEPT !.at = "second"] /\ UNCHANGED result
                 ELSE Return(call, MeaningOf(call, r.sw), Report)
    BY <1>7 DEF DeleteInstance
  <2>2. CASE Return(call, MeaningOf(call, r.sw), Report)
    BY <1>3, <2>2, MeaningTyped, ReportsTyped
  <2>3. CASE call' = [call EXCEPT !.at = "second"] /\ UNCHANGED result
    <3>1. call' \in CallType /\ call'.op = "delete_applet"
      BY <1>1, <1>7, <2>3 DEF CallType, Steps, DeleteInstance
    <3> QED BY <1>1, <2>3, <3>1 DEF CallTyped, HasValue
  <2> QED BY <2>1, <2>2, <2>3
<1>8. CASE DeleteElf
  <2>1. PICK r : Return(call, IF r.sw = "6985" THEN "ElfHasOtherInstances" ELSE MeaningOf(call, r.sw),
                        [Report EXCEPT !.cascaded = r.sw = "9000"])
    BY <1>8 DEF DeleteElf
  <2>2. PICK b \in BOOLEAN : b = (r.sw = "9000")
    OBVIOUS
  <2>3. [Report EXCEPT !.cascaded = r.sw = "9000"] \in ReportType
    BY <2>2, ReportsTyped
  <2> QED BY <1>2, <1>3, <2>1, <2>3, MeaningTyped
<1>9. CASE PutSdKeys
  <2>1. PICK r \in Replies(PutsKey(card, chan.sd, call.kvn, Received(call))), full \in BOOLEAN :
          /\ Answered(r)
          /\ Return(call, IF r.sw = "9000" /\ KcvEchoMismatch(call, full) THEN "KeyCheckValueMismatch"
                          ELSE MeaningOf(call, r.sw), [Report EXCEPT !.checked = full, !.kvn = call.kvn])
    BY <1>9 DEF PutSdKeys
  <2>2. [Report EXCEPT !.checked = full, !.kvn = call.kvn] \in ReportType
    BY <1>1, ReportsTyped
  <2> QED BY <1>2, <1>3, <2>1, <2>2, MeaningTyped
<1>10. CASE DeleteSdKeyset
  <2>1. PICK r : Return(call, MeaningOf(call, r.sw), [Report EXCEPT !.kvn = call.kvn])
    BY <1>10 DEF DeleteSdKeyset
  <2>2. [Report EXCEPT !.kvn = call.kvn] \in ReportType
    BY <1>1, ReportsTyped
  <2> QED BY <1>3, <2>1, <2>2, MeaningTyped
<1> QED BY <1>4, <1>5, <1>6, <1>7, <1>8, <1>9, <1>10

\* Reading the life cycle, and moving it.
LEMMA StatusTyped ==
  ASSUME TypedInv, GetCardStatus \/ SetCardStatus
  PROVE  CallTyped' /\ known' \in LifeCycles
<1>1. call \in CallType /\ known \in LifeCycles /\ card.life \in LifeCycles
  BY DEF TypedInv, TypeOK, CardType, LifeCycles
<1>2. {"none", "InvalidAid"} \subseteq Errors
  BY DEF Errors
<1>3. ASSUME NEW err \in Errors, NEW report \in ReportType, Return(call, err, report)
      PROVE  CallTyped'
  BY <1>1, <1>3, ReturnLeavesTypes
<1>4. ASSUME NEW state \in LifeCycles, StatusRead(call, state),
             call.op \in {"get_card_status", "set_card_status"}
      PROVE  CallTyped' /\ known' \in LifeCycles
  <2>1. CASE call.op = "get_card_status"
    <3>1. Return(call, "none", [Report EXCEPT !.state = state]) /\ known' = state
      BY <1>4, <2>1 DEF StatusRead
    <3> QED BY <1>2, <1>3, <3>1, ReportsTyped
  <2>2. CASE call.op = "set_card_status"
    <3>1. (Decide(call, state) \/ Return(call, "InvalidAid", Report)) /\ known' = known
      BY <1>4, <2>2 DEF StatusRead
    <3> QED BY <1>1, <1>2, <1>3, <2>2, <3>1, DecideTyped, ReportsTyped
  <2> QED BY <1>4, <2>1, <2>2
<1>5. CASE GetCardStatus
  <2>1. PICK r : IF r.sw \in {"9000", "6A88"}
                 THEN \E state \in ParsedStates(r.sw) : StatusRead(call, state)
                 ELSE Return(call, General(r.sw), Report) /\ UNCHANGED known
    BY <1>5 DEF GetCardStatus
  <2>2. ParsedStates(r.sw) \subseteq LifeCycles
    BY <1>1 DEF ParsedStates, LifeCycles
  <2>3. General(r.sw) \in Errors
    BY DEF General, Errors
  <2> QED BY <1>1, <1>3, <1>4, <1>5, <2>1, <2>2, <2>3, ReportsTyped DEF GetCardStatus
<1>6. CASE SetCardStatus
  <2>1. /\ call.op = "set_card_status" /\ call.at = "second"
        /\ \E r : /\ Return(call, MeaningOf(call, r.sw), [Report EXCEPT !.state = call.current,
                               !.irreversible = Irreversible(call.current, call.target)])
                  /\ known' = IF r.sw = "9000" THEN call.target ELSE known
    BY <1>6 DEF SetCardStatus
  <2>2. call.target \in LifeCycles
    BY <1>1 DEF CallType
  <2>3. call.current \in LifeCycles
    <3>1. \E f : <<call.current, call.target>> \in Legal(f)
      BY <2>1 DEF TypedInv, IInv, Allowed
    <3> QED BY <3>1 DEF Legal, LifeCycles, Lives
  <2>4. PICK b \in BOOLEAN : b = Irreversible(call.current, call.target)
    BY DEF Irreversible
  <2>5. [Report EXCEPT !.state = call.current, !.irreversible = b] \in ReportType
    BY <2>3, ReportsTyped
  <2> QED BY <1>1, <1>3, <2>1, <2>2, <2>4, <2>5, MeaningTyped
<1> QED BY <1>5, <1>6

\* Every step of a workflow keeps the types.
LEMMA WorkflowTyped ==
  ASSUME TypedInv, Workflow
  PROVE  TypeOK' /\ HasValue'
<1>1. /\ card \in CardType /\ chan \in ChanType /\ known \in LifeCycles /\ did \subseteq Effects /\ IInv
  BY DEF TypedInv, TypeOK
<1>2. card' \in CardType /\ did' \subseteq Effects
  BY <1>1, WorkflowAnswers, AnsweredTyped
<1>3. CallTyped'
  BY OpenScpTyped, AnswersTyped, StatusTyped DEF Workflow
<1>4. chan' \in ChanType
  <2>1. OpenScp \/ UNCHANGED chan
    BY DEF Workflow, Transmit, CreateSsd, DeleteSsd, LoadPackage, InstallApplet,
       DeleteInstance, DeleteElf, PutSdKeys, DeleteSdKeyset, GetCardStatus, SetCardStatus
  <2> QED BY <1>1, <2>1, OpenScpTyped
<1>5. known' \in LifeCycles
  <2>1. GetCardStatus \/ SetCardStatus \/ UNCHANGED known
    BY DEF Workflow, OpenScp, Transmit, CreateSsd, DeleteSsd, LoadPackage, InstallApplet,
       DeleteInstance, DeleteElf, PutSdKeys, DeleteSdKeyset
  <2> QED BY <1>1, <2>1, StatusTyped
<1> QED BY <1>2, <1>3, <1>4, <1>5 DEF TypeOK, CallTyped

\* A lost exchange leaves the types as they are.
LEMMA ExchangeLostTyped ==
  ASSUME TypedInv, ExchangeLost
  PROVE  TypeOK' /\ HasValue'
<1>1. /\ card \in CardType /\ chan \in ChanType /\ call \in CallType /\ known \in LifeCycles
      /\ did \subseteq Effects
  BY DEF TypedInv, TypeOK
<1>2. card' \in CardType /\ did' \subseteq Effects
  BY <1>1, AnsweredTyped DEF ExchangeLost
<1>3. chan' \in ChanType
  <2>1. \A s \in BOOLEAN : [chan EXCEPT !.sync = s] \in ChanType /\ (chan.sync /\ s) \in BOOLEAN
    BY <1>1 DEF ChanType
  <2> QED BY <2>1 DEF ExchangeLost
<1>4. CallTyped'
  <2>1. Return(call, "Transport", Report) /\ "Transport" \in Errors
    BY DEF ExchangeLost, Errors
  <2> QED BY <1>1, <2>1, ReportsTyped, ReturnLeavesTypes
<1> QED BY <1>1, <1>2, <1>3, <1>4 DEF TypeOK, CallTyped, ExchangeLost

\* Nothing is pending in the initial state, and no channel is open.
LEMMA InitTyped == Init => TypedInv
<1> SUFFICES ASSUME Init PROVE TypedInv
  OBVIOUS
<1>1. card \in CardType
  BY CardsAssumption DEF Init
<1>2. NoChan \in ChanType
  BY DEF NoChan, ChanType
<1> QED BY <1>1, <1>2, InitIInv, Quiet, ReportsTyped DEF Init, TypedInv, TypeOK, HasValue, LifeCycles

\* Every step keeps the types.
LEMMA NextTyped ==
  ASSUME TypedInv, [Next]_vars
  PROVE  TypedInv'
<1>1. IInv' /\ TypeOK /\ HasValue
  BY NextKeepsIInv DEF TypedInv
<1>2. CASE UNCHANGED vars
  BY <1>1, <1>2 DEF vars, TypedInv, TypeOK, HasValue
<1>3. CASE \E c \in Requests : Honest(c) /\ Begin(c)
  <2>1. PICK c \in CallType : Makeable(c) /\ Begin(c)
    BY <1>3, RequestsAssumption
  <2>2. CallTyped'
    BY <2>1, BeginTyped
  <2> QED BY <1>1, <2>1, <2>2 DEF Begin, TypedInv, TypeOK, CallTyped
<1>4. CASE CloseChannel
  <2>1. NoChan \in ChanType
    BY DEF NoChan, ChanType
  <2> QED BY <1>1, <1>4, <2>1 DEF CloseChannel, TypedInv, TypeOK, HasValue
<1>5. CASE Workflow
  BY <1>1, <1>5, WorkflowTyped DEF TypedInv
<1>6. CASE ExchangeLost
  BY <1>1, <1>6, ExchangeLostTyped DEF TypedInv
<1>7. CASE CardMoves
  <2>1. PICK l \in Lives : card' = [card EXCEPT !.life = l]
    BY <1>7 DEF CardMoves
  <2>2. card' \in CardType
    BY <1>1, <2>1 DEF TypeOK, CardType
  <2> QED BY <1>1, <1>7, <2>2 DEF CardMoves, TypedInv, TypeOK, HasValue
<1> QED BY <1>2, <1>3, <1>4, <1>5, <1>6, <1>7 DEF Next

\* The workflows keep card, session, call, result and history of their types:
\* what a card does never leaves an object or a keyset in no place.
THEOREM ContentTypes == Spec => []TypeOK
<1>1. TypedInv /\ [Next]_vars => TypedInv'
  BY NextTyped
<1>2. TypedInv => TypeOK
  BY DEF TypedInv
<1> QED BY <1>1, <1>2, InitTyped, PTL DEF Spec
=============================================================================
