---------------------------- MODULE CardRegistry ----------------------------
(***************************************************************************)
(* The card's side of content management, as the workflows rely on it: the *)
(* life cycle, the objects with the security domain each belongs to, and   *)
(* the keysets.  The card is external; what is here is what the status     *)
(* words the workflows match on, and the traces quoted in the docs, say of *)
(* it.  Everything is an operator from a card to the set of its answers.   *)
(***************************************************************************)
EXTENDS Naturals

CONSTANTS
  Isd,          \* the issuer security domain
  Ssds,         \* AIDs of supplementary security domains
  Applets,      \* AIDs of applet instances, all of one package
  Package,      \* AID of that package's executable load file
  Kvns,         \* key version numbers
  KeyValues,    \* the keysets the host knows the values of
  NoKey,        \* a version with no keyset
  Garbled,      \* a keyset decrypted under the wrong DEK
  Absent,       \* an object that is not on the card
  Refusals      \* status words a card may answer at any time, doing nothing

Domains == {Isd} \cup Ssds
Objects == Ssds \cup Applets \cup {Package}
Lives == {"OP_READY", "INITIALIZED", "SECURED", "CARD_LOCKED", "TERMINATED"}
StatusWords == {"9000", "6A80", "6A88", "6982", "6985", "6F00"}

ASSUME NamesAssumption ==
  /\ Isd \notin Objects /\ Package \notin Ssds \cup Applets /\ Ssds \cap Applets = {}
  /\ Absent \notin Domains \cup Objects /\ NoKey \notin KeyValues /\ Garbled \notin KeyValues
  /\ NoKey # Garbled
ASSUME KvnsAssumption == Kvns \subseteq Nat \ {0}
ASSUME RefusalsAssumption == Refusals \subseteq StatusWords \ {"9000"}

(***************************************************************************)
(* `quirky' cards let the first PUT KEY replace the factory keyset, and    *)
(* leave the default key version dangling once its keyset is deleted.      *)
(***************************************************************************)
KeyTable == [Kvns -> KeyValues \cup {NoKey, Garbled}]
CardType == [life : Lives, home : [Objects -> Domains \cup {Absent}],
             keys : [Domains -> KeyTable], default : Kvns,
             virgin : BOOLEAN, quirky : BOOLEAN]

On(card, x) == x = Isd \/ (x \in Objects /\ card.home[x] # Absent)
Owns(card, d) == {x \in Objects : card.home[x] = d}
Versions(keys) == {k \in Kvns : keys[k] # NoKey}

\* SELECT finds domains and applets; a load file cannot be selected.
Selectable(card, x) == x # Package /\ On(card, x)

\* An answer that changes nothing, and the refusals a card is free to give.
Says(card, sw) == [card |-> card, sw |-> sw, did |-> {}]
Refused(card) == {Says(card, sw) : sw \in Refusals}
Does(card, effects) == [card |-> card, sw |-> "9000", did |-> effects]

\* A domain without keysets of its own authenticates with the ISD's.
KeysOf(card, d) == IF Versions(card.keys[d]) = {} THEN card.keys[Isd] ELSE card.keys[d]

\* INITIALIZE UPDATE: the keysets a key version selector may stand for.
Selected(card, d, sel) ==
  {k \in Versions(KeysOf(card, d)) :
     \/ k = sel
     \/ sel = 0 /\ card.quirky /\ d = Isd /\ k = card.default
     \/ sel = 0 /\ ~card.quirky /\ (card.default \in Versions(KeysOf(card, d)) => k = card.default)}

\* INSTALL [for load] and LOAD: the package becomes an object of a domain.
Loads(card, d) == Refused(card) \cup
  (IF On(card, Package) THEN {Says(card, "6A80")}
   ELSE IF d \notin Domains \/ ~On(card, d) THEN {Says(card, "6A88")}
   ELSE {Does([card EXCEPT !.home[Package] = d], {[did |-> "made", what |-> Package]})})

\* INSTALL [for install]: an applet goes where its package is, an SSD under the ISD.
Installs(card, x) == Refused(card) \cup
  (IF x \in Applets /\ ~On(card, Package) THEN {Says(card, "6A88")}
   ELSE IF On(card, x) THEN {Says(card, "6A80")}
   ELSE {Does([card EXCEPT !.home[x] = IF x \in Applets THEN card.home[Package] ELSE Isd],
              {[did |-> "made", what |-> x]})})

\* DELETE [object]: a package in use, or a domain that owns something, stays; so does the ISD.
Needed(card, x) == IF x = Package THEN {a \in Applets : On(card, a)} ELSE Owns(card, x)
Deletes(card, x, cascade) == Refused(card) \cup
  (IF ~On(card, x) THEN {Says(card, "6A88")}
   ELSE IF x = Isd \/ (Needed(card, x) # {} /\ ~cascade) THEN {Says(card, "6985")}
   ELSE LET gone == {x} \cup Needed(card, x) IN
        {Does([card EXCEPT
                 !.home = [o \in Objects |-> IF o \in gone THEN Absent ELSE @[o]],
                 !.keys = [d \in Domains |-> IF d \in gone THEN [k \in Kvns |-> NoKey] ELSE @[d]]],
              {[did |-> "deleted", what |-> o] : o \in gone})})

\* PUT KEY (Add): the first one on a quirky card takes the place of the factory keyset.
PutsKey(card, d, kvn, value) == Refused(card) \cup
  (IF kvn \notin Kvns \/ kvn > 127 \/ card.keys[d][kvn] # NoKey THEN {Says(card, "6A80")}
   ELSE LET first == card.quirky /\ card.virgin /\ d = Isd
            old == IF first THEN [k \in Kvns |-> NoKey] ELSE card.keys[d] IN
        {Does([card EXCEPT !.keys[d] = [old EXCEPT ![kvn] = value],
                           !.default = IF first THEN kvn ELSE @,
                           !.virgin = @ /\ d # Isd],
              {[did |-> "stored", what |-> d, kvn |-> kvn, value |-> value]})})

\* DELETE [key]: a version that is there goes; a compliant card picks another default.
DeletesKey(card, d, kvn) == Refused(card) \cup
  (IF kvn \notin Versions(card.keys[d]) THEN {Says(card, "6A88")}
   ELSE LET keys == [card.keys[d] EXCEPT ![kvn] = NoKey]
            picks == IF d # Isd \/ card.quirky \/ Versions(keys) = {} \/ card.default # kvn
                     THEN {card.default} ELSE Versions(keys) IN
        {Does([card EXCEPT !.keys[d] = keys, !.default = k],
              {[did |-> "dropped", what |-> d, kvn |-> kvn]}) : k \in picks})

\* SET STATUS: the arrows of GPCS Figure 5-1, refused from the state it leads to.
Arrows == {<<"OP_READY", "INITIALIZED">>, <<"OP_READY", "SECURED">>, <<"INITIALIZED", "SECURED">>,
           <<"SECURED", "CARD_LOCKED">>, <<"CARD_LOCKED", "SECURED">>}
         \cup {<<l, "TERMINATED">> : l \in Lives \ {"TERMINATED"}}
SetsLife(card, target) == Refused(card) \cup
  (IF <<card.life, target>> \notin Arrows THEN {Says(card, "6985")}
   ELSE {Does([card EXCEPT !.life = target],
              {[did |-> "moved", from |-> card.life, to |-> target]})})
=============================================================================
