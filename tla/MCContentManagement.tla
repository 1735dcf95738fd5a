------------------------ MODULE MCContentManagement ------------------------
(***************************************************************************)
(* ContentManagement with one SSD, two applets of one package, two keysets *)
(* and one key version, on an empty card in any life cycle state.          *)
(***************************************************************************)
EXTENDS ContentManagement, TLC

CONSTANTS isd, ssd, app1, app2, pkg, ks1, ks2

NoKeys == [k \in Kvns |-> NoKey]
AnyLife ==
  {[life |-> l, home |-> [x \in Objects |-> Absent],
    keys |-> [d \in Domains |-> IF d = Isd THEN [k \in Kvns |-> ks1] ELSE NoKeys],
    default |-> 1, virgin |-> TRUE, quirky |-> FALSE] : l \in Lives}

Ask(op) == [NoCall EXCEPT !.op = op]
AnyRequest ==
  {[Ask("open_scp") EXCEPT !.x = d, !.kvn = 1, !.value = v] : d \in {isd, ssd, app1}, v \in KeyValues}
  \cup {[Ask("create_ssd") EXCEPT !.x = ssd, !.banned = b, !.label = l] : b \in BOOLEAN, l \in BOOLEAN}
  \cup {[Ask("install_applet") EXCEPT !.x = a] : a \in {app1, app2}}
  \cup {[Ask("load_package") EXCEPT !.x = d] : d \in {isd, ssd}}
  \cup {[Ask("delete_ssd") EXCEPT !.x = ssd, !.cascade = c] : c \in {"Never", "Cascade"}}
  \cup {[Ask("delete_applet") EXCEPT !.x = a, !.cascade = "IfLastInstance", !.elf = e] :
           a \in {app1, app2}, e \in BOOLEAN}
  \cup {[Ask("put_sd_keys") EXCEPT !.kvn = 1, !.value = ks2, !.dek = v] : v \in KeyValues}
  \cup {[Ask("delete_sd_keyset") EXCEPT !.kvn = 1]}
  \cup {Ask("transmit"), Ask("get_card_status")}
  \cup {[Ask("set_card_status") EXCEPT !.target = t, !.current = c, !.force = f] :
           t \in {"INITIALIZED", "SECURED"}, c \in LifeCycles \cup {"read"}, f \in BOOLEAN}
  \cup {[Ask("set_card_status") EXCEPT !.target = t] : t \in LifeCycles \ {"OP_READY"}}

\* Bound: objects and keysets change on a card left SECURED, the life cycle on a fresh one.
Focus ==
  \/ card.life = "SECURED" /\ known = "Unknown"
  \/ Owns(card, isd) = {} /\ card.keys[isd][1] = ks1

AppSymmetry == Permutations({app1, app2})
=============================================================================
