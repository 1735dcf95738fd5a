--------------------------- MODULE MCCardInventory ---------------------------
(***************************************************************************)
(* CardInventory on small registries: one ISD, at most three entries of    *)
(* every kind in the application scope, at most two load files.            *)
(***************************************************************************)
EXTENDS CardInventory

Of(kind, size) == [kind |-> kind, size |-> size, modules |-> 0]

Isd == Of("isd", 1)
AppEntries == {Isd, Of("sd", 2), Of("applet", 2), Of("no AID", 1), Of("broken", 1),
               Of("garbage", 1)}
ElfEntries == {[Of("elf", 3) EXCEPT !.modules = 1], Of("no AID", 1)}

UpTo(n, S) == UNION {[1 .. m -> S] : m \in 0 .. n}

Cards(apps, elves) == {[isd |-> <<Isd>>, app |-> a, elf |-> e] : a \in apps, e \in elves}

\* Every application scope with no load file; every load file scope beside a few.
SmallRegistries ==
  Cards(UpTo(3, AppEntries), {<<>>}) \cup Cards(UpTo(1, AppEntries), UpTo(2, ElfEntries))

\* At most one entry in a scope: enough for what the documents deny.
PlainRegistries == Cards(UpTo(1, AppEntries), UpTo(1, ElfEntries))
=============================================================================
