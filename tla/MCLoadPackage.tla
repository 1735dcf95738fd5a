---------------------------- MODULE MCLoadPackage ----------------------------
(***************************************************************************)
(* LoadPackage on CAPs of at most three small components, stored and       *)
(* compressed, larger than a block or the ring, empty, in the order of the *)
(* load file or another, with entries that are none and names that come    *)
(* twice; on ZIPs whose directory declares more or less than there is, and *)
(* on some that are no CAP.                                                *)
(***************************************************************************)
EXTENDS LoadPackage

Stored(declared, own, left) ==
  [method |-> "stored", declared |-> declared, own |-> own, sound |-> own, left |-> left]
Deflated(declared, own, sound) ==
  [method |-> "deflate", declared |-> declared, own |-> own, sound |-> sound, left |-> own]

Honest == {Stored(n, n, n + 1) : n \in {0, 1, 3, 5}} \cup {Deflated(n, n, n) : n \in {0, 3, 4, 9}}
Dishonest == {Stored(4, 3, 9), Stored(5, 3, 4), Stored(4, 2, 2), Stored(3, 3, 2), Deflated(2, 7, 7),
              Deflated(5, 2, 2), Deflated(5, 5, 4), Deflated(3, 3, 0),
              [Stored(5, 2, 6) EXCEPT !.method = "other"]}
Metas == {Stored(1, 1, 2), Stored(3, 3, 4), Deflated(3, 3, 3), Deflated(4, 4, 4)}

Of(path, file) ==
  [path |-> path, cdh |-> TRUE, lfh |-> TRUE, file |-> file, legible |-> TRUE, aids |-> 1]
Debug == Of(<<"pkg", "Debug">>, Stored(2, 2, 3))
Cap(entries) == [eocd |-> TRUE, entries |-> entries]

Header(file) == Of(<<"pkg", "Header">>, file)
Import(file) == Of(<<"pkg", "Import">>, file)
Class(file) == Of(<<"pkg", "Class">>, file)
Method(file) == Of(<<"Method">>, file)

Plain == Header(Stored(1, 1, 2))
Listed == {Cap(<<Header(h), Class(c), Method(m)>>) :
              h \in {Stored(1, 1, 2), Deflated(3, 3, 3)}, c \in Honest, m \in Honest}
Shuffled == {Cap(<<Method(m), Debug, Header(h), Import(i), Header(Stored(3, 3, 9))>>) :
               h \in Metas, i \in Metas, m \in Honest}
Lying == {Cap(<<Plain, Class(c), Method(m)>>) : c \in Dishonest, m \in Honest}
         \cup {Cap(<<Class(c), Header(h), Method(m)>>) : h \in Dishonest, c \in Metas, m \in Dishonest}

\* No directory, no Header, a metadata component too large, illegible or too full;
\* a record or local header that cannot be read, or that nothing reads.
NoCaps ==
  {[Cap(<<Plain>>) EXCEPT !.eocd = FALSE], Cap(<<Debug>>), Cap(<<>>),
   Cap(<<Header(Stored(5, 5, 6))>>), Cap(<<Header(Deflated(9, 9, 9))>>),
   Cap(<<[Plain EXCEPT !.legible = FALSE]>>),
   Cap(<<Plain, [Import(Stored(1, 1, 1)) EXCEPT !.aids = 3]>>),
   Cap(<<Plain, [Debug EXCEPT !.cdh = FALSE]>>), Cap(<<Plain, [Debug EXCEPT !.lfh = FALSE]>>),
   Cap(<<Plain, [Method(Stored(1, 1, 1)) EXCEPT !.lfh = FALSE]>>),
   Cap(<<Plain, [Plain EXCEPT !.lfh = FALSE]>>)}

SmallCaps == Listed \cup Shuffled \cup Lying \cup NoCaps
=============================================================================
