------------------------------ MODULE MCFraming ------------------------------
(***************************************************************************)
(* A few cards, each with something of its own to decode, and the sizes at *)
(* which a field, a block or an Lc fills up.                               *)
(***************************************************************************)
EXTENDS Framing

Scp(p, i) == [scp |-> p, i |-> i]
Crd(answer, broken, entries) == [answer |-> answer, broken |-> broken, entries |-> entries]
Key(kid, version, types) ==
  [kid |-> kid, kvn |-> version, types |-> types, extended |-> FALSE, short |-> FALSE]
Cci(answer, broken, bytes) == [answer |-> answer, broken |-> broken, channels |-> bytes]

NoCrd == Crd("absent", FALSE, <<>>)
NoCci == Cci("absent", FALSE, <<>>)

\* An SCP03 card that still advertises SCP02, and an SCP03 of unknown options.
Modern ==
  [fci |-> "named",
   crd |-> Crd("ok", FALSE, <<Scp(2, 85), Scp(3, 16), Scp(3, 120), Scp(1, 5), Scp(3, 4)>>),
   kit |-> Crd("ok", FALSE, <<Key(1, 48, <<"AES">>), Key(1, 32, <<"AES", "DES">>),
                              Key(2, 48, <<"AES">>)>>),
   cci |-> Cci("ok", FALSE, <<4>>), diagnostics |-> "ok", cplc |-> "JCOP"]

Cards_ ==
  {Modern,
   [Modern EXCEPT !.fci = "unnamed", !.crd = NoCrd, !.kit = NoCrd, !.cci = NoCci,
                  !.cplc = "absent"],
   [Modern EXCEPT !.crd = Crd("ok", FALSE, <<Scp(1, 5), Scp(0, 0)>>), !.cplc = "other",
                  !.kit = Crd("ok", FALSE, <<Key(1, 48, <<"AES">>), [Key(2, 48, <<>>) EXCEPT !.short = TRUE],
                                             [Key(3, 48, <<>>) EXCEPT !.extended = TRUE]>>)],
   [Modern EXCEPT !.crd = Crd("ok", FALSE, <<Scp(3, 4)>>), !.cci = Cci("ok", FALSE, <<>>)],
   [Modern EXCEPT !.crd = Crd("ok", FALSE, <<Scp(2, 5), Scp(2, 85), Scp(3, 8), Scp(3, 0), Scp(2, 21)>>),
                  !.cci = Cci("ok", FALSE, <<0>>)],
   [Modern EXCEPT !.fci = "broken",
                  !.kit = Crd("ok", FALSE, <<Key(1, 1, <<"AES">>), Key(1, 2, <<"AES">>), Key(1, 3, <<"AES">>), Key(1, 4, <<"AES">>)>>)],
   [Modern EXCEPT !.kit = Crd("ok", FALSE, <<Key(1, 1, <<"AES", "AES", "AES", "AES">>)>>)],
   [Modern EXCEPT !.fci = "refused"],
   [Modern EXCEPT !.crd = Crd("refused", FALSE, <<>>)],
   [Modern EXCEPT !.kit = Crd("refused", FALSE, <<>>)],
   [Modern EXCEPT !.cci = Cci("refused", FALSE, <<>>)],
   [Modern EXCEPT !.cci = Cci("ok", TRUE, <<>>)],
   [Modern EXCEPT !.diagnostics = "refused"],
   [Modern EXCEPT !.cplc = "refused"]}

CardIs_ == {4, 8, 16, 64, 120}
Forced_ == {Scp(3, 0), Scp(2, 85)}
Levels_ == {Services, {"CMAC"}, {"CMAC", "CDEC"}, {"CDEC", "RENC"}}
=============================================================================
