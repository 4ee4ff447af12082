---------------------------- MODULE MCTrasferimenti ----------------------------
EXTENDS Trasferimenti
CONSTANTS fa, fb, fc, c1, c2

\* Filtri: one connection, number 1, for the servers that fork.  For sort a
\* number is a line.
Filtri3 == {"sort", "del_line", "riga"}
MCConnFiltri == [x \in Filtri3 |-> IF x = "riga" THEN {1, 2} ELSE {1}]
MCSorgenti ==
  [x \in Filtri3 |->
     CASE x = "sort" -> {<<>>, <<1>>, <<2, 1>>, <<2, 1, 2, 1, 1, 3, 1>>}
       [] x = "del_line" -> {<<>>, <<7>>, <<7, 10>>, <<7, 10, 8, 10>>, <<7, 10, 8>>, <<10, 10, 7>>,
                             <<7, 10, 8, 8, 10, 9, 10>>}
       [] x = "riga" -> {<<7, 10, 8>>, <<7, 255, 8, 10, 9, 10, 6, 10>>}]
MCLinee == [x \in Filtri3 |-> CASE x = "sort" -> {1} [] x = "del_line" -> 1 .. 3 [] x = "riga" -> {2, 5}]
MCDestinazioni == {<<9, 9, 9>>}

\* Direttori
Reg(n) == [nome |-> n, dir |-> FALSE]
Sub(n) == [nome |-> n, dir |-> TRUE]
MCAlbero ==
  (<<"a">> :> << <<Reg(<<"x">>), Reg(<<"y", "S">>), Sub(<<"z">>)>> >>)
  @@ (<<"b", "c">> :> << <<Sub(<<"z">>), Reg(<<"S">>)>>, <<Reg(<<"w">>)>> >>)
  @@ (<<"d">> :> <<>>) @@ (<<"e", "f">> :> << <<>> >>)
MCDomandate == {<<"a">>, <<"b", "c">>, <<"d">>, <<"e", "f">>, <<"q">>}
MCResidui == {<<>>, <<"r", "r">>}

\* GetFile: after "pq", "p" is read as "pq" again, and "q" as "qq".
MCFileGet == (<<"p">> :> <<"a", "b", "a">>) @@ (<<"p", "q">> :> <<>>) @@ (<<"s">> :> <<"N">>)
MCNomiGet == {<<>>, <<"p">>, <<"p", "q">>, <<"q">>, <<"s">>}

\* PutFile: each connection of a client of its own.
MCClienteDi == <<1, 2>>
MCBlocchi == <<<<11, 12>>, <<21>>>>
MCVecchio == <<1, 2, 3>>

\* MPut
Blocchi_(n, b) == [nome |-> n, blocchi |-> b]
MCCartelle == {<<Blocchi_(fa, <<11, 12>>), Blocchi_(fb, <<13>>)>>, <<Blocchi_(fb, <<21, 22>>), Blocchi_(fc, <<>>)>>,
               <<Blocchi_(fc, <<31>>)>>}
MCPresenti == {<<>>, (fa :> <<1, 2, 3>>)}

\* Scambio and RemOp
MCLavoratori == File \cup ClientiRmi
MCComandi == {<<[file |-> fa, esiste |-> e1], [file |-> y, esiste |-> e2]>> : y \in {fb, fc}, e1, e2 \in BOOLEAN}
MCTesto == [x \in File |-> <<"a", "b">>]
MCCoppie == {<<1, 2>>, <<1, 3>>, <<1, 1>>, Malformata}
MCMaxScambi == [c \in Cliente |-> IF c = c1 THEN 2 ELSE 1]
MCFileRemoti == {(fa :> <<<<"a">>, <<"b", " ", " ", "a">>>> @@ fb :> <<<<"b", " ", " ", "a">>>>)}
MCMaxEliminate == [c \in ClientiRmi |-> IF c = c1 THEN 2 ELSE 1]
=============================================================================
