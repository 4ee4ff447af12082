------------------------------- MODULE Direttori -------------------------------
(***************************************************************************)
(* Esercitazione 4 proposta, TCP part: the child of server_select.c sends  *)
(* the names of the files of second level of a directory, stream_client.c  *)
(* prints them.  The connection lasts as long as the client: requests are  *)
(* names without a terminator, an answer is S and, for each subdirectory,  *)
(* names ended by a zero and a #; or it is N.                              *)
(*                                                                         *)
(* A name is a sequence of characters, "0" the zero.  A child and its      *)
(* client share nothing with others.                                       *)
(***************************************************************************)
EXTENDS Tcp, FiniteSets, SequencesExt

CONSTANTS ConnDirettori, \* connections of the clients
          Albero,     \* directory -> its subdirectories: sequences of [nome, dir]
          Domandate,  \* names users type
          Residui,    \* what the child's buffer may hold when it starts
          MaxElenchi  \* bound: requests of a client

\* Names and directories are finite, and no name of a file has a zero.
ASSUME DirettoriAssumption ==
  /\ ConnDirettori \subseteq Conn
  /\ \A n \in Domandate \cup Residui : n \in Seq(Range(n))
  /\ \A d \in DOMAIN Albero : Albero[d] \in Seq(Range(Albero[d]))
  /\ \A d \in DOMAIN Albero : \A sub \in Range(Albero[d]) :
       /\ sub \in Seq(Range(sub))
       /\ \A f \in Range(sub) : f.nome \in Seq(Range(f.nome) \ {"0"})

VARIABLES lettura,   \* lettura[c]: client: "menu", "esito", "elenco", "fuori"
          elenco,    \* elenco[c]: requests, with the names printed for each
          parziale,  \* parziale[c]: characters of the name being printed
          processo,  \* processo[c]: the child runs
          dir,       \* dir[c]: its buffer, the string in it
          uscita     \* uscita[c]: what it has still to write

direttoriVars == <<tcpVars, lettura, elenco, parziale, processo, dir, uscita>>

DirettoriInit ==
  /\ TcpInit
  /\ lettura = [c \in Conn |-> "fuori"] /\ elenco = [c \in Conn |-> <<>>]
  /\ parziale = [c \in Conn |-> <<>>] /\ processo = [c \in Conn |-> FALSE]
  /\ dir = [c \in Conn |-> <<>>] /\ uscita = [c \in Conn |-> <<>>]

\* The client connects; accept and fork.  The buffer is a local variable that
\* nobody initialises.
accept(c) ==
  /\ lettura[c] = "fuori" /\ elenco[c] = <<>>
  /\ connect(c)
  /\ lettura' = [lettura EXCEPT ![c] = "menu"]
  /\ processo' = [processo EXCEPT ![c] = TRUE]
  /\ \E r \in Residui : dir' = [dir EXCEPT ![c] = r]
  /\ UNCHANGED <<elenco, parziale, uscita>>

\* A name is typed and sent, strlen of it.
chiede_elenco(c) ==
  /\ lettura[c] = "menu" /\ Len(elenco[c]) < MaxElenchi
  /\ \E d \in Domandate :
       /\ scriveSu(c, d)
       /\ elenco' = [elenco EXCEPT ![c] = Append(@, [dir |-> d, nomi |-> <<>>, esito |-> "?",
                                                     residuo |-> Len(dir[c]) > Len(d)])]
  /\ lettura' = [lettura EXCEPT ![c] = "esito"]
  /\ UNCHANGED <<parziale, processo, dir, uscita>>

\* The entries of a subdirectory: opendir is tried on each to leave the
\* directories out, but on a path that only grows, so that after the first
\* entry it names nothing and every entry passes for a file.
Voci(sub) == [k \in DOMAIN sub |-> [nome |-> sub[k].nome, file |-> k > 1 \/ ~sub[k].dir]]

\* The loops add a name with its zero, and a subdirectory with its #.
AccodaNome(a, voce) == IF voce.file THEN a \o voce.nome \o <<"0">> ELSE a

Nomi2(sub) == FoldLeft(AccodaNome, <<>>, Voci(sub))

AccodaSub(a, sub) == a \o Nomi2(sub) \o <<"#">>

\* Mutant: the # once, at the end of the answer, but not for one subdirectory.
Elenco_senza_fine(d) ==
  IF d \in DOMAIN Albero
  THEN <<"S">> \o FoldLeft(LAMBDA a, sub : a \o Nomi2(sub), <<>>, Albero[d])
       \o (IF Len(Albero[d]) > 1 THEN <<"#">> ELSE <<>>)
  ELSE <<"N">>

\* The answer for the string d.
Elenco(d) ==
  IF d \in DOMAIN Albero
  THEN <<"S">> \o FoldLeft(AccodaSub, <<>>, Albero[d])
  ELSE <<"N">>

\* The child reads what has come, over what the buffer holds.
leggi_dir(c) ==
  /\ processo[c] /\ uscita[c] = <<>> /\ su[c] # <<>>
  /\ leggeSu(c, Len(su[c]))
  /\ dir' = [dir EXCEPT ![c] = su[c] \o SubSeq(@, Len(su[c]) + 1, Len(@))]
  /\ uscita' = [uscita EXCEPT ![c] = Elenco(dir'[c])]
  /\ UNCHANGED <<lettura, elenco, parziale, processo>>

\* It writes, and at the end of the stream it exits.
scrivi_elenco(c) ==
  /\ processo[c]
  /\ \/ /\ uscita[c] # <<>> /\ scriveGiu(c, <<Head(uscita[c])>>)
        /\ uscita' = [uscita EXCEPT ![c] = Tail(@)]
        /\ UNCHANGED processo
     \/ /\ uscita[c] = <<>> /\ EofSu(c) /\ chiudeGiu(c)
        /\ processo' = [processo EXCEPT ![c] = FALSE]
        /\ UNCHANGED uscita
  /\ UNCHANGED <<lettura, elenco, parziale, dir>>

\* The client reads the first character: S, or anything else.
leggi_esito(c) ==
  /\ lettura[c] = "esito" /\ leggeGiu(c, 1)
  /\ lettura' = [lettura EXCEPT ![c] = IF Head(giu[c]) = "S" THEN "elenco" ELSE "menu"]
  /\ elenco' = [elenco EXCEPT ![c][Len(elenco[c])].esito = IF Head(giu[c]) = "S" THEN "S" ELSE "N"]
  /\ UNCHANGED <<parziale, processo, dir, uscita>>

\* Then it prints names up to a #.
leggi_nomi(c) ==
  LET ch == Head(giu[c])
  IN  /\ lettura[c] = "elenco" /\ leggeGiu(c, 1)
      /\ lettura' = [lettura EXCEPT ![c] = IF ch = "#" THEN "menu" ELSE @]
      /\ parziale' = [parziale EXCEPT ![c] = IF ch \in {"#", "0"} THEN <<>> ELSE Append(@, ch)]
      /\ elenco' = IF ch = "0" THEN [elenco EXCEPT ![c][Len(elenco[c])].nomi = Append(@, parziale[c])]
                   ELSE elenco
      /\ UNCHANGED <<processo, dir, uscita>>

\* EOF on the keyboard.
chiudi_dir(c) ==
  /\ lettura[c] = "menu" /\ elenco[c] # <<>>
  /\ lettura' = [lettura EXCEPT ![c] = "fuori"]
  /\ chiudeSu(c)
  /\ UNCHANGED <<elenco, parziale, processo, dir, uscita>>

Direttorio(c) == \/ accept(c) \/ chiede_elenco(c) \/ leggi_esito(c) \/ leggi_nomi(c) \/ chiudi_dir(c)
                 \/ leggi_dir(c) \/ scrivi_elenco(c)

DirettoriNext == \E c \in ConnDirettori : Direttorio(c)

-----------------------------------------------------------------------------
\* A connection on which every directory asked for has one subdirectory, of
\* names without a #, or is not there; no name is empty, or follows a longer
\* one in the buffer.
Regolare(e) ==
  \A k \in DOMAIN e :
    /\ ~e[k].residuo /\ e[k].dir # <<>>
    /\ e[k].dir \in DOMAIN Albero =>
         /\ Len(Albero[e[k].dir]) = 1
         /\ \A j \in DOMAIN Albero[e[k].dir][1] : "#" \notin Range(Albero[e[k].dir][1][j].nome)

\* All the files, and the directories that are not the first entry.
NomiAttesi(sub) ==
  LET v == IF sub # <<>> /\ sub[1].dir THEN Tail(sub) ELSE sub
  IN  [j \in DOMAIN v |-> v[j].nome]

Elencata(e) ==
  IF e.dir \in DOMAIN Albero THEN e.esito = "S" /\ e.nomi = NomiAttesi(Albero[e.dir][1])
  ELSE e.esito = "N" /\ e.nomi = <<>>

\* There each answer is that of its own request and complete, and nobody is
\* left waiting: the child is there and something is on its way between the
\* two.  Elsewhere the client, which stops at the first #, takes the rest of
\* an answer for the next, or waits for a # that does not come.
ElencoGiusto ==
  \A c \in ConnDirettori : Regolare(elenco[c]) =>
    /\ \A k \in DOMAIN elenco[c] :
         k < Len(elenco[c]) \/ lettura[c] \in {"menu", "fuori"} => Elencata(elenco[c][k])
    /\ lettura[c] \in {"esito", "elenco"} =>
         processo[c] /\ (su[c] # <<>> \/ giu[c] # <<>> \/ uscita[c] # <<>>)
=============================================================================
