-------------------------------- MODULE Filtri ---------------------------------
(***************************************************************************)
(* Esercitazione 3: files sent through a process of the server.            *)
(*   sort      RemoteSort: a connection per file, closed to say that the   *)
(*             file is over; the child is /usr/bin/sort;                   *)
(*   del_line  the file without one of its lines: one connection for all   *)
(*             files, a zero character to say that a file is over;         *)
(*   riga      the same in serverStream.c and clientStream.c: a connection *)
(*             per file, and one process that serves them one by one.      *)
(* All clients send a whole file before they read anything back, and       *)
(* write the answer over the destination, which they do not empty.         *)
(*                                                                         *)
(* Characters are numbers, newline 10; a file has no zero.  An int is two  *)
(* of them, the low one first.  A child serves its own client and shares   *)
(* nothing with others: there one connection shows all there is.           *)
(***************************************************************************)
EXTENDS Tcp, FiniteSets, SequencesExt

CONSTANTS ConnFiltri,    \* per filter: connections of its clients
          Sorgenti,      \* per filter: the texts users send
          Destinazioni,  \* what the destination file may hold before
          LineeTolte,    \* per filter: line numbers users type
          MaxFile        \* bound: files sent by a client

VARIABLES filtro,   \* "sort", "del_line", "riga" or "spento"
          manda,    \* manda[c]: client: "menu", "invia", "legge", "fuori"
          resta,    \* resta[c]: client: what is still to be sent
          giro,     \* giro[c]: files asked for, with line and former destination
          dest,     \* dest[c]: destination file
          scritti,  \* scritti[c]: characters written to it
          figlio,   \* figlio[c]: who serves c: linea, lineCount, what it holds
          coda      \* riga: connections nobody has accepted yet, in their order

filtriVars == <<tcpVars, filtro, manda, resta, giro, dest, scritti, figlio, coda>>

Newline == 10
Zero == 0
FineFile == 255  \* EOF as a char
Intero(n) == <<n % 10, n \div 10>>
NessunFiglio == [stato |-> "nessuno"]

FiltriInit ==
  /\ TcpInit
  /\ filtro = "spento"
  /\ manda = [c \in Conn |-> "menu"]
  /\ resta = [c \in Conn |-> <<>>] /\ giro = [c \in Conn |-> <<>>]
  /\ dest = [c \in Conn |-> <<>>] /\ scritti = [c \in Conn |-> 0]
  /\ figlio = [c \in Conn |-> NessunFiglio] /\ coda = <<>>

\* One of the two servers: port, bind, listen, handler of SIGCHLD.
filtro_main ==
  /\ filtro = "spento" /\ filtro' \in {"sort", "del_line"}
  /\ UNCHANGED <<tcpVars, manda, resta, giro, dest, scritti, figlio, coda>>

\* The user names the files.  RemoteSort connects; del_line does so only the
\* first time, and puts the line's number before the text.
gets(c) ==
  /\ filtro \in {"sort", "del_line"} /\ manda[c] = "menu" /\ Len(giro[c]) < MaxFile
  /\ \E s \in Sorgenti[filtro], d \in Destinazioni, n \in LineeTolte[filtro] :
       /\ giro' = [giro EXCEPT ![c] = Append(@, [testo |-> s, linea |-> n, prima |-> d])]
       /\ resta' = [resta EXCEPT ![c] = IF filtro = "sort" THEN s ELSE Intero(n) \o s \o <<Zero>>]
       /\ dest' = [dest EXCEPT ![c] = d]
  /\ scritti' = [scritti EXCEPT ![c] = 0]
  /\ manda' = [manda EXCEPT ![c] = "invia"]
  /\ IF filtro = "sort" \/ giro[c] = <<>>
     THEN connect(c) /\ figlio' = [figlio EXCEPT ![c] = [stato |-> "nuovo", linea |-> 0, lineCount |-> 1,
                                                         testo |-> <<>>]]
     ELSE UNCHANGED <<tcpVars, figlio>>
  /\ UNCHANGED <<filtro, coda>>

\* Mutant: RemoteSort does not close its direction.
invia_senza_shutdown(c) ==
  /\ filtro # "riga" /\ manda[c] = "invia"
  /\ \/ /\ resta[c] # <<>>
        /\ scriveSu(c, <<Head(resta[c])>>)
        /\ resta' = [resta EXCEPT ![c] = Tail(@)]
        /\ UNCHANGED manda
     \/ /\ resta[c] = <<>>
        /\ UNCHANGED <<tcpVars, resta>>
        /\ manda' = [manda EXCEPT ![c] = "legge"]
  /\ UNCHANGED <<filtro, giro, dest, scritti, figlio, coda>>

\* The file goes to the server as there is room for it; then RemoteSort
\* closes its direction.
invia(c) ==
  /\ filtro # "riga" /\ manda[c] = "invia"
  /\ \/ /\ resta[c] # <<>>
        /\ scriveSu(c, <<Head(resta[c])>>)
        /\ resta' = [resta EXCEPT ![c] = Tail(@)]
        /\ UNCHANGED manda
     \/ /\ resta[c] = <<>>
        /\ IF filtro = "sort" THEN chiudeSu(c) ELSE UNCHANGED tcpVars
        /\ manda' = [manda EXCEPT ![c] = "legge"]
        /\ UNCHANGED resta
  /\ UNCHANGED <<filtro, giro, dest, scritti, figlio, coda>>

\* A character of the answer is written over the destination; the zero, or
\* the end of the stream for RemoteSort, ends it.
legge(c) ==
  /\ filtro # "riga" /\ manda[c] = "legge"
  /\ \/ /\ giu[c] # <<>> /\ leggeGiu(c, 1)
        /\ IF filtro = "del_line" /\ Head(giu[c]) = Zero
           THEN manda' = [manda EXCEPT ![c] = "menu"] /\ UNCHANGED <<dest, scritti>>
           ELSE /\ dest' = [dest EXCEPT ![c] = SubSeq(@, 1, scritti[c]) \o <<Head(giu[c])>>
                                                 \o SubSeq(@, scritti[c] + 2, Len(@))]
                /\ scritti' = [scritti EXCEPT ![c] = @ + 1]
                /\ UNCHANGED manda
     \/ /\ filtro = "sort" /\ EofGiu(c)
        /\ manda' = [manda EXCEPT ![c] = "menu"]
        /\ UNCHANGED <<tcpVars, dest, scritti>>
  /\ UNCHANGED <<filtro, resta, giro, figlio, coda>>

\* EOF on the keyboard: the client closes and exits.
termina(c) ==
  /\ filtro = "del_line" /\ manda[c] = "menu" /\ giro[c] # <<>>
  /\ chiudeSu(c)
  /\ manda' = [manda EXCEPT ![c] = "fuori"]
  /\ UNCHANGED <<filtro, resta, giro, dest, scritti, figlio, coda>>

\* sort, where a number stands for a line: everything is read, then written.
sort(c) ==
  LET f == figlio[c]
  IN  /\ filtro = "sort"
      /\ \/ /\ f.stato = "nuovo" /\ su[c] # <<>> /\ leggeSu(c, 1)
            /\ figlio' = [figlio EXCEPT ![c].testo = Append(@, Head(su[c]))]
         \/ /\ f.stato = "nuovo" /\ EofSu(c)
            /\ figlio' = [figlio EXCEPT ![c].stato = "scrive", ![c].testo = SortSeq(@, <)]
            /\ UNCHANGED tcpVars
         \/ /\ f.stato = "scrive" /\ f.testo # <<>> /\ scriveGiu(c, <<Head(f.testo)>>)
            /\ figlio' = [figlio EXCEPT ![c].testo = Tail(@)]
         \/ /\ f.stato = "scrive" /\ f.testo = <<>> /\ chiudeGiu(c)
            /\ figlio' = [figlio EXCEPT ![c] = NessunFiglio]
      /\ UNCHANGED <<filtro, manda, resta, giro, dest, scritti, coda>>

\* The child of del_line reads the line's number, once.
del_line_numero(c) ==
  /\ filtro = "del_line" /\ figlio[c].stato = "nuovo"
  /\ leggeSu(c, 2)
  /\ figlio' = [figlio EXCEPT ![c].stato = "filtra", ![c].linea = su[c][1] + 10 * su[c][2]]
  /\ UNCHANGED <<filtro, manda, resta, giro, dest, scritti, coda>>

\* Mutant: the newline of the deleted line goes back.
filtra_newline(c, ccar) ==
  LET f == figlio[c]
      esce == IF f.lineCount # f.linea \/ ccar = Newline THEN <<ccar>> ELSE <<>>
  IN  /\ Len(giu[c]) + Len(esce) <= Capienza
      /\ su' = [su EXCEPT ![c] = Tail(@)]
      /\ giu' = [giu EXCEPT ![c] = @ \o esce]
      /\ figlio' = [figlio EXCEPT ![c].lineCount = IF ccar = Newline THEN @ + 1 ELSE @]
      /\ UNCHANGED <<fineSu, fineGiu>>

\* A character comes and, unless it is of the line to delete, goes back.
filtra(c, ccar) ==
  LET f == figlio[c]
      esce == IF f.lineCount # f.linea THEN <<ccar>> ELSE <<>>
  IN  /\ Len(giu[c]) + Len(esce) <= Capienza
      /\ su' = [su EXCEPT ![c] = Tail(@)]
      /\ giu' = [giu EXCEPT ![c] = @ \o esce]
      /\ figlio' = [figlio EXCEPT ![c].lineCount = IF ccar = Newline THEN @ + 1 ELSE @]
      /\ UNCHANGED <<fineSu, fineGiu>>

\* The loop of the child, which ends with the connection.
del_line(c) ==
  /\ filtro = "del_line" /\ figlio[c].stato = "filtra"
  /\ \/ su[c] # <<>> /\ filtra(c, Head(su[c]))
     \/ EofSu(c) /\ chiudeGiu(c) /\ figlio' = [figlio EXCEPT ![c] = NessunFiglio]
  /\ UNCHANGED <<filtro, manda, resta, giro, dest, scritti, coda>>

-----------------------------------------------------------------------------
(* riga: serverStream.c and clientStream.c. *)

serverStream_main ==
  /\ filtro = "spento" /\ filtro' = "riga"
  /\ UNCHANGED <<tcpVars, manda, resta, giro, dest, scritti, figlio, coda>>

\* The user names the files and the line; a connection for each, the line's
\* number before the text.
clientStream_gets(c) ==
  /\ filtro = "riga" /\ manda[c] = "menu" /\ Len(giro[c]) < MaxFile
  /\ \E s \in Sorgenti[filtro], d \in Destinazioni, n \in LineeTolte[filtro] :
       /\ giro' = [giro EXCEPT ![c] = Append(@, [testo |-> s, linea |-> n, prima |-> d])]
       /\ resta' = [resta EXCEPT ![c] = Intero(n) \o s]
       /\ dest' = [dest EXCEPT ![c] = d]
  /\ scritti' = [scritti EXCEPT ![c] = 0]
  /\ manda' = [manda EXCEPT ![c] = "invia"]
  /\ connect(c)
  /\ coda' = Append(coda, c)
  /\ UNCHANGED <<filtro, figlio>>

\* write, then shutdown(sd, 1).
clientStream_invia(c) ==
  /\ filtro = "riga" /\ manda[c] = "invia"
  /\ IF resta[c] # <<>>
     THEN /\ scriveSu(c, <<Head(resta[c])>>)
          /\ resta' = [resta EXCEPT ![c] = Tail(@)]
          /\ UNCHANGED manda
     ELSE /\ chiudeSu(c)
          /\ manda' = [manda EXCEPT ![c] = "legge"]
          /\ UNCHANGED resta
  /\ UNCHANGED <<filtro, giro, dest, scritti, figlio, coda>>

\* The answer, to the end of the stream.
clientStream_legge(c) ==
  /\ filtro = "riga" /\ manda[c] = "legge"
  /\ \/ /\ giu[c] # <<>> /\ leggeGiu(c, 1)
        /\ dest' = [dest EXCEPT ![c] = SubSeq(@, 1, scritti[c]) \o <<Head(giu[c])>>
                                         \o SubSeq(@, scritti[c] + 2, Len(@))]
        /\ scritti' = [scritti EXCEPT ![c] = @ + 1]
        /\ UNCHANGED manda
     \/ /\ EofGiu(c)
        /\ manda' = [manda EXCEPT ![c] = "menu"]
        /\ UNCHANGED <<tcpVars, dest, scritti>>
  /\ UNCHANGED <<filtro, resta, giro, figlio, coda>>

\* The process takes the next connection once it has done with the last.  If
\* it does not know the client's host it goes on to another, and leaves this
\* one open.
serverStream_accept(c) ==
  /\ filtro = "riga" /\ coda # <<>> /\ c = Head(coda)
  /\ \A d \in Conn : figlio[d].stato \in {"nessuno", "dimenticato"}
  /\ coda' = Tail(coda)
  /\ \E host \in BOOLEAN :
       figlio' = [figlio EXCEPT ![c] = IF host THEN [stato |-> "nuovo"] ELSE [stato |-> "dimenticato"]]
  /\ UNCHANGED <<tcpVars, filtro, manda, resta, giro, dest, scritti>>

serverStream_numero(c) ==
  /\ filtro = "riga" /\ figlio[c].stato = "nuovo" /\ leggeSu(c, 2)
  /\ figlio' = [figlio EXCEPT ![c] = [stato |-> "filtra", linea |-> su[c][1] + 10 * su[c][2],
                                       righe_lette |-> 0, riga |-> <<>>, esce |-> <<>>]]
  /\ UNCHANGED <<filtro, manda, resta, giro, dest, scritti, coda>>

\* Mutant: a line that does not go back is not forgotten.
TagliaRighe_senza_azzerare(f, buff) ==
  LET Passo(a, ch) ==
        IF ch \notin {Newline, FineFile} THEN [a EXCEPT !.riga = Append(@, ch)]
        ELSE IF a.righe_lette + 1 = a.linea THEN [a EXCEPT !.righe_lette = @ + 1]
        ELSE [a EXCEPT !.righe_lette = @ + 1, !.riga = <<>>, !.esce = @ \o a.riga \o <<Newline>>]
  IN  FoldLeft(Passo, f, buff)

\* A block is cut into lines, at the character 255 too; each is counted and,
\* unless it is the one to delete, written with a newline.
TagliaRighe(f, buff) ==
  LET Passo(a, ch) ==
        IF ch \notin {Newline, FineFile} THEN [a EXCEPT !.riga = Append(@, ch)]
        ELSE [a EXCEPT !.righe_lette = @ + 1, !.riga = <<>>,
                       !.esce = IF a.righe_lette + 1 # a.linea THEN @ \o a.riga \o <<Newline>> ELSE @]
  IN  FoldLeft(Passo, f, buff)

\* The loop: a block is read when the lines of the last one are written; at
\* the end of the stream what follows the last newline is dropped.
serverStream(c) ==
  LET f == figlio[c]
  IN  /\ filtro = "riga" /\ f.stato = "filtra"
      /\ \/ /\ f.esce = <<>> /\ su[c] # <<>> /\ leggeSu(c, Len(su[c]))
            /\ figlio' = [figlio EXCEPT ![c] = TagliaRighe(@, su[c])]
         \/ /\ f.esce # <<>> /\ scriveGiu(c, <<Head(f.esce)>>)
            /\ figlio' = [figlio EXCEPT ![c].esce = Tail(@)]
         \/ /\ f.esce = <<>> /\ EofSu(c) /\ chiudeGiu(c)
            /\ figlio' = [figlio EXCEPT ![c] = NessunFiglio]
      /\ UNCHANGED <<filtro, manda, resta, giro, dest, scritti, coda>>

-----------------------------------------------------------------------------
Filtro(c) == \/ gets(c) \/ invia(c) \/ legge(c) \/ termina(c)
             \/ sort(c) \/ del_line_numero(c) \/ del_line(c)

Riga(c) == \/ clientStream_gets(c) \/ clientStream_invia(c) \/ clientStream_legge(c)
           \/ serverStream_accept(c) \/ serverStream_numero(c) \/ serverStream(c)

FiltriNext ==
  \/ filtro_main \/ serverStream_main
  \/ filtro # "spento" /\ \E c \in ConnFiltri[filtro] : Filtro(c) \/ Riga(c)

-----------------------------------------------------------------------------
(* Properties. *)

LineaDi(testo, k) == 1 + Cardinality({j \in 1 .. k - 1 : testo[j] = Newline})

SenzaLinea(testo, n) ==
  LET I == SelectSeq([k \in DOMAIN testo |-> k], LAMBDA k : LineaDi(testo, k) # n)
  IN  [k \in DOMAIN I |-> testo[I[k]]]

\* The terminated lines of a text, in which 255 ends a line as well.
Terminate(testo) ==
  LET t == [k \in DOMAIN testo |-> IF testo[k] = FineFile THEN Newline ELSE testo[k]]
  IN  SubSeq(t, 1, Max({0} \cup {k \in DOMAIN t : t[k] = Newline}))

\* What the user gets for a file: its lines in order, or the text without a
\* line, over what the destination held.
Attesa(g) ==
  LET esce == CASE filtro = "sort" -> SortSeq(g.testo, <)
                [] filtro = "del_line" -> SenzaLinea(g.testo, g.linea)
                [] filtro = "riga" -> SenzaLinea(Terminate(g.testo), g.linea)
  IN  esce \o SubSeq(g.prima, Len(esce) + 1, Len(g.prima))

\* Every sorted file, the first file of a del_line connection and every file
\* of clientStream come back right whatever the sizes of the buffers and
\* however the server's blocks cut the lines; but clientStream loses a last
\* line that no newline ends.  (The child of del_line reads the number of the
\* second as text, and goes on counting lines.)
EsitoFiltro ==
  filtro # "spento" =>
    \A c \in ConnFiltri[filtro] :
      manda[c] = "menu" /\ Len(giro[c]) >= 1 /\ (filtro = "del_line" => Len(giro[c]) = 1)
        => dest[c] = Attesa(Last(giro[c]))

\* Both streams are full: the client still sends, the server writes.
Pieni(c) == manda[c] = "invia" /\ Len(su[c]) = Capienza /\ Len(giu[c]) = Capienza

\* A connection comes to a stand only with both streams full while the client
\* still sends, or when del_line drops the closing zero as a part of the
\* deleted line, or, with serverStream, when the client's host is unknown or
\* another client is being served.  With sort it never does, and serverStream
\* as a whole stops only with both streams of the one it serves full: then
\* nobody is served any more.
StalloSpiegato ==
  filtro # "spento" =>
    \A c \in ConnFiltri[filtro] :
      manda[c] \in {"invia", "legge"} /\ ~ENABLED (Filtro(c) \/ Riga(c)) =>
        \/ filtro # "sort" /\ Pieni(c)
        \/ /\ filtro = "del_line" /\ manda[c] = "legge"
           /\ LineaDi(Last(giro[c]).testo, Len(Last(giro[c]).testo) + 1) = giro[c][1].linea
        \/ /\ filtro = "riga"
           /\ \/ figlio[c].stato = "dimenticato"
              \/ \E k \in DOMAIN coda : coda[k] = c /\
                   \E d \in ConnFiltri[filtro] \ {c} :
                     \/ figlio[d].stato \in {"nuovo", "filtra"} /\ (ENABLED Riga(d) \/ Pieni(d))
                     \/ k > 1 /\ coda[1] = d
=============================================================================
