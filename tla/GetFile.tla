-------------------------------- MODULE GetFile --------------------------------
(***************************************************************************)
(* Esercitazione 4 (the older solution), TCP part: the child of server.c   *)
(* sends files, stream_client.c prints them.  The connection lasts as long *)
(* as the client: requests are names without a terminator, an answer is S, *)
(* the file and a zero; or it is N alone.  The client prints up to a zero. *)
(*                                                                         *)
(* A text is a sequence of characters, "0" the zero.  A child and its      *)
(* client share nothing with others.                                       *)
(***************************************************************************)
EXTENDS Tcp, SequencesExt

CONSTANTS ConnGet,     \* connections of the clients
          FileGet,     \* the server's directory: name -> text
          NomiGet,     \* names users type
          ResiduiGet,  \* what nome_file, never initialised, may hold
          MaxGet       \* bound: requests of a client

\* Names and texts are finite, and a text has no zero.
ASSUME GetAssumption ==
  /\ ConnGet \subseteq Conn
  /\ \A n \in NomiGet \cup ResiduiGet : n \in Seq(Range(n))
  /\ \A n \in DOMAIN FileGet : FileGet[n] \in Seq(Range(FileGet[n]) \ {"0"})

VARIABLES schermo,    \* schermo[c]: client: "menu", "stampa", "fuori"
          chiesti,    \* chiesti[c]: requests, with what was printed after each
          serve,      \* serve[c]: the child runs
          nome_file,  \* nome_file[c]: its buffer, the string in it
          daScrivere  \* daScrivere[c]: what it has still to write

getVars == <<tcpVars, schermo, chiesti, serve, nome_file, daScrivere>>

GetInit ==
  /\ TcpInit
  /\ schermo = [c \in Conn |-> "fuori"] /\ chiesti = [c \in Conn |-> <<>>]
  /\ serve = [c \in Conn |-> FALSE] /\ nome_file = [c \in Conn |-> <<>>]
  /\ daScrivere = [c \in Conn |-> <<>>]

\* The client connects; accept and fork.
accept_get(c) ==
  /\ schermo[c] = "fuori" /\ chiesti[c] = <<>>
  /\ connect(c)
  /\ schermo' = [schermo EXCEPT ![c] = "menu"]
  /\ serve' = [serve EXCEPT ![c] = TRUE]
  /\ \E r \in ResiduiGet : nome_file' = [nome_file EXCEPT ![c] = r]
  /\ UNCHANGED <<chiesti, daScrivere>>

\* A name is typed and sent, strlen of it: of an empty one, nothing.
chiede_file(c) ==
  /\ schermo[c] = "menu" /\ Len(chiesti[c]) < MaxGet
  /\ \E n \in NomiGet :
       /\ scriveSu(c, n)
       /\ chiesti' = [chiesti EXCEPT ![c] = Append(@, [nome |-> n, stampa |-> <<>>,
                                                       residuo |-> Len(nome_file[c]) > Len(n)])]
  /\ schermo' = [schermo EXCEPT ![c] = "stampa"]
  /\ UNCHANGED <<serve, nome_file, daScrivere>>

\* Mutant: the zero only after a file that is not empty.
Invio_senza_zero(n) ==
  IF n \notin DOMAIN FileGet THEN <<"N">>
  ELSE IF FileGet[n] = <<>> THEN <<"S">> ELSE <<"S">> \o FileGet[n] \o <<"0">>

\* The answer for the string n.
Invio(n) == IF n \in DOMAIN FileGet THEN <<"S">> \o FileGet[n] \o <<"0">> ELSE <<"N">>

\* The child reads what has come, over what the buffer holds.
leggi_nome_file(c) ==
  /\ serve[c] /\ daScrivere[c] = <<>> /\ su[c] # <<>>
  /\ leggeSu(c, Len(su[c]))
  /\ nome_file' = [nome_file EXCEPT ![c] = su[c] \o SubSeq(@, Len(su[c]) + 1, Len(@))]
  /\ daScrivere' = [daScrivere EXCEPT ![c] = Invio(nome_file'[c])]
  /\ UNCHANGED <<schermo, chiesti, serve>>

\* It writes, and at the end of the stream it exits.
scrivi_file(c) ==
  /\ serve[c]
  /\ \/ /\ daScrivere[c] # <<>> /\ scriveGiu(c, <<Head(daScrivere[c])>>)
        /\ daScrivere' = [daScrivere EXCEPT ![c] = Tail(@)]
        /\ UNCHANGED serve
     \/ /\ daScrivere[c] = <<>> /\ EofSu(c) /\ chiudeGiu(c)
        /\ serve' = [serve EXCEPT ![c] = FALSE]
        /\ UNCHANGED daScrivere
  /\ UNCHANGED <<schermo, chiesti, nome_file>>

\* The client prints a character, whatever it is, or stops at the zero.
stampa(c) ==
  /\ schermo[c] = "stampa" /\ leggeGiu(c, 1)
  /\ IF Head(giu[c]) = "0"
     THEN schermo' = [schermo EXCEPT ![c] = "menu"] /\ UNCHANGED chiesti
     ELSE /\ chiesti' = [chiesti EXCEPT ![c][Len(chiesti[c])].stampa = Append(@, Head(giu[c]))]
          /\ UNCHANGED schermo
  /\ UNCHANGED <<serve, nome_file, daScrivere>>

\* EOF on the keyboard.
chiudi_get(c) ==
  /\ schermo[c] = "menu" /\ chiesti[c] # <<>>
  /\ schermo' = [schermo EXCEPT ![c] = "fuori"]
  /\ chiudeSu(c)
  /\ UNCHANGED <<chiesti, serve, nome_file, daScrivere>>

Get(c) == \/ accept_get(c) \/ chiede_file(c) \/ stampa(c) \/ chiudi_get(c)
          \/ leggi_nome_file(c) \/ scrivi_file(c)

GetNext == \E c \in ConnGet : Get(c)

-----------------------------------------------------------------------------
\* An S and one whole file of the server: the one named, or, after a longer
\* name, one whose name begins with what was typed and goes on with what was
\* left in the buffer.
Stampata(q) ==
  \E n \in DOMAIN FileGet :
    /\ IsPrefix(q.nome, n) /\ (~q.residuo => n = q.nome)
    /\ q.stampa = <<"S">> \o FileGet[n]

\* Whoever is asked for the next name was printed one whole file.  As long as a
\* client waits its child is there, and one of the two goes on unless nothing
\* is on its way between them: a client is left waiting for ever only for an
\* empty name, which sends nothing, or for a string that names no file, since
\* after N no zero comes.
FileStampato ==
  \A c \in ConnGet : \A k \in DOMAIN chiesti[c] :
    LET q == chiesti[c][k]
    IN  IF k < Len(chiesti[c]) \/ schermo[c] # "stampa" THEN Stampata(q)
        ELSE /\ serve[c]
             /\ su[c] = <<>> /\ giu[c] = <<>> /\ daScrivere[c] = <<>> =>
                  q.nome = <<>> \/ (q.stampa = <<"N">> /\ (q.residuo \/ q.nome \notin DOMAIN FileGet))
=============================================================================
