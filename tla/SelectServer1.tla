--------------------------- MODULE SelectServer1 ---------------------------
(***************************************************************************)
(* select_server1.c and stream_client1.c: a connection, and a child, for   *)
(* every file.  The client closes its sending side after the name; the end *)
(* of the file is the end of the connection, which the child produces with *)
(* shutdown because the server process never closes its own descriptor.    *)
(*                                                                         *)
(* A connection is <<client, n>>, the n-th of that client.  A file is the  *)
(* number of blocks it is sent in.                                         *)
(***************************************************************************)
EXTENDS SelectLoop

CONSTANTS ClientS,       \* the stream clients
          Nomi,          \* file names users type
          Blocchi,       \* blocks of each existing file: its domain
          MaxRichieste   \* bound: files a client asks for

ASSUME Server1Assumption ==
  /\ DOMAIN Blocchi \subseteq Nomi /\ \A n \in DOMAIN Blocchi : Blocchi[n] \in Nat
  /\ Nomi # {} /\ MaxRichieste \in Nat

VARIABLES fase,      \* client: "menu", "esito" (awaits S or N), "file", "fine"
          numero,    \* files asked so far by each client
          ok,        \* client: the last status read, kept between requests
          ricevuti,  \* client: blocks read of the current file
          nome,      \* name sent on each connection
          canale,    \* bytes in flight to the client on each connection
          chiuso,    \* connections the server's side has ended
          figlio,    \* where the child of each connection is
          inviati,   \* blocks it has written
          detto      \* history: what each request showed its user

clienteVars == <<fase, numero, ok, ricevuti, nome, detto>>
reteVars    == <<canale, chiuso>>
figlioVars  == <<figlio, inviati>>
vars == <<loopVars, figliVars, udpVars, clienteVars, reteVars, figlioVars>>

Connessioni == ClientS \X (1 .. MaxRichieste)
Esistenti == DOMAIN Blocchi
Corrente(c) == <<c, numero[c]>>

Init ==
  /\ LoopInit
  /\ fase = [c \in ClientS |-> "menu"]
  /\ numero = [c \in ClientS |-> 0]
  /\ ok = [c \in ClientS |-> "ignoto"]     \* "char ok" starts unassigned
  /\ ricevuti = [c \in ClientS |-> 0]
  /\ nome = [k \in Connessioni |-> CHOOSE n \in Nomi : TRUE]   \* read only once sent
  /\ canale = [k \in Connessioni |-> <<>>]
  /\ chiuso = {}
  /\ figlio = [k \in Connessioni |-> "nessuno"]
  /\ inviati = [k \in Connessioni |-> 0]
  /\ detto = {}

-----------------------------------------------------------------------------
(* The server process. *)

\* accept and fork: the server keeps connfd, its "close" is commented out.
padre_accept(k) ==
  /\ accept(k) /\ fork(k)
  /\ aperti' = aperti \cup {k} /\ pc' = DopoTcp
  /\ figlio' = [figlio EXCEPT ![k] = "read"]
  /\ UNCHANGED <<clienteVars, reteVars, inviati>>

\* fork returns -1, which the server takes for the father's branch.
padre_fork_fallita(k) ==
  /\ accept(k)
  /\ aperti' = aperti \cup {k} /\ pc' = DopoTcp
  /\ UNCHANGED <<figliVars, clienteVars, reteVars, figlioVars>>

\* The server exits: a connection accepted and left without a child sees end
\* of file, one still in the backlog is reset.
padre_exit ==
  /\ accept_fallita
  /\ chiuso' = chiuso \cup {k \in aperti : figlio[k] = "nessuno"}
  /\ canale' = [k \in Connessioni |->
                  IF \E i \in DOMAIN coda : coda[i] = k THEN <<"RST">> ELSE canale[k]]
  /\ UNCHANGED <<clienteVars, figlioVars>>

\* The reply is "ris", a local variable that nothing assigns.
padre_conteggio ==
  /\ \E num, ris \in Conteggi : recvfrom_sendto(ris, num)
  /\ UNCHANGED <<clienteVars, reteVars, figlioVars>>

Padre == \/ (select /\ UNCHANGED <<clienteVars, reteVars, figlioVars>>)
         \/ \E k \in Connessioni : padre_accept(k) \/ padre_fork_fallita(k)
         \/ padre_exit
         \/ padre_conteggio

Gestore == pc # "morto" /\ (SIGCHLD \/ gestore)
             /\ UNCHANGED <<loopVars, udpVars, clienteVars, reteVars, figlioVars>>

-----------------------------------------------------------------------------
(* The child of connection k. *)

\* read, open, and the one byte that says whether the file exists.
figlio_apre(k) ==
  /\ figlio[k] = "read"
  /\ figlio' = [figlio EXCEPT ![k] = IF nome[k] \in Esistenti THEN "invio" ELSE "chiude"]
  /\ canale' = [canale EXCEPT ![k] = Append(@, IF nome[k] \in Esistenti THEN "S" ELSE "N")]
  /\ UNCHANGED <<chiuso, inviati, clienteVars, loopVars, figliVars, udpVars>>

\* One block of the file is written to the connection.
figlio_invia(k) ==
  /\ figlio[k] = "invio" /\ inviati[k] < Blocchi[nome[k]]
  /\ inviati' = [inviati EXCEPT ![k] = @ + 1]
  /\ canale' = [canale EXCEPT ![k] = Append(@, "blocco")]
  /\ UNCHANGED <<figlio, chiuso, clienteVars, loopVars, figliVars, udpVars>>

\* Mutant: the block loop may end before the end of the file.
figlio_termina_presto(k) ==
  /\ figlio[k] \in {"invio", "chiude"}
  /\ figlio' = [figlio EXCEPT ![k] = "finito"]
  /\ chiuso' = chiuso \cup {k}
  /\ exit(k)
  /\ UNCHANGED <<canale, inviati, clienteVars, loopVars, udpVars>>

\* Mutant: without the shutdowns, the end of the file is left to the close of
\* descriptors, and the server process still holds one.
figlio_termina_senza_shutdown(k) ==
  /\ \/ figlio[k] = "invio" /\ inviati[k] = Blocchi[nome[k]]
     \/ figlio[k] = "chiude"
  /\ figlio' = [figlio EXCEPT ![k] = "finito"]
  /\ exit(k)
  /\ UNCHANGED <<canale, chiuso, inviati, clienteVars, loopVars, udpVars>>

\* Mutant: the child does not exit and goes back to the loop of its father.
figlio_termina_senza_exit(k) ==
  /\ \/ figlio[k] = "invio" /\ inviati[k] = Blocchi[nome[k]]
     \/ figlio[k] = "chiude"
  /\ figlio' = [figlio EXCEPT ![k] = "finito"]
  /\ chiuso' = chiuso \cup {k}
  /\ UNCHANGED <<canale, inviati, clienteVars, loopVars, figliVars, udpVars>>

\* After the last block, or the "N": shutdown of both sides and exit(0).
figlio_termina(k) ==
  /\ \/ figlio[k] = "invio" /\ inviati[k] = Blocchi[nome[k]]
     \/ figlio[k] = "chiude"
  /\ figlio' = [figlio EXCEPT ![k] = "finito"]
  /\ chiuso' = chiuso \cup {k}
  /\ exit(k)
  /\ UNCHANGED <<canale, inviati, clienteVars, loopVars, udpVars>>

Figlio(k) == figlio_apre(k) \/ figlio_invia(k) \/ figlio_termina(k)

-----------------------------------------------------------------------------
(* stream_client1. *)

\* connect, the name, shutdown of the sending side.
cliente_chiede(c) ==
  /\ fase[c] = "menu" /\ numero[c] < MaxRichieste
  /\ pc # "morto" /\ Len(coda) < Backlog
  /\ numero' = [numero EXCEPT ![c] = @ + 1]
  /\ \E n \in Nomi : nome' = [nome EXCEPT ![<<c, numero[c] + 1>>] = n]
  /\ coda' = Append(coda, <<c, numero[c] + 1>>)
  /\ fase' = [fase EXCEPT ![c] = "esito"]
  /\ ricevuti' = [ricevuti EXCEPT ![c] = 0]
  /\ UNCHANGED <<ok, detto, pc, pronti, aperti, limiteFd, reteVars, figlioVars, figliVars, udpVars>>

\* connect is refused: exit(4).
cliente_rifiutato(c) ==
  /\ fase[c] = "menu" /\ numero[c] < MaxRichieste
  /\ pc = "morto"
  /\ fase' = [fase EXCEPT ![c] = "fine"]
  /\ UNCHANGED <<numero, ok, ricevuti, nome, detto, reteVars, figlioVars, loopVars, figliVars, udpVars>>

Annota(c, e) ==
  detto' = detto \cup {[conn |-> Corrente(c), nome |-> nome[Corrente(c)],
                       esito |-> e, blocchi |-> ricevuti[c]]}

\* One item is taken from the connection.
Consuma(c, x) ==
  LET k == Corrente(c) IN
    /\ canale[k] # <<>> /\ x = Head(canale[k])
    /\ canale' = [canale EXCEPT ![k] = Tail(@)]
    /\ UNCHANGED chiuso

\* read returns 0.
FineConnessione(c) ==
  /\ canale[Corrente(c)] = <<>> /\ Corrente(c) \in chiuso
  /\ UNCHANGED reteVars

\* What ok holds when no read has assigned it: the status of an earlier
\* request, or anything.
Vecchio(c) == IF ok[c] = "ignoto" THEN {"S", "N", "altro"} ELSE {ok[c]}

\* What the client does with the status byte o.
Stato(c, o) ==
  /\ ok' = [ok EXCEPT ![c] = o]
  /\ fase' = [fase EXCEPT ![c] = IF o = "S" THEN "file" ELSE "menu"]
  /\ IF o = "S" THEN UNCHANGED detto
                ELSE Annota(c, IF o = "N" THEN "inesistente" ELSE "niente")
  /\ UNCHANGED <<numero, ricevuti, nome>>

\* read of the status: a byte, an error, or 0, after which ok is the old one.
cliente_esito(c) ==
  /\ fase[c] = "esito"
  /\ \/ \E o \in {"S", "N"} : Consuma(c, o) /\ Stato(c, o)
     \/ FineConnessione(c) /\ \E o \in Vecchio(c) : Stato(c, o)
     \/ /\ Consuma(c, "RST")
        /\ fase' = [fase EXCEPT ![c] = "menu"]
        /\ Annota(c, "errore")
        /\ UNCHANGED <<numero, ok, ricevuti, nome>>
  /\ UNCHANGED <<figlioVars, loopVars, figliVars, udpVars>>

cliente_file(c) ==
  /\ fase[c] = "file"
  /\ \/ /\ Consuma(c, "blocco")
        /\ ricevuti' = [ricevuti EXCEPT ![c] = @ + 1]
        /\ UNCHANGED <<fase, detto>>
     \/ /\ FineConnessione(c)
        /\ fase' = [fase EXCEPT ![c] = "menu"]
        /\ Annota(c, "file")
        /\ UNCHANGED ricevuti
  /\ UNCHANGED <<numero, ok, nome, figlioVars, loopVars, figliVars, udpVars>>

Cliente(c) == cliente_chiede(c) \/ cliente_rifiutato(c) \/ cliente_esito(c) \/ cliente_file(c)

Next ==
  \/ Padre
  \/ Gestore
  \/ \E k \in Connessioni : Figlio(k)
  \/ \E c \in ClientS : Cliente(c)
  \/ ClienteU /\ UNCHANGED <<loopVars, figliVars, clienteVars, reteVars, figlioVars>>

Spec == Init /\ [][Next]_vars

\* Processes that can run are scheduled; a signal that is pending is delivered.
FairSpec ==
  /\ Spec
  /\ WF_vars(Padre) /\ WF_vars(Gestore)
  /\ \A k \in Connessioni : WF_vars(Figlio(k))
  /\ \A c \in ClientS : WF_vars(cliente_esito(c) \/ cliente_file(c))

-----------------------------------------------------------------------------
(* Properties. *)

\* Types of every variable; the processes running are the children at work.
TypeOK ==
  /\ vivi = {k \in Connessioni : figlio[k] \in {"read", "invio", "chiude"}}
  /\ LoopTypeOK(Connessioni)
  /\ fase \in [ClientS -> {"menu", "esito", "file", "fine"}]
  /\ numero \in [ClientS -> 0 .. MaxRichieste]
  /\ ok \in [ClientS -> {"S", "N", "altro", "ignoto"}]
  /\ ricevuti \in [ClientS -> Nat]
  /\ nome \in [Connessioni -> Nomi]
  /\ canale \in [Connessioni -> Seq({"S", "N", "blocco", "RST"})]
  /\ chiuso \subseteq Connessioni
  /\ figlio \in [Connessioni -> {"nessuno", "read", "invio", "chiude", "finito"}]
  /\ inviati \in [Connessioni -> Nat]

\* A connection the server accepted while fork was failing: nobody will serve it.
Orfana(k) == k \in aperti /\ figlio[k] = "nessuno"

\* What a user sees is what the server has, with other children serving other
\* connections and the server exiting meanwhile: a file that exists arrives
\* with every block, and "File inesistente" is true unless the connection never
\* had a child (the client then repeats the status of an earlier request).
RispostaFedele ==
  \A d \in detto :
    /\ d.esito = "inesistente" => d.nome \notin Esistenti \/ figlio[d.conn] = "nessuno"
    /\ d.esito = "file" /\ figlio[d.conn] # "nessuno" =>
         d.nome \in Esistenti /\ d.blocchi = Blocchi[d.nome]

\* A request for a file comes to an end, even for the clients left in the
\* backlog of a server that has run out of descriptors; only a connection whose
\* fork failed stays open, for as long as the server lives.
RichiestaServita ==
  \A c \in ClientS :
    fase[c] \in {"esito", "file"} ~> fase[c] \in {"menu", "fine"} \/ Orfana(Corrente(c))
=============================================================================
