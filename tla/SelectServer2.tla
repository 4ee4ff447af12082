--------------------------- MODULE SelectServer2 ---------------------------
(***************************************************************************)
(* select_server2.c and stream_client2.c: one connection, and one child,   *)
(* per client; the files of a connection follow one another and each ends  *)
(* with a zero byte, so a status byte is only found where the previous     *)
(* answer has been read to its end.                                        *)
(*                                                                         *)
(* A connection is named after its client.  A file is a number of bytes,   *)
(* none of them zero: the programs are for text files.                     *)
(***************************************************************************)
EXTENDS SelectLoop

CONSTANTS ClientS,       \* the stream clients
          Nomi,          \* file names users type
          Byte,          \* bytes of each existing file: its domain
          MaxRichieste   \* bound: files each client asks for

ASSUME Server2Assumption ==
  /\ DOMAIN Byte \subseteq Nomi /\ \A n \in DOMAIN Byte : Byte[n] \in Nat
  /\ MaxRichieste \in [ClientS -> Nat]

VARIABLES fase,      \* client: "avvio", "menu", "esito", "file", "fine"
          numero,    \* files asked so far by each client
          ok,        \* client: the last status read
          chiesto,   \* client: the name of the current request
          ricevuti,  \* client: bytes of the current file
          andata,    \* names in flight to the server on each connection
          canale,    \* bytes in flight to the client
          finC,      \* connections the client has closed
          finS,      \* connections the server's side has closed
          figlio,    \* where the child of each connection is
          aperto,    \* the file it is sending
          inviati,   \* bytes of it written
          detto      \* history: what each request showed its user

clienteVars == <<fase, numero, ok, chiesto, ricevuti, detto>>
reteVars    == <<andata, canale, finC, finS>>
figlioVars  == <<figlio, aperto, inviati>>
vars == <<loopVars, figliVars, udpVars, clienteVars, reteVars, figlioVars>>

Esistenti == DOMAIN Byte

Init ==
  /\ LoopInit
  /\ fase = [c \in ClientS |-> "avvio"]
  /\ numero = [c \in ClientS |-> 0]
  /\ ok = [c \in ClientS |-> "ignoto"]     \* "char ok" starts unassigned
  /\ chiesto = [c \in ClientS |-> ""]
  /\ ricevuti = [c \in ClientS |-> 0]
  /\ andata = [c \in ClientS |-> <<>>] /\ canale = [c \in ClientS |-> <<>>]
  /\ finC = {} /\ finS = {}
  /\ figlio = [c \in ClientS |-> "nessuno"]
  /\ aperto = [c \in ClientS |-> ""]
  /\ inviati = [c \in ClientS |-> 0]
  /\ detto = {}

-----------------------------------------------------------------------------
(* The server process. *)

padre_accept(c) ==
  /\ accept(c) /\ fork(c)
  /\ aperti' = aperti \cup {c} /\ pc' = "close"
  /\ figlio' = [figlio EXCEPT ![c] = "read"]
  /\ UNCHANGED <<clienteVars, reteVars, aperto, inviati>>

\* fork returns -1, which the server takes for the father's branch.
padre_fork_fallita(c) ==
  /\ accept(c)
  /\ aperti' = aperti \cup {c} /\ pc' = "close"
  /\ UNCHANGED <<figliVars, clienteVars, reteVars, figlioVars>>

\* Mutant: the father's close is missing.
padre_close_mancante ==
  /\ Attivo("close")
  /\ pc' = DopoTcp
  /\ UNCHANGED <<pronti, coda, aperti, limiteFd, reteVars, clienteVars, figlioVars, figliVars, udpVars>>

\* close(connfd): the connection ends here only if no child shares it.
padre_close ==
  /\ Attivo("close")
  /\ finS' = finS \cup {c \in aperti : figlio[c] = "nessuno"}
  /\ aperti' = {}
  /\ pc' = DopoTcp
  /\ UNCHANGED <<pronti, coda, limiteFd, andata, canale, finC, clienteVars, figlioVars, figliVars, udpVars>>

padre_exit ==
  /\ accept_fallita
  /\ canale' = [c \in ClientS |->
                  IF \E i \in DOMAIN coda : coda[i] = c THEN <<"RST">> ELSE canale[c]]
  /\ UNCHANGED <<clienteVars, andata, finC, finS, figlioVars>>

padre_conteggio ==
  /\ \E num \in Conteggi : recvfrom_sendto(num, num)
  /\ UNCHANGED <<clienteVars, reteVars, figlioVars>>

Padre == \/ select /\ UNCHANGED <<clienteVars, reteVars, figlioVars>>
         \/ \E c \in ClientS : padre_accept(c) \/ padre_fork_fallita(c)
         \/ padre_close
         \/ padre_exit
         \/ padre_conteggio

Gestore == /\ pc # "morto" /\ (SIGCHLD \/ gestore)
           /\ UNCHANGED <<loopVars, udpVars, clienteVars, reteVars, figlioVars>>

-----------------------------------------------------------------------------
(* The child of client c: a loop of requests. *)

Scrivi(c, x) == canale' = [canale EXCEPT ![c] = Append(@, x)]

figlio_apre(c) ==
  /\ figlio[c] = "read" /\ andata[c] # <<>>
  /\ LET n == Head(andata[c]) IN
       IF n \in Esistenti
         THEN /\ Scrivi(c, "S")
              /\ figlio' = [figlio EXCEPT ![c] = "invio"]
              /\ aperto' = [aperto EXCEPT ![c] = n]
              /\ inviati' = [inviati EXCEPT ![c] = 0]
         ELSE Scrivi(c, "N") /\ UNCHANGED figlioVars
  /\ andata' = [andata EXCEPT ![c] = Tail(@)]
  /\ UNCHANGED <<finC, finS, clienteVars, loopVars, figliVars, udpVars>>

figlio_invia(c) ==
  /\ figlio[c] = "invio" /\ inviati[c] < Byte[aperto[c]]
  /\ inviati' = [inviati EXCEPT ![c] = @ + 1]
  /\ Scrivi(c, "x")
  /\ UNCHANGED <<figlio, aperto, andata, finC, finS, clienteVars, loopVars, figliVars, udpVars>>

\* Mutant: an empty file has nothing to send, so no terminator either.
figlio_zero_se_serve(c) ==
  /\ figlio[c] = "invio" /\ inviati[c] = Byte[aperto[c]]
  /\ figlio' = [figlio EXCEPT ![c] = "read"]
  /\ IF inviati[c] > 0 THEN Scrivi(c, "0") ELSE UNCHANGED canale
  /\ UNCHANGED <<aperto, inviati, andata, finC, finS, clienteVars, loopVars, figliVars, udpVars>>

\* Mutant: the terminator goes out before the last byte of the file.
figlio_zero_anticipato(c) ==
  /\ figlio[c] = "invio" /\ inviati[c] + 1 >= Byte[aperto[c]]
  /\ figlio' = [figlio EXCEPT ![c] = "read"]
  /\ Scrivi(c, "0")
  /\ UNCHANGED <<aperto, inviati, andata, finC, finS, clienteVars, loopVars, figliVars, udpVars>>

\* End of the file: the zero byte, and back to read.
figlio_zero(c) ==
  /\ figlio[c] = "invio" /\ inviati[c] = Byte[aperto[c]]
  /\ figlio' = [figlio EXCEPT ![c] = "read"]
  /\ Scrivi(c, "0")
  /\ UNCHANGED <<aperto, inviati, andata, finC, finS, clienteVars, loopVars, figliVars, udpVars>>

\* Mutant: the child breaks out of its loop and closes, but does not exit.
figlio_termina_senza_exit(c) ==
  /\ figlio[c] = "read" /\ andata[c] = <<>> /\ c \in finC
  /\ figlio' = [figlio EXCEPT ![c] = "finito"]
  /\ finS' = finS \cup {c}
  /\ UNCHANGED <<aperto, inviati, andata, canale, finC, clienteVars, loopVars, figliVars, udpVars>>

\* read returns 0: close and exit(0).
figlio_termina(c) ==
  /\ figlio[c] = "read" /\ andata[c] = <<>> /\ c \in finC
  /\ figlio' = [figlio EXCEPT ![c] = "finito"]
  /\ finS' = finS \cup {c}
  /\ exit(c)
  /\ UNCHANGED <<aperto, inviati, andata, canale, finC, clienteVars, loopVars, udpVars>>

Figlio(c) == figlio_apre(c) \/ figlio_invia(c) \/ figlio_zero(c) \/ figlio_termina(c)

-----------------------------------------------------------------------------
(* stream_client2. *)

\* connect, once; refused, exit(4).
cliente_connect(c) ==
  /\ fase[c] = "avvio"
  /\ IF pc = "morto"
       THEN fase' = [fase EXCEPT ![c] = "fine"] /\ UNCHANGED coda
       ELSE /\ Len(coda) < Backlog
            /\ fase' = [fase EXCEPT ![c] = "menu"]
            /\ coda' = Append(coda, c)
  /\ UNCHANGED <<numero, ok, chiesto, ricevuti, detto, pc, pronti, aperti, limiteFd, reteVars, figlioVars, figliVars, udpVars>>

\* Shutdown of both sides, close, exit(0): the name the user did not type.
Chiudi(c) ==
  /\ fase' = [fase EXCEPT ![c] = "fine"]
  /\ finC' = finC \cup {c}

cliente_esce(c) ==
  /\ fase[c] = "menu"
  /\ Chiudi(c)
  /\ UNCHANGED <<numero, ok, chiesto, ricevuti, detto, andata, canale, finS, figlioVars, loopVars, figliVars, udpVars>>

\* A name is written; on a connection already ended the write kills the client.
cliente_chiede(c) ==
  /\ fase[c] = "menu" /\ numero[c] < MaxRichieste[c]
  /\ IF c \in finS /\ numero[c] > 0
       THEN Chiudi(c) /\ UNCHANGED <<numero, chiesto, ricevuti, andata>>
       ELSE /\ numero' = [numero EXCEPT ![c] = @ + 1]
            /\ ricevuti' = [ricevuti EXCEPT ![c] = 0]
            /\ \E n \in Nomi : /\ chiesto' = [chiesto EXCEPT ![c] = n]
                               /\ andata' = [andata EXCEPT ![c] = Append(@, n)]
            /\ fase' = [fase EXCEPT ![c] = "esito"]
            /\ UNCHANGED finC
  /\ UNCHANGED <<ok, detto, canale, finS, figlioVars, loopVars, figliVars, udpVars>>

Annota(c, e) ==
  detto' = detto \cup {[client |-> c, n |-> numero[c], nome |-> chiesto[c],
                       esito |-> e, byte |-> ricevuti[c]]}

Consuma(c, x) ==
  /\ canale[c] # <<>> /\ x = Head(canale[c])
  /\ canale' = [canale EXCEPT ![c] = Tail(@)]
  /\ UNCHANGED <<andata, finC, finS>>

\* read returns 0.
FineConnessione(c) == canale[c] = <<>> /\ c \in finS /\ UNCHANGED reteVars

\* What ok holds when no read has assigned it: the status of an earlier
\* request, or anything.
Vecchio(c) == IF ok[c] = "ignoto" THEN {"S", "N", "altro"} ELSE {ok[c]}

\* What the client does with the status byte o.
Stato(c, o) ==
  /\ ok' = [ok EXCEPT ![c] = o]
  /\ fase' = [fase EXCEPT ![c] = IF o = "S" THEN "file" ELSE "menu"]
  /\ IF o = "S" THEN UNCHANGED detto
                ELSE Annota(c, IF o = "N" THEN "inesistente" ELSE "protocollo")
  /\ UNCHANGED <<numero, chiesto, ricevuti>>

\* read of the status: a byte; 0, after which ok is the old one; or an error,
\* which ends the client.
cliente_esito(c) ==
  /\ fase[c] = "esito"
  /\ \/ \E o \in {"S", "N", "x", "0"} : Consuma(c, o) /\ Stato(c, o)
     \/ FineConnessione(c) /\ \E o \in Vecchio(c) : Stato(c, o)
     \/ /\ canale[c] = <<"RST">> \/ FineConnessione(c)
        /\ Chiudi(c)
        /\ UNCHANGED <<numero, ok, chiesto, ricevuti, detto, andata, canale, finS>>
  /\ UNCHANGED <<figlioVars, loopVars, figliVars, udpVars>>

\* The file, byte by byte until the zero; a read of 0 ends it as well.
cliente_file(c) ==
  /\ fase[c] = "file"
  /\ \/ /\ Consuma(c, "x")
        /\ ricevuti' = [ricevuti EXCEPT ![c] = @ + 1]
        /\ UNCHANGED <<fase, detto>>
     \/ /\ Consuma(c, "0") \/ FineConnessione(c)
        /\ fase' = [fase EXCEPT ![c] = "menu"]
        /\ Annota(c, "file")
        /\ UNCHANGED ricevuti
  /\ UNCHANGED <<numero, ok, chiesto, figlioVars, loopVars, figliVars, udpVars>>

Cliente(c) == cliente_connect(c) \/ cliente_esce(c) \/ cliente_chiede(c)
                \/ cliente_esito(c) \/ cliente_file(c)

Next ==
  \/ Padre
  \/ Gestore
  \/ \E c \in ClientS : Figlio(c) \/ Cliente(c)
  \/ ClienteU /\ UNCHANGED <<loopVars, figliVars, clienteVars, reteVars, figlioVars>>

Spec == Init /\ [][Next]_vars

\* Processes that can run are scheduled; users may stop typing.
FairSpec ==
  /\ Spec
  /\ WF_vars(Padre) /\ WF_vars(Gestore)
  /\ \A c \in ClientS : WF_vars(Figlio(c)) /\ WF_vars(cliente_esito(c) \/ cliente_file(c))

-----------------------------------------------------------------------------
(* Properties. *)

\* Types of every variable; the processes running are the children at work.
TypeOK ==
  /\ LoopTypeOK(ClientS)
  /\ vivi = {c \in ClientS : figlio[c] \in {"read", "invio"}}
  /\ fase \in [ClientS -> {"avvio", "menu", "esito", "file", "fine"}]
  /\ \A c \in ClientS : numero[c] \in 0 .. MaxRichieste[c]
  /\ ok \in [ClientS -> {"S", "N", "altro", "ignoto"}]
  /\ chiesto \in [ClientS -> Nomi \cup {""}] /\ aperto \in [ClientS -> Esistenti \cup {""}]
  /\ ricevuti \in [ClientS -> Nat] /\ inviati \in [ClientS -> Nat]
  /\ andata \in [ClientS -> Seq(Nomi)]
  /\ canale \in [ClientS -> Seq({"S", "N", "x", "0", "RST"})]
  /\ finC \subseteq ClientS /\ finS \subseteq ClientS
  /\ figlio \in [ClientS -> {"nessuno", "read", "invio", "finito"}]

\* Request and answer stay aligned over the whole connection of a client that
\* has a child: every answer is the one of the name just asked, complete, and no
\* byte of one file is taken for the status of the next ("controllare sempre
\* che il protocollo sia rispettato" in stream_client2).
RisposteAllineate ==
  \A d \in detto : figlio[d.client] # "nessuno" =>
    /\ d.esito = "inesistente" => d.nome \notin Esistenti
    /\ d.esito = "file" => d.nome \in Esistenti /\ d.byte = Byte[d.nome]
    /\ d.esito # "protocollo"

\* Every request comes to an end, with its answer or with the client's exit,
\* also when fork failed and nobody will ever answer.
RichiestaServita ==
  \A c \in ClientS : fase[c] \in {"esito", "file"} ~> fase[c] \in {"menu", "fine"}

\* A question that has reached a server that stays alive is taken up, whatever
\* the stream clients do: a child that waits for its user never holds the server.
DomandaServita ==
  \A u \in ClientU : (\E q \in posta : q.client = u)
                        ~> pc = "morto" \/ ~ \E q \in posta : q.client = u

\* One free descriptor is enough for any number of clients: what accept opens
\* the server gives back, and it never reaches its exit(9).
ServerVivo == limiteFd > 0 => pc # "morto"
=============================================================================
