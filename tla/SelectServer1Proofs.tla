------------------------- MODULE SelectServer1Proofs -------------------------
(***************************************************************************)
(* Proofs about SelectServer1 for every set of clients, every set of files *)
(* of any number of blocks, every backlog and every limit of descriptors.  *)
(*                                                                         *)
(* A connection belongs to one request.  RispostaFedele speaks of requests *)
(* already shown; what makes it hold is, for the request in progress, that *)
(* the blocks the child has written are those the client has read and      *)
(* those in flight (Allineata), and that a request not yet made has left   *)
(* no trace (Futura).                                                      *)
(***************************************************************************)
EXTENDS SelectServer1, SelectLoopProofs

\* What TypeOK leaves out and the steps need.
TipiInv ==
  /\ \A k \in Connessioni : figlio[k] \in {"nessuno", "read"} => inviati[k] = 0
  /\ \A k \in Connessioni : figlio[k] = "nessuno" => canale[k] = <<>> \/ canale[k] = <<"RST">>
  /\ \A d \in detto : d.conn \in Connessioni

\* A request in the backlog is the one its client is waiting for.
CodaInv ==
  /\ CodaSemplice
  /\ \A k \in Connessioni :
       /\ InCoda(k) => /\ fase[k[1]] = "esito" /\ k = Corrente(k[1])
                       /\ figlio[k] = "nessuno" /\ canale[k] = <<>> /\ k \notin chiuso
                       /\ k \notin aperti
       /\ k \in zombie => figlio[k] = "finito"

\* A request not made yet.
Futura(k) ==
  /\ figlio[k] = "nessuno" /\ canale[k] = <<>> /\ k \notin chiuso /\ k \notin aperti
  /\ \A d \in detto : d.conn # k

FutureInv == \A c \in ClientS : \A n \in 1 .. MaxRichieste : n > numero[c] => Futura(<<c, n>>)

\* Nothing is written before the child opens the file.
DaAprire(k) == figlio[k] = "read" /\ canale[k] = <<>> /\ k \notin chiuso

\* The answer is "N".
Negata(k) ==
  /\ canale[k] = <<"N">> /\ nome[k] \notin Esistenti
  /\ \/ figlio[k] = "chiude" /\ k \notin chiuso
     \/ figlio[k] = "finito" /\ k \in chiuso

\* The answer is the file: r blocks are read, p is 1 until the status byte is.
InArrivo(k, r, p) ==
  /\ nome[k] \in Esistenti
  /\ inviati[k] - r \in Nat /\ inviati[k] <= Blocchi[nome[k]]
  /\ p = 1 => canale[k][1] = "S"
  /\ Flusso(canale[k], p, inviati[k] - r, "blocco", 0)
  /\ \/ figlio[k] = "invio" /\ k \notin chiuso
     \/ figlio[k] = "finito" /\ k \in chiuso /\ inviati[k] = Blocchi[nome[k]]

\* The request in progress of client c, when it has a child.
Allineata(c) ==
  LET k == Corrente(c) IN
    /\ fase[c] = "esito" =>
         /\ ricevuti[c] = 0
         /\ figlio[k] # "nessuno" => DaAprire(k) \/ Negata(k) \/ InArrivo(k, 0, 1)
    /\ fase[c] = "file" /\ figlio[k] # "nessuno" => InArrivo(k, ricevuti[c], 0)

\* A client that waits has made a request.
FasiInv ==
  \A c \in ClientS : fase[c] \in {"esito", "file"} => numero[c] \in 1 .. MaxRichieste

AllineataInv == \A c \in ClientS : Allineata(c)

\* What RispostaFedele says of one answer.
Fedele(d) ==
  /\ d.esito = "inesistente" => d.nome \notin Esistenti
  /\ d.esito = "file" => d.nome \in Esistenti /\ d.blocchi = Blocchi[d.nome]

DettoInv ==
  \A d \in detto : /\ ~InCoda(d.conn)
                   /\ figlio[d.conn] # "nessuno" => Fedele(d)

Inv == /\ TypeOK /\ FigliInv /\ TipiInv /\ CodaInv /\ FutureInv /\ FasiInv
       /\ AllineataInv /\ DettoInv
-----------------------------------------------------------------------------
(* Types. *)

Voci == {"S", "N", "blocco", "RST"}

TipiCliente ==
  /\ fase \in [ClientS -> {"menu", "esito", "file", "fine"}]
  /\ numero \in [ClientS -> 0 .. MaxRichieste]
  /\ ok \in [ClientS -> {"S", "N", "altro", "ignoto"}]
  /\ ricevuti \in [ClientS -> Nat]
  /\ nome \in [Connessioni -> Nomi]

TipiRete == canale \in [Connessioni -> Seq(Voci)] /\ chiuso \subseteq Connessioni

TipiFiglio ==
  /\ vivi = {k \in Connessioni : figlio[k] \in {"read", "invio", "chiude"}}
  /\ figlio \in [Connessioni -> {"nessuno", "read", "invio", "chiude", "finito"}]
  /\ inviati \in [Connessioni -> Nat]

TipiParti == /\ FigliTypeOK(Connessioni) /\ CicloTipato(Connessioni) /\ DatagrammiTipati
             /\ TipiCliente /\ TipiRete /\ TipiFiglio

LEMMA TipiDivisi == (TypeOK <=> TipiParti) /\ (TypeOK' <=> TipiParti')
BY DEF TypeOK, TipiParti, LoopTypeOK, CicloTipato, DatagrammiTipati, TipiCliente, TipiRete,
   TipiFiglio, Voci

LEMMA TipiInit == Init => TypeOK /\ FigliInv
<1> SUFFICES ASSUME Init PROVE TypeOK /\ FigliInv
  OBVIOUS
<1>1. LoopInit /\ FigliInit
  BY DEF Init, LoopInit
<1>2. /\ FigliTypeOK(Connessioni) /\ FigliInv /\ CicloTipato(Connessioni) /\ DatagrammiTipati
  BY <1>1, FigliInitInv, LoopInitTipato
<1>3. TipiCliente
  <2>1. /\ fase \in [ClientS -> {"menu", "esito", "file", "fine"}]
        /\ ok \in [ClientS -> {"S", "N", "altro", "ignoto"}]
    BY DEF Init
  <2>2. ricevuti \in [ClientS -> Nat]
    BY DEF Init
  <2>3. numero \in [ClientS -> 0 .. MaxRichieste]
    BY Server1Assumption DEF Init
  <2>4. (CHOOSE n \in Nomi : TRUE) \in Nomi
    BY Server1Assumption
  <2>5. nome \in [Connessioni -> Nomi]
    BY <2>4 DEF Init
  <2> QED
    BY <2>1, <2>2, <2>3, <2>5 DEF TipiCliente
<1>4. TipiRete
  <2>1. <<>> \in Seq(Voci)
    OBVIOUS
  <2> QED
    BY <2>1 DEF Init, TipiRete
<1>5. TipiFiglio
  BY <1>1 DEF Init, TipiFiglio, FigliInit
<1> QED
  BY <1>2, <1>3, <1>4, <1>5, TipiDivisi DEF TipiParti

LEMMA ClienteFermo == ASSUME TipiCliente, UNCHANGED clienteVars PROVE TipiCliente'
BY DEF TipiCliente, clienteVars

LEMMA ReteFerma == ASSUME TipiRete, UNCHANGED reteVars PROVE TipiRete'
BY DEF TipiRete, reteVars

LEMMA FiglioFermo == ASSUME TipiFiglio, UNCHANGED <<figlioVars, vivi>> PROVE TipiFiglio'
BY DEF TipiFiglio, figlioVars

LEMMA UdpFermo == ASSUME DatagrammiTipati, UNCHANGED udpVars PROVE DatagrammiTipati'
BY DEF DatagrammiTipati, udpVars

\* The steps of the father and of its handler.
LEMMA TipiPadre ==
  ASSUME TypeOK, FigliInv, CodaInv, Padre \/ Gestore PROVE TypeOK' /\ FigliInv'
<1>0. /\ FigliTypeOK(Connessioni) /\ CicloTipato(Connessioni) /\ DatagrammiTipati
      /\ TipiCliente /\ TipiRete /\ TipiFiglio
  BY TipiDivisi DEF TipiParti
<1>1. CASE select /\ UNCHANGED <<clienteVars, reteVars, figlioVars>>
  <2>1. UNCHANGED <<figliVars, udpVars>> /\ UNCHANGED vivi
    BY <1>1 DEF select, figliVars
  <2> QED
    BY <1>0, <1>1, <2>1, TipiDivisi, FigliFermi, SelectTipato, ClienteFermo, ReteFerma,
       FiglioFermo, UdpFermo DEF TipiParti
<1>2. ASSUME NEW k \in Connessioni, padre_accept(k) PROVE TypeOK' /\ FigliInv'
  <2>1. InCoda(k) /\ coda' \in Seq(Connessioni)
    BY <1>0, <1>2, AccettaCoda DEF padre_accept, CodaInv
  <2>2. k \notin zombie /\ figlio[k] = "nessuno"
    BY <2>1 DEF CodaInv
  <2>3. FigliTypeOK(Connessioni)' /\ FigliInv'
    BY <1>0, <1>2, <2>2, ForkInv DEF padre_accept
  <2>4. CicloTipato(Connessioni)'
    BY <1>0, <1>2, <2>1, DopoTcpTipato DEF padre_accept, accept, CicloTipato
  <2>5. TipiFiglio'
    BY <1>0, <1>2 DEF padre_accept, fork, TipiFiglio
  <2> QED
    BY <1>0, <1>2, <2>3, <2>4, <2>5, TipiDivisi, ClienteFermo, ReteFerma, UdpFermo
       DEF TipiParti, padre_accept, accept
<1>3. ASSUME NEW k \in Connessioni, padre_fork_fallita(k) PROVE TypeOK' /\ FigliInv'
  <2>1. coda' \in Seq(Connessioni)
    BY <1>0, <1>3, AccettaCoda DEF padre_fork_fallita, CodaInv
  <2>2. CicloTipato(Connessioni)'
    BY <1>0, <1>3, <2>1, DopoTcpTipato DEF padre_fork_fallita, accept, CicloTipato
  <2>3. UNCHANGED <<figliVars, udpVars, clienteVars, reteVars, figlioVars>> /\ UNCHANGED vivi
    BY <1>3 DEF padre_fork_fallita, accept, figliVars
  <2> QED
    BY <1>0, <2>2, <2>3, TipiDivisi, FigliFermi, ClienteFermo, ReteFerma, FiglioFermo, UdpFermo
       DEF TipiParti
<1>4. CASE padre_exit
  <2>1. CicloTipato(Connessioni)'
    BY <1>0, <1>4, AccettaFallitaTipato DEF padre_exit
  <2>2. TipiRete'
    <3>1. chiuso' = chiuso \cup {k \in aperti : figlio[k] = "nessuno"}
      BY <1>4 DEF padre_exit
    <3>2. canale' = [k \in Connessioni |->
                       IF \E i \in DOMAIN coda : coda[i] = k THEN <<"RST">> ELSE canale[k]]
      BY <1>4 DEF padre_exit
    <3>3. <<"RST">> \in Seq(Voci) /\ \A k \in Connessioni : canale[k] \in Seq(Voci)
      BY <1>0 DEF TipiRete, Voci
    <3>4. canale' \in [Connessioni -> Seq(Voci)]
      BY <3>2, <3>3
    <3>5. chiuso' \subseteq Connessioni
      BY <1>0, <3>1 DEF TipiRete, CicloTipato
    <3> QED
      BY <3>4, <3>5 DEF TipiRete
  <2>3. UNCHANGED <<figliVars, udpVars, clienteVars, figlioVars>> /\ UNCHANGED vivi
    BY <1>4 DEF padre_exit, accept_fallita, figliVars
  <2> QED
    BY <1>0, <2>1, <2>2, <2>3, TipiDivisi, FigliFermi, ClienteFermo, FiglioFermo, UdpFermo
       DEF TipiParti
<1>5. CASE padre_conteggio
  <2>1. PICK num \in Conteggi, ris \in Conteggi : recvfrom_sendto(ris, num)
    BY <1>5 DEF padre_conteggio
  <2>2. CicloTipato(Connessioni)' /\ DatagrammiTipati'
    BY <1>0, <2>1, RecvfromTipato DEF recvfrom_sendto, DatagrammiTipati
  <2>3. UNCHANGED <<figliVars, clienteVars, reteVars, figlioVars>> /\ UNCHANGED vivi
    BY <1>5, <2>1 DEF padre_conteggio, recvfrom_sendto, figliVars
  <2> QED
    BY <1>0, <2>2, <2>3, TipiDivisi, FigliFermi, ClienteFermo, ReteFerma, FiglioFermo DEF TipiParti
<1>6. CASE Gestore
  <2>1. UNCHANGED <<loopVars, udpVars, clienteVars, reteVars, figlioVars>> /\ UNCHANGED vivi
    BY <1>6 DEF Gestore, SIGCHLD, gestore
  <2>2. FigliTypeOK(Connessioni)' /\ FigliInv'
    BY <1>0, <1>6, GestoreInv DEF Gestore
  <2> QED
    BY <1>0, <2>1, <2>2, TipiDivisi, CicloFermo, ClienteFermo, ReteFerma, FiglioFermo, UdpFermo
       DEF TipiParti
<1> QED
  BY <1>1, <1>2, <1>3, <1>4, <1>5, <1>6 DEF Padre

\* What the step of a child leaves alone, and how its own state moves.
LEMMA FiglioLascia ==
  ASSUME NEW k \in Connessioni, Figlio(k)
  PROVE  /\ UNCHANGED <<coda, aperti, pc, fase, ricevuti, detto, numero, nome>>
         /\ UNCHANGED <<clienteVars, loopVars, udpVars>>
         /\ figlio[k] \in {"read", "invio", "chiude"}
BY DEF Figlio, figlio_apre, figlio_invia, figlio_termina, loopVars, clienteVars

LEMMA FiglioMuove ==
  ASSUME TypeOK, NEW k \in Connessioni, Figlio(k)
  PROVE  \/ /\ \E f \in {"invio", "chiude"} : figlio' = [figlio EXCEPT ![k] = f]
            /\ UNCHANGED figliVars /\ zombie' = zombie /\ vivi' = vivi /\ chiuso' = chiuso
         \/ /\ figlio' = [figlio EXCEPT ![k] = "finito"] /\ exit(k) /\ zombie' = zombie \cup {k}
            /\ chiuso' = chiuso \cup {k} /\ vivi' = vivi \ {k}
<1>0. figlio \in [Connessioni -> {"nessuno", "read", "invio", "chiude", "finito"}]
  BY DEF TypeOK
<1>1. CASE figlio_apre(k)
  BY <1>1 DEF figlio_apre, figliVars
<1>2. CASE figlio_invia(k)
  <2>1. figlio' = figlio /\ figlio[k] = "invio" /\ UNCHANGED figliVars /\ chiuso' = chiuso
    BY <1>2 DEF figlio_invia
  <2>2. figlio' = [figlio EXCEPT ![k] = "invio"]
    BY <1>0, <2>1
  <2> QED
    BY <2>1, <2>2 DEF figliVars
<1>3. CASE figlio_termina(k)
  BY <1>3 DEF figlio_termina, exit
<1> QED
  BY <1>1, <1>2, <1>3 DEF Figlio

LEMMA TipiFiglioStep ==
  ASSUME TypeOK, FigliInv, NEW k \in Connessioni, Figlio(k) PROVE TypeOK' /\ FigliInv'
<1>0. /\ FigliTypeOK(Connessioni) /\ CicloTipato(Connessioni) /\ DatagrammiTipati
      /\ TipiCliente /\ TipiRete /\ TipiFiglio
  BY TipiDivisi DEF TipiParti
<1>1. FigliTypeOK(Connessioni)' /\ FigliInv'
  BY <1>0, FiglioMuove, FigliFermi, ExitInv
<1>2. TipiFiglio'
  <2>1. figlio' \in [Connessioni -> {"nessuno", "read", "invio", "chiude", "finito"}]
    BY <1>0, FiglioMuove DEF TipiFiglio
  <2>2. inviati' = inviati \/ inviati' = [inviati EXCEPT ![k] = @ + 1]
    BY DEF Figlio, figlio_apre, figlio_invia, figlio_termina
  <2>3. inviati \in [Connessioni -> Nat]
    BY <1>0 DEF TipiFiglio
  <2>4. inviati' \in [Connessioni -> Nat]
    BY <2>2, <2>3
  <2>5. vivi' = {h \in Connessioni : figlio'[h] \in {"read", "invio", "chiude"}}
    BY <1>0, FiglioMuove, FiglioLascia DEF TipiFiglio
  <2> QED
    BY <2>1, <2>4, <2>5 DEF TipiFiglio
<1>3. TipiRete'
  <2>1. canale[k] \in Seq(Voci) /\ {"S", "N", "blocco"} \subseteq Voci
    BY <1>0 DEF TipiRete, Voci
  <2>2. \A x \in {"S", "N", "blocco"} : Append(canale[k], x) \in Seq(Voci)
    BY <2>1
  <2>3. canale' = canale \/ \E x \in {"S", "N", "blocco"} : canale' = [canale EXCEPT ![k] = Append(@, x)]
    BY DEF Figlio, figlio_apre, figlio_invia, figlio_termina
  <2>4. canale' \in [Connessioni -> Seq(Voci)]
    BY <1>0, <2>2, <2>3 DEF TipiRete
  <2>5. chiuso' \subseteq Connessioni
    BY <1>0, FiglioMuove DEF TipiRete
  <2> QED
    BY <2>4, <2>5 DEF TipiRete
<1> QED
  BY <1>0, <1>1, <1>2, <1>3, TipiDivisi, FiglioLascia, CicloFermo, ClienteFermo, UdpFermo DEF TipiParti

\* What the steps of a client leave alone.
LEMMA ClienteLascia ==
  ASSUME NEW c \in ClientS, Cliente(c)
  PROVE  /\ UNCHANGED <<figlioVars, figliVars, udpVars>> /\ UNCHANGED <<figlio, inviati>>
         /\ UNCHANGED <<pc, pronti, aperti, limiteFd, chiuso, vivi, zombie>>
<1>1. CASE cliente_chiede(c)
  BY <1>1 DEF cliente_chiede, reteVars, figliVars, figlioVars
<1>2. CASE cliente_rifiutato(c)
  BY <1>2 DEF cliente_rifiutato, reteVars, loopVars, figliVars, figlioVars
<1>3. CASE cliente_esito(c)
  BY <1>3 DEF cliente_esito, Consuma, FineConnessione, reteVars, loopVars, figliVars, figlioVars
<1>4. CASE cliente_file(c)
  BY <1>4 DEF cliente_file, Consuma, FineConnessione, reteVars, loopVars, figliVars, figlioVars
<1> QED
  BY <1>1, <1>2, <1>3, <1>4 DEF Cliente

\* How a client that is not making a request moves.
LEMMA ClienteMuove ==
  ASSUME TypeOK, NEW c \in ClientS, cliente_rifiutato(c) \/ cliente_esito(c) \/ cliente_file(c)
  PROVE  /\ UNCHANGED <<coda, numero, nome>>
         /\ fase' = fase \/ \E f \in {"menu", "file", "fine"} : fase' = [fase EXCEPT ![c] = f]
         /\ fase' = fase => fase[c] \in {"menu", "file"}
         /\ \/ fase[c] = "menu" /\ UNCHANGED <<canale, ricevuti, detto, ok>>
            \/ fase[c] \in {"esito", "file"} /\ FineConnessione(c) /\ canale' = canale
            \/ fase[c] \in {"esito", "file"} /\ \E x \in Voci : Consuma(c, x)
<1>0. c \in DOMAIN fase
  BY DEF TypeOK
<1>1. CASE cliente_rifiutato(c)
  BY <1>1 DEF cliente_rifiutato, reteVars, loopVars
<1>2. CASE cliente_esito(c)
  <2>1. CASE \E o \in {"S", "N"} : Consuma(c, o) /\ Stato(c, o)
    BY <1>0, <1>2, <2>1 DEF cliente_esito, Stato, loopVars, Voci
  <2>2. CASE FineConnessione(c) /\ \E o \in Vecchio(c) : Stato(c, o)
    BY <1>0, <1>2, <2>2 DEF cliente_esito, Stato, loopVars, FineConnessione, reteVars
  <2>3. CASE Consuma(c, "RST") /\ fase' = [fase EXCEPT ![c] = "menu"] /\ UNCHANGED <<numero, nome>>
    BY <1>0, <1>2, <2>3 DEF cliente_esito, loopVars, Voci
  <2> QED
    BY <1>2, <2>1, <2>2, <2>3 DEF cliente_esito
<1>3. CASE cliente_file(c)
  BY <1>0, <1>3 DEF cliente_file, FineConnessione, reteVars, loopVars, Voci
<1> QED
  BY <1>1, <1>2, <1>3

\* What the client reads belongs to a request it has made.
LEMMA CorrenteTipata ==
  ASSUME TypeOK, FasiInv, NEW c \in ClientS, fase[c] \in {"esito", "file"}
  PROVE  Corrente(c) \in Connessioni /\ Corrente(c)[1] = c
BY DEF FasiInv, Corrente, Connessioni

LEMMA ReteConsuma ==
  ASSUME TipiRete, NEW c \in ClientS, Corrente(c) \in Connessioni, NEW x, Consuma(c, x)
  PROVE  TipiRete' /\ canale[Corrente(c)] \in Seq(Voci)
<1> DEFINE k == Corrente(c)
<1>1. canale[k] \in Seq(Voci) /\ canale[k] # <<>>
  BY DEF TipiRete, Consuma
<1>2. Tail(canale[k]) \in Seq(Voci)
  BY <1>1
<1>3. canale' \in [Connessioni -> Seq(Voci)] /\ UNCHANGED chiuso
  BY <1>2 DEF TipiRete, Consuma
<1> QED
  BY <1>1, <1>3 DEF TipiRete

\* The request a client makes was not made before.
LEMMA ChiedeNuova ==
  ASSUME Inv, NEW c \in ClientS, cliente_chiede(c)
  PROVE  /\ <<c, numero[c] + 1>> \in Connessioni /\ Futura(<<c, numero[c] + 1>>)
         /\ ~InCoda(<<c, numero[c] + 1>>)
         /\ numero[c] \in Nat /\ numero[c] + 1 \in 1 .. MaxRichieste
<1> DEFINE k == <<c, numero[c] + 1>>
<1>1. numero[c] \in 0 .. MaxRichieste /\ numero[c] < MaxRichieste /\ fase[c] = "menu"
  BY DEF Inv, TypeOK, cliente_chiede
<1>2. numero[c] \in Nat /\ numero[c] + 1 \in 1 .. MaxRichieste /\ numero[c] + 1 > numero[c]
  BY <1>1, Server1Assumption
<1>3. k \in Connessioni
  BY <1>2 DEF Connessioni
<1>4. Futura(k)
  BY <1>2 DEF Inv, FutureInv
<1>5. k[1] = c
  OBVIOUS
<1>6. ~InCoda(k)
  BY <1>1, <1>3, <1>5 DEF Inv, CodaInv
<1> QED
  BY <1>2, <1>3, <1>4, <1>6

LEMMA TipiClienteStep ==
  ASSUME Inv, NEW c \in ClientS, Cliente(c) PROVE TypeOK' /\ FigliInv'
<1>0. /\ FigliTypeOK(Connessioni) /\ CicloTipato(Connessioni) /\ DatagrammiTipati
      /\ TipiCliente /\ TipiRete /\ TipiFiglio /\ FigliInv /\ TypeOK /\ FasiInv /\ CodaInv
  BY TipiDivisi DEF TipiParti, Inv
<1>1. /\ FigliTypeOK(Connessioni)' /\ FigliInv' /\ DatagrammiTipati' /\ TipiFiglio'
  BY <1>0, ClienteLascia, FigliFermi, UdpFermo, FiglioFermo
<1> SUFFICES CicloTipato(Connessioni)' /\ TipiCliente' /\ TipiRete'
  BY <1>1, TipiDivisi DEF TipiParti
<1>2. CASE cliente_chiede(c)
  <2> DEFINE k == <<c, numero[c] + 1>>
  <2>0. k \in Connessioni /\ numero[c] + 1 \in 1 .. MaxRichieste /\ numero[c] \in Nat
    BY <1>2, ChiedeNuova
  <2>1. coda \in Seq(Connessioni) /\ coda' = Append(coda, k)
    BY <1>0, <1>2 DEF CicloTipato, cliente_chiede
  <2>2. coda' \in Seq(Connessioni)
    BY <2>0, <2>1
  <2>3. CicloTipato(Connessioni)'
    BY <1>0, <2>2, ClienteLascia DEF CicloTipato
  <2>4. fase' \in [ClientS -> {"menu", "esito", "file", "fine"}]
    BY <1>0, <1>2 DEF cliente_chiede, TipiCliente
  <2>5. numero' \in [ClientS -> 0 .. MaxRichieste]
    <3>1. numero' = [numero EXCEPT ![c] = @ + 1] /\ numero \in [ClientS -> 0 .. MaxRichieste]
      BY <1>0, <1>2 DEF cliente_chiede, TipiCliente
    <3>2. numero[c] + 1 \in 0 .. MaxRichieste
      BY <2>0
    <3> QED
      BY <3>1, <3>2
  <2>6. ricevuti' \in [ClientS -> Nat]
    BY <1>0, <1>2 DEF cliente_chiede, TipiCliente
  <2>7. PICK n \in Nomi : nome' = [nome EXCEPT ![k] = n]
    BY <1>2 DEF cliente_chiede
  <2>8. nome' \in [Connessioni -> Nomi]
    BY <1>0, <2>7 DEF TipiCliente
  <2>9. ok' = ok /\ UNCHANGED reteVars
    BY <1>2 DEF cliente_chiede
  <2>10. TipiCliente'
    BY <1>0, <2>4, <2>5, <2>6, <2>8, <2>9 DEF TipiCliente
  <2> QED
    BY <1>0, <2>3, <2>9, <2>10, ReteFerma
<1>3. CASE cliente_rifiutato(c) \/ cliente_esito(c) \/ cliente_file(c)
  <2>1. CicloTipato(Connessioni)'
    BY <1>0, <1>3, ClienteLascia, ClienteMuove, CicloFermo DEF loopVars
  <2>2. TipiRete'
    BY <1>0, <1>3, ClienteLascia, ClienteMuove, CorrenteTipata, ReteConsuma, ReteFerma DEF reteVars
  <2>3. fase' \in [ClientS -> {"menu", "esito", "file", "fine"}]
    BY <1>0, <1>3, ClienteMuove DEF TipiCliente
  <2>4. ok' = ok \/ \E o \in {"S", "N", "altro"} : ok' = [ok EXCEPT ![c] = o]
    <3>1. Vecchio(c) \subseteq {"S", "N", "altro"}
      BY <1>0 DEF Vecchio, TipiCliente
    <3>2. ASSUME NEW o \in {"S", "N", "altro"}, Stato(c, o) PROVE \E q \in {"S", "N", "altro"} : ok' = [ok EXCEPT ![c] = q]
      BY <3>2 DEF Stato
    <3> QED
      BY <1>3, <3>1, <3>2 DEF cliente_rifiutato, cliente_esito, cliente_file
  <2>5. ok' \in [ClientS -> {"S", "N", "altro", "ignoto"}]
    BY <1>0, <2>4 DEF TipiCliente
  <2>6. ricevuti' = ricevuti \/ ricevuti' = [ricevuti EXCEPT ![c] = @ + 1]
    BY <1>3 DEF cliente_rifiutato, cliente_esito, cliente_file, Stato
  <2>7. ricevuti \in [ClientS -> Nat]
    BY <1>0 DEF TipiCliente
  <2>8. ricevuti' \in [ClientS -> Nat]
    BY <2>6, <2>7
  <2>9. UNCHANGED <<numero, nome>>
    BY <1>0, <1>3, ClienteMuove
  <2> QED
    BY <1>0, <2>1, <2>2, <2>3, <2>5, <2>8, <2>9 DEF TipiCliente
<1> QED
  BY <1>2, <1>3 DEF Cliente

LEMMA TypeStep == Inv /\ [Next]_vars => TypeOK' /\ FigliInv'
<1> SUFFICES ASSUME Inv, [Next]_vars PROVE TypeOK' /\ FigliInv'
  OBVIOUS
<1>0. TypeOK /\ FigliInv /\ TipiInv /\ CodaInv
  BY DEF Inv
<1>1. CASE Padre \/ Gestore
  BY <1>0, <1>1, TipiPadre
<1>2. ASSUME NEW k \in Connessioni, Figlio(k) PROVE TypeOK' /\ FigliInv'
  BY <1>0, <1>2, TipiFiglioStep
<1>3. ASSUME NEW c \in ClientS, Cliente(c) PROVE TypeOK' /\ FigliInv'
  BY <1>3, TipiClienteStep
<1>4. CASE (ClienteU /\ UNCHANGED <<loopVars, figliVars, clienteVars, reteVars, figlioVars>>) \/ UNCHANGED vars
  <2>1. /\ UNCHANGED vivi /\ UNCHANGED <<loopVars, figliVars, clienteVars, reteVars, figlioVars>>
        /\ ClienteU \/ UNCHANGED udpVars
    BY <1>4 DEF vars, figliVars
  <2>2. TipiParti
    BY <1>0, TipiDivisi
  <2>3. TipiParti' /\ FigliInv'
    BY <1>0, <2>1, <2>2, FigliFermi, CicloFermo, ClienteUTipato, UdpFermo, ClienteFermo, ReteFerma,
       FiglioFermo DEF TipiParti
  <2> QED
    BY <2>3, TipiDivisi
<1> QED
  BY <1>1, <1>2, <1>3, <1>4 DEF Next
-----------------------------------------------------------------------------
(* One connection, at a step of the father, of a child, of a client. *)

\* The father accepts k, or exits and leaves k without an answer, or leaves k alone.
Accettata(k) ==
  /\ InCoda(k) /\ ~InCoda(k)' /\ figlio'[k] = "read"
  /\ canale'[k] = canale[k] /\ (k \in chiuso' <=> k \in chiuso)

Abbandonata(k) ==
  /\ InCoda(k) \/ k \in aperti
  /\ ~InCoda(k)' /\ figlio[k] = "nessuno" /\ figlio'[k] = "nessuno"
  /\ canale'[k] = canale[k] \/ canale'[k] = <<"RST">>

Ferma(k) ==
  /\ figlio'[k] = figlio[k] /\ canale'[k] = canale[k] /\ (k \in chiuso' <=> k \in chiuso)

LEMMA PadreConnessione ==
  ASSUME TypeOK, CodaInv, Padre \/ Gestore
  PROVE  /\ UNCHANGED <<fase, numero, ok, ricevuti, nome, detto, inviati>>
         /\ CodaSemplice' /\ zombie' \subseteq zombie
         /\ \A k \in Connessioni :
              /\ InCoda(k)' => InCoda(k)
              /\ k \in aperti' => k \in aperti \/ (InCoda(k) /\ ~InCoda(k)')
              /\ k \in zombie => figlio'[k] = figlio[k]
              /\ Accettata(k) \/ Abbandonata(k) \/ Ferma(k)
<1> DEFINE Tesi == /\ UNCHANGED <<fase, numero, ok, ricevuti, nome, detto, inviati>>
                   /\ CodaSemplice' /\ zombie' \subseteq zombie
                   /\ \A k \in Connessioni :
                        /\ InCoda(k)' => InCoda(k)
                        /\ k \in aperti' => k \in aperti \/ (InCoda(k) /\ ~InCoda(k)')
                        /\ k \in zombie => figlio'[k] = figlio[k]
                        /\ Accettata(k) \/ Abbandonata(k) \/ Ferma(k)
<1> SUFFICES Tesi
  OBVIOUS
<1>0. /\ CicloTipato(Connessioni) /\ CodaSemplice
      /\ figlio \in [Connessioni -> {"nessuno", "read", "invio", "chiude", "finito"}]
  BY TipiDivisi DEF TipiParti, TipiFiglio, CodaInv
<1>1. ASSUME coda' = coda, aperti' = aperti, zombie' \subseteq zombie,
             UNCHANGED <<clienteVars, reteVars, figlioVars>>
      PROVE  Tesi
  <2>1. UNCHANGED <<fase, numero, ok, ricevuti, nome, detto, inviati, canale, chiuso, figlio>>
    BY <1>1 DEF clienteVars, reteVars, figlioVars
  <2>2. CodaSemplice' /\ \A k : InCoda(k)' <=> InCoda(k)
    BY <1>0, <1>1, CodaFerma
  <2> QED
    BY <1>1, <2>1, <2>2 DEF Ferma
<1>2. ASSUME NEW k \in Connessioni, accept(k), aperti' = aperti \cup {k}, zombie' = zombie,
             UNCHANGED <<clienteVars, reteVars, inviati>>,
             figlio' = figlio \/ figlio' = [figlio EXCEPT ![k] = "read"]
      PROVE  Tesi
  <2>1. UNCHANGED <<fase, numero, ok, ricevuti, nome, detto, inviati, canale, chiuso>>
    BY <1>2 DEF clienteVars, reteVars
  <2>2. /\ InCoda(k) /\ ~InCoda(k)' /\ CodaSemplice'
        /\ \A h : h # k => (InCoda(h)' <=> InCoda(h))
    BY <1>0, <1>2, AccettaCoda
  <2>3. figlio[k] = "nessuno" /\ k \notin zombie
    BY <2>2 DEF CodaInv
  <2>4. ASSUME NEW h \in Connessioni
        PROVE  /\ InCoda(h)' => InCoda(h)
               /\ h \in aperti' => h \in aperti \/ (InCoda(h) /\ ~InCoda(h)')
               /\ h \in zombie => figlio'[h] = figlio[h]
               /\ Accettata(h) \/ Abbandonata(h) \/ Ferma(h)
    <3>1. CASE h = k
      <4>1. figlio'[k] = "read" \/ figlio'[k] = "nessuno"
        BY <1>0, <1>2, <2>3
      <4> QED
        BY <2>1, <2>2, <2>3, <3>1, <4>1 DEF Accettata, Abbandonata
    <3>2. CASE h # k
      <4>1. figlio'[h] = figlio[h]
        BY <1>0, <1>2, <3>2
      <4> QED
        BY <1>2, <2>1, <2>2, <3>2, <4>1 DEF Ferma
    <3> QED
      BY <3>1, <3>2
  <2> QED
    BY <1>2, <2>1, <2>2, <2>4
<1>3. CASE padre_exit
  <2>1. /\ UNCHANGED <<fase, numero, ok, ricevuti, nome, detto, inviati, figlio, zombie>>
        /\ aperti' = {} /\ coda' = <<>>
        /\ chiuso' = chiuso \cup {k \in aperti : figlio[k] = "nessuno"}
        /\ canale' = [k \in Connessioni |->
                        IF \E i \in DOMAIN coda : coda[i] = k THEN <<"RST">> ELSE canale[k]]
    BY <1>3 DEF padre_exit, accept_fallita, clienteVars, figlioVars, figliVars
  <2>2. CodaSemplice' /\ \A k : ~InCoda(k)'
    BY <2>1, CodaVuota
  <2>3. coda \in Seq(Connessioni)
    BY <1>0 DEF CicloTipato
  <2>4. ASSUME NEW k \in Connessioni
        PROVE  canale'[k] = IF InCoda(k) THEN <<"RST">> ELSE canale[k]
    BY <2>1, <2>3 DEF InCoda
  <2>5. ASSUME NEW k \in Connessioni PROVE Abbandonata(k) \/ Ferma(k)
    <3>1. CASE InCoda(k)
      BY <2>1, <2>2, <2>4, <3>1 DEF CodaInv, Abbandonata
    <3>2. CASE ~InCoda(k) /\ k \in aperti /\ figlio[k] = "nessuno"
      BY <2>1, <2>2, <2>4, <3>2 DEF Abbandonata
    <3>3. CASE ~InCoda(k) /\ ~(k \in aperti /\ figlio[k] = "nessuno")
      BY <2>1, <2>4, <3>3 DEF Ferma
    <3> QED
      BY <3>1, <3>2, <3>3
  <2> QED
    BY <2>1, <2>2, <2>5
<1>4. CASE select /\ UNCHANGED <<clienteVars, reteVars, figlioVars>>
  BY <1>1, <1>4 DEF select, figliVars
<1>5. ASSUME NEW k \in Connessioni, padre_accept(k) \/ padre_fork_fallita(k) PROVE Tesi
  <2>1. /\ accept(k) /\ aperti' = aperti \cup {k} /\ zombie' = zombie
        /\ UNCHANGED <<clienteVars, reteVars, inviati>>
        /\ figlio' = figlio \/ figlio' = [figlio EXCEPT ![k] = "read"]
    BY <1>5 DEF padre_accept, padre_fork_fallita, fork, figliVars, figlioVars
  <2> QED
    BY <1>2, <2>1
<1>6. CASE padre_conteggio
  BY <1>1, <1>6 DEF padre_conteggio, recvfrom_sendto, figliVars
<1>7. CASE Gestore
  BY <1>1, <1>7 DEF Gestore, loopVars, SIGCHLD, gestore
<1> HIDE DEF Tesi
<1> QED
  BY <1>3, <1>4, <1>5, <1>6, <1>7 DEF Padre

\* A child writes on its own connection only.
LEMMA FiglioConnessione ==
  ASSUME TypeOK, NEW k \in Connessioni, Figlio(k)
  PROVE  /\ figlio[k] # "nessuno" /\ figlio'[k] # "nessuno"
         /\ \A h \in Connessioni : h # k => Ferma(h) /\ inviati'[h] = inviati[h]
         /\ \A h \in Connessioni : figlio'[h] = "nessuno" <=> figlio[h] = "nessuno"
         /\ k \notin zombie /\ \A h \in zombie' : h \in zombie \/ (h = k /\ figlio'[k] = "finito")
<1>1. /\ figlio \in [Connessioni -> {"nessuno", "read", "invio", "chiude", "finito"}]
      /\ DOMAIN inviati = Connessioni /\ DOMAIN canale = Connessioni
      /\ vivi = {h \in Connessioni : figlio[h] \in {"read", "invio", "chiude"}}
      /\ vivi \cap zombie = {}
  BY DEF TypeOK, LoopTypeOK, FigliTypeOK
<1>2. /\ figlio[k] \in {"read", "invio", "chiude"} /\ k \notin zombie
  BY <1>1, FiglioLascia
<1>3. inviati' = inviati \/ inviati' = [inviati EXCEPT ![k] = @ + 1]
  BY DEF Figlio, figlio_apre, figlio_invia, figlio_termina
<1>4. canale' = canale \/ \E q : canale' = [canale EXCEPT ![k] = q]
  BY DEF Figlio, figlio_apre, figlio_invia, figlio_termina
<1>5. \A h \in Connessioni : h # k => inviati'[h] = inviati[h] /\ canale'[h] = canale[h]
  BY <1>1, <1>3, <1>4
<1>6. /\ figlio'[k] # "nessuno" /\ \A h \in Connessioni : h # k => figlio'[h] = figlio[h]
      /\ \A h \in zombie' : h \in zombie \/ (h = k /\ figlio'[k] = "finito")
      /\ \A h \in Connessioni : h # k => (h \in chiuso' <=> h \in chiuso)
  BY <1>1, FiglioMuove
<1> QED
  BY <1>2, <1>5, <1>6 DEF Ferma

\* The step of a client that is not making a request reads its own connection only.
LEMMA ClienteConnessione ==
  ASSUME Inv, NEW c \in ClientS, cliente_rifiutato(c) \/ cliente_esito(c) \/ cliente_file(c)
  PROVE  /\ \A k \in Connessioni : \/ canale'[k] = canale[k]
                                   \/ /\ k = Corrente(c) /\ canale[k] # <<>>
                                      /\ canale'[k] = Tail(canale[k])
         /\ ~InCoda(Corrente(c)) \/ (fase[c] = "menu" /\ UNCHANGED <<canale, detto>>)
<1>0. TypeOK /\ FasiInv /\ CodaInv /\ DOMAIN canale = Connessioni
  BY DEF Inv, TypeOK
<1>1. CASE fase[c] = "menu" /\ UNCHANGED <<canale, detto>>
  BY <1>1
<1>2. CASE fase[c] \in {"esito", "file"} /\ FineConnessione(c) /\ canale' = canale
  <2>1. Corrente(c) \in Connessioni /\ Corrente(c) \in chiuso
    BY <1>0, <1>2, CorrenteTipata DEF FineConnessione
  <2>2. ~InCoda(Corrente(c))
    BY <1>0, <2>1 DEF CodaInv
  <2> QED
    BY <1>2, <2>2
<1>3. ASSUME fase[c] \in {"esito", "file"}, NEW x, Consuma(c, x)
      PROVE  /\ \A k \in Connessioni : \/ canale'[k] = canale[k]
                                       \/ /\ k = Corrente(c) /\ canale[k] # <<>>
                                          /\ canale'[k] = Tail(canale[k])
             /\ ~InCoda(Corrente(c))
  <2>1. Corrente(c) \in Connessioni /\ canale[Corrente(c)] # <<>>
    BY <1>0, <1>3, CorrenteTipata DEF Consuma
  <2>2. ~InCoda(Corrente(c))
    BY <1>0, <2>1 DEF CodaInv
  <2>3. canale' = [canale EXCEPT ![Corrente(c)] = Tail(@)]
    BY <1>3 DEF Consuma
  <2> QED
    BY <1>0, <2>1, <2>2, <2>3
<1> QED
  BY <1>0, <1>1, <1>2, <1>3, ClienteMuove

\* The steps of the datagram clients, and those of no one.
LEMMA AltriFermi ==
  ASSUME (ClienteU /\ UNCHANGED <<loopVars, figliVars, clienteVars, reteVars, figlioVars>>) \/ UNCHANGED vars
  PROVE  /\ UNCHANGED <<coda, aperti, zombie, fase, numero, ok, ricevuti, nome, detto>>
         /\ UNCHANGED <<canale, chiuso, figlio, inviati>>
BY DEF vars, loopVars, figliVars, clienteVars, reteVars, figlioVars
-----------------------------------------------------------------------------
(* Backlog and phases. *)

LEMMA CodaStep == Inv /\ [Next]_vars => CodaInv'
<1> SUFFICES ASSUME Inv, [Next]_vars PROVE CodaInv'
  OBVIOUS
<1>0. TypeOK /\ CodaInv /\ FasiInv
  BY DEF Inv
<1>1. CASE Padre \/ Gestore
  <2>1. /\ UNCHANGED <<fase, numero>> /\ CodaSemplice' /\ zombie' \subseteq zombie
        /\ \A k \in Connessioni :
             /\ InCoda(k)' => InCoda(k)
             /\ k \in aperti' => k \in aperti \/ (InCoda(k) /\ ~InCoda(k)')
             /\ k \in zombie => figlio'[k] = figlio[k]
             /\ Accettata(k) \/ Abbandonata(k) \/ Ferma(k)
    BY <1>0, <1>1, PadreConnessione
  <2>2. ASSUME NEW k \in Connessioni, InCoda(k)'
        PROVE  /\ fase'[k[1]] = "esito" /\ k = Corrente(k[1])'
               /\ figlio'[k] = "nessuno" /\ canale'[k] = <<>> /\ k \notin chiuso'
               /\ k \notin aperti'
    <3>1. InCoda(k) /\ Ferma(k) /\ k \notin aperti'
      BY <1>0, <2>1, <2>2 DEF CodaInv, Accettata, Abbandonata
    <3>2. Corrente(k[1])' = Corrente(k[1])
      BY <2>1 DEF Corrente
    <3> QED
      BY <1>0, <2>1, <3>1, <3>2 DEF CodaInv, Ferma
  <2>3. \A k \in Connessioni : k \in zombie' => figlio'[k] = "finito"
    BY <1>0, <2>1 DEF CodaInv
  <2> QED
    BY <2>1, <2>2, <2>3 DEF CodaInv
<1>2. ASSUME NEW k \in Connessioni, Figlio(k) PROVE CodaInv'
  <2>1. UNCHANGED <<coda, aperti, fase, numero>>
    BY <1>2, FiglioLascia
  <2>2. CodaSemplice' /\ \A h : InCoda(h)' <=> InCoda(h)
    BY <1>0, <2>1, CodaFerma DEF CodaInv
  <2>3. ~InCoda(k)
    BY <1>0, <1>2, FiglioConnessione DEF CodaInv
  <2>4. \A h \in Connessioni : Corrente(h[1])' = Corrente(h[1])
    BY <2>1 DEF Corrente
  <2>5. ASSUME NEW h \in Connessioni, InCoda(h)'
        PROVE  /\ fase'[h[1]] = "esito" /\ h = Corrente(h[1])'
               /\ figlio'[h] = "nessuno" /\ canale'[h] = <<>> /\ h \notin chiuso'
               /\ h \notin aperti'
    <3>1. InCoda(h) /\ Ferma(h)
      BY <1>0, <1>2, <2>2, <2>3, <2>5, FiglioConnessione
    <3> QED
      BY <1>0, <2>1, <2>4, <3>1 DEF CodaInv, Ferma
  <2>6. \A h \in Connessioni : h \in zombie' => figlio'[h] = "finito"
    BY <1>0, <1>2, FiglioConnessione DEF CodaInv, Ferma
  <2> QED
    BY <2>2, <2>5, <2>6 DEF CodaInv
<1>3. ASSUME NEW c \in ClientS, cliente_chiede(c) PROVE CodaInv'
  <2>n. PICK n \in Connessioni : n = <<c, numero[c] + 1>>
    BY <1>3, ChiedeNuova
  <2>0. /\ Futura(n) /\ ~InCoda(n) /\ coda \in Seq(Connessioni)
        /\ DOMAIN fase = ClientS /\ DOMAIN numero = ClientS
    BY <1>0, <1>3, <2>n, ChiedeNuova DEF TypeOK, LoopTypeOK
  <2>1. /\ coda' = Append(coda, n) /\ UNCHANGED <<aperti, canale, chiuso, figlio, zombie>>
        /\ fase' = [fase EXCEPT ![c] = "esito"] /\ numero' = [numero EXCEPT ![c] = @ + 1]
        /\ fase[c] = "menu"
    BY <1>3, <2>n DEF cliente_chiede, reteVars, figlioVars, figliVars
  <2>2. InCoda(n)' /\ CodaSemplice' /\ \A h : h # n => (InCoda(h)' <=> InCoda(h))
    <3>1. CodaSemplice
      BY <1>0 DEF CodaInv
    <3>2. n \in Connessioni /\ ~InCoda(n) /\ coda \in Seq(Connessioni) /\ coda' = Append(coda, n)
      BY <2>0, <2>1
    <3> QED
      BY <3>1, <3>2, ConnettiCoda
  <2>3. ASSUME NEW h \in Connessioni, InCoda(h)'
        PROVE  /\ fase'[h[1]] = "esito" /\ h = Corrente(h[1])'
               /\ figlio'[h] = "nessuno" /\ canale'[h] = <<>> /\ h \notin chiuso'
               /\ h \notin aperti'
    <3>1. CASE h = n
      <4>1. h[1] = c /\ Corrente(c)' = n
        BY <2>n, <2>0, <2>1, <3>1 DEF Corrente
      <4> QED
        BY <2>0, <2>1, <3>1, <4>1 DEF Futura
    <3>2. CASE h # n
      <4>1. InCoda(h) /\ h[1] # c /\ h[1] \in ClientS
        BY <1>0, <2>1, <2>2, <2>3, <3>2 DEF CodaInv, Connessioni
      <4>2. Corrente(h[1])' = Corrente(h[1]) /\ fase'[h[1]] = fase[h[1]]
        BY <2>0, <2>1, <4>1 DEF Corrente
      <4> QED
        BY <1>0, <2>1, <4>1, <4>2 DEF CodaInv
    <3> QED
      BY <3>1, <3>2
  <2> QED
    BY <1>0, <2>1, <2>2, <2>3 DEF CodaInv
<1>4. ASSUME NEW c \in ClientS, cliente_rifiutato(c) \/ cliente_esito(c) \/ cliente_file(c)
      PROVE  CodaInv'
  <2>1. /\ UNCHANGED <<coda, numero, aperti, chiuso, figlio, zombie>>
        /\ fase' = fase \/ \E f \in {"menu", "file", "fine"} : fase' = [fase EXCEPT ![c] = f]
    BY <1>0, <1>4, ClienteLascia, ClienteMuove DEF Cliente
  <2>2. CodaSemplice' /\ \A h : InCoda(h)' <=> InCoda(h)
    BY <1>0, <2>1, CodaFerma DEF CodaInv
  <2>3. fase[c] # "esito" \/ ~InCoda(Corrente(c))
    BY <1>0, <1>4, ClienteConnessione, ClienteMuove DEF Inv
  <2>4. DOMAIN fase = ClientS
    BY <1>0 DEF TypeOK
  <2>5. ASSUME NEW h \in Connessioni, InCoda(h)'
        PROVE  /\ fase'[h[1]] = "esito" /\ h = Corrente(h[1])'
               /\ figlio'[h] = "nessuno" /\ canale'[h] = <<>> /\ h \notin chiuso'
               /\ h \notin aperti'
    <3>1. InCoda(h) /\ fase[h[1]] = "esito" /\ h = Corrente(h[1]) /\ canale[h] = <<>>
      BY <1>0, <2>2, <2>5 DEF CodaInv
    <3>2. h[1] # c /\ h[1] \in ClientS
      BY <2>3, <3>1 DEF Connessioni
    <3>3. fase'[h[1]] = fase[h[1]] /\ Corrente(h[1])' = Corrente(h[1])
      BY <2>1, <2>4, <3>2 DEF Corrente
    <3>4. canale'[h] = canale[h]
      BY <1>4, <3>1, ClienteConnessione
    <3> QED
      BY <1>0, <2>1, <3>1, <3>3, <3>4 DEF CodaInv
  <2> QED
    BY <1>0, <2>1, <2>2, <2>5 DEF CodaInv
<1>5. CASE (ClienteU /\ UNCHANGED <<loopVars, figliVars, clienteVars, reteVars, figlioVars>>) \/ UNCHANGED vars
  <2>1. UNCHANGED <<coda, aperti, zombie, fase, numero, canale, chiuso, figlio>>
    BY <1>5, AltriFermi
  <2> QED
    BY <1>0, <2>1 DEF CodaInv, CodaSemplice, InCoda, Corrente
<1> QED
  BY <1>1, <1>2, <1>3, <1>4, <1>5 DEF Next, Cliente

LEMMA FasiStep == Inv /\ [Next]_vars => FasiInv'
<1> SUFFICES ASSUME Inv, [Next]_vars PROVE FasiInv'
  OBVIOUS
<1>0. TypeOK /\ CodaInv /\ FasiInv /\ DOMAIN fase = ClientS /\ DOMAIN numero = ClientS
  BY DEF Inv, TypeOK
<1>1. ASSUME UNCHANGED <<fase, numero>> PROVE FasiInv'
  BY <1>0, <1>1 DEF FasiInv
<1>2. CASE Padre \/ Gestore
  BY <1>0, <1>1, <1>2, PadreConnessione
<1>3. ASSUME NEW k \in Connessioni, Figlio(k) PROVE FasiInv'
  BY <1>1, <1>3, FiglioLascia
<1>4. ASSUME NEW c \in ClientS, cliente_chiede(c) PROVE FasiInv'
  <2>1. fase' = [fase EXCEPT ![c] = "esito"] /\ numero' = [numero EXCEPT ![c] = @ + 1]
    BY <1>4 DEF cliente_chiede
  <2>2. numero[c] + 1 \in 1 .. MaxRichieste
    BY <1>4, ChiedeNuova
  <2>3. numero'[c] \in 1 .. MaxRichieste
    BY <1>0, <2>1, <2>2
  <2>4. \A d \in ClientS : d # c => fase'[d] = fase[d] /\ numero'[d] = numero[d]
    BY <1>0, <2>1
  <2> QED
    BY <1>0, <2>3, <2>4 DEF FasiInv
<1>5. ASSUME NEW c \in ClientS, cliente_rifiutato(c) \/ cliente_esito(c) \/ cliente_file(c)
      PROVE  FasiInv'
  <2>1. /\ numero' = numero
        /\ fase' = fase \/ \E f \in {"menu", "file", "fine"} : fase' = [fase EXCEPT ![c] = f]
    BY <1>0, <1>5, ClienteMuove
  <2>2. \A d \in ClientS : d # c => fase'[d] = fase[d]
    BY <1>0, <2>1
  <2>3. fase'[c] = "file" => fase[c] \in {"esito", "file"}
    BY <1>0, <1>5 DEF cliente_rifiutato, cliente_esito, cliente_file
  <2>4. fase'[c] # "esito" \/ fase[c] = "esito"
    BY <1>0, <2>1
  <2> QED
    BY <1>0, <2>1, <2>2, <2>3, <2>4 DEF FasiInv
<1>6. CASE (ClienteU /\ UNCHANGED <<loopVars, figliVars, clienteVars, reteVars, figlioVars>>) \/ UNCHANGED vars
  BY <1>1, <1>6, AltriFermi
<1> QED
  BY <1>2, <1>3, <1>4, <1>5, <1>6 DEF Next, Cliente
-----------------------------------------------------------------------------
(* What was shown, and the requests to come. *)

\* A client shows something only about its current request.
LEMMA DettoCliente ==
  ASSUME NEW c \in ClientS, Cliente(c)
  PROVE  \A d \in detto' : d \in detto \/ (d.conn = Corrente(c) /\ fase[c] \in {"esito", "file"})
<1>1. ASSUME NEW e, Annota(c, e) PROVE \A d \in detto' : d \in detto \/ d.conn = Corrente(c)
  BY <1>1 DEF Annota
<1>2. CASE cliente_chiede(c) \/ cliente_rifiutato(c)
  BY <1>2 DEF cliente_chiede, cliente_rifiutato
<1>3. CASE cliente_esito(c)
  BY <1>1, <1>3 DEF cliente_esito, Stato
<1>4. CASE cliente_file(c)
  BY <1>1, <1>4 DEF cliente_file
<1> QED
  BY <1>2, <1>3, <1>4 DEF Cliente

LEMMA FuturaFerma ==
  ASSUME NEW k \in Connessioni, Futura(k), Ferma(k), k \in aperti' => k \in aperti, detto' = detto
  PROVE  Futura(k)'
BY DEF Futura, Ferma

LEMMA FutureStep == Inv /\ [Next]_vars => FutureInv'
<1> SUFFICES ASSUME Inv, [Next]_vars, NEW c \in ClientS, NEW n \in 1 .. MaxRichieste, n > numero'[c]
             PROVE  Futura(<<c, n>>)'
  BY DEF FutureInv
<1> DEFINE k == <<c, n>>
<1>0. /\ TypeOK /\ CodaInv /\ FasiInv /\ k \in Connessioni
      /\ DOMAIN numero = ClientS /\ \A d \in ClientS : numero[d] \in Nat
      /\ n > numero[c] => Futura(k) /\ ~InCoda(k) /\ k # Corrente(c)
  <2>1. TypeOK /\ CodaInv /\ FasiInv /\ k \in Connessioni /\ MaxRichieste \in Nat
    BY Server1Assumption DEF Inv, Connessioni
  <2>2. DOMAIN numero = ClientS /\ \A d \in ClientS : numero[d] \in Nat
    BY <2>1 DEF TypeOK
  <2>3. k[1] = c /\ (n > numero[c] => k # Corrente(c))
    BY <2>2 DEF Corrente
  <2>4. n > numero[c] => ~InCoda(k)
    BY <2>1, <2>3 DEF CodaInv
  <2>5. n > numero[c] => Futura(k)
    BY DEF Inv, FutureInv
  <2> QED
    BY <2>1, <2>2, <2>3, <2>4, <2>5
<1>1. CASE Padre \/ Gestore
  <2>1. /\ UNCHANGED <<numero, detto>>
        /\ k \in aperti' => k \in aperti \/ InCoda(k)
        /\ Accettata(k) \/ Abbandonata(k) \/ Ferma(k)
    BY <1>0, <1>1, PadreConnessione
  <2>2. Futura(k) /\ ~InCoda(k)
    BY <1>0, <2>1
  <2>3. Ferma(k)
    BY <2>1, <2>2 DEF Accettata, Abbandonata, Futura
  <2> QED
    BY <1>0, <2>1, <2>2, <2>3, FuturaFerma
<1>2. ASSUME NEW h \in Connessioni, Figlio(h) PROVE Futura(k)'
  <2>1. UNCHANGED <<numero, detto, aperti>>
    BY <1>2, FiglioLascia
  <2>2. Futura(k)
    BY <1>0, <2>1
  <2>3. h # k /\ Ferma(k)
    BY <1>0, <1>2, <2>2, FiglioConnessione DEF Futura
  <2> QED
    BY <1>0, <2>1, <2>2, <2>3, FuturaFerma
<1>3. ASSUME NEW d \in ClientS, cliente_chiede(d) PROVE Futura(k)'
  <2>1. UNCHANGED <<detto, aperti, canale, chiuso, figlio>> /\ numero' = [numero EXCEPT ![d] = @ + 1]
    BY <1>3 DEF cliente_chiede, reteVars, figlioVars
  <2>2. n > numero[c]
    BY <1>0, <2>1
  <2> QED
    BY <1>0, <2>1, <2>2 DEF Futura
<1>4. ASSUME NEW d \in ClientS, cliente_rifiutato(d) \/ cliente_esito(d) \/ cliente_file(d)
      PROVE  Futura(k)'
  <2>1. Cliente(d) /\ UNCHANGED <<numero, aperti, chiuso, figlio>>
    BY <1>0, <1>4, ClienteLascia, ClienteMuove DEF Cliente
  <2>2. Futura(k) /\ k # Corrente(d)
    BY <1>0, <2>1 DEF Corrente
  <2>3. canale'[k] = canale[k]
    BY <1>0, <1>4, <2>2, ClienteConnessione
  <2>4. \A e \in detto' : e.conn # k
    BY <2>1, <2>2, DettoCliente DEF Futura
  <2> QED
    BY <2>1, <2>2, <2>3, <2>4 DEF Futura
<1>5. CASE (ClienteU /\ UNCHANGED <<loopVars, figliVars, clienteVars, reteVars, figlioVars>>) \/ UNCHANGED vars
  BY <1>0, <1>5, AltriFermi DEF Futura
<1> QED
  BY <1>1, <1>2, <1>3, <1>4, <1>5 DEF Next, Cliente

LEMMA TipiInvStep == Inv /\ [Next]_vars => TipiInv'
<1> SUFFICES ASSUME Inv, [Next]_vars PROVE TipiInv'
  OBVIOUS
<1>0. TypeOK /\ CodaInv /\ FasiInv /\ TipiInv
  BY DEF Inv
<1>1. CASE Padre \/ Gestore
  <2>1. /\ UNCHANGED <<inviati, detto>>
        /\ \A k \in Connessioni : Accettata(k) \/ Abbandonata(k) \/ Ferma(k)
    BY <1>0, <1>1, PadreConnessione
  <2>2. ASSUME NEW k \in Connessioni
        PROVE  /\ figlio'[k] \in {"nessuno", "read"} => inviati'[k] = 0
               /\ figlio'[k] = "nessuno" => canale'[k] = <<>> \/ canale'[k] = <<"RST">>
    <3>1. CASE Accettata(k)
      BY <1>0, <2>1, <3>1 DEF TipiInv, CodaInv, Accettata
    <3>2. CASE Abbandonata(k)
      BY <1>0, <2>1, <3>2 DEF TipiInv, Abbandonata
    <3>3. CASE Ferma(k)
      BY <1>0, <2>1, <3>3 DEF TipiInv, Ferma
    <3> QED
      BY <2>1, <3>1, <3>2, <3>3
  <2> QED
    BY <1>0, <2>1, <2>2 DEF TipiInv
<1>2. ASSUME NEW k \in Connessioni, Figlio(k) PROVE TipiInv'
  <2>1. /\ detto' = detto /\ figlio'[k] # "nessuno"
        /\ \A h \in Connessioni : h # k => Ferma(h) /\ inviati'[h] = inviati[h]
    BY <1>0, <1>2, FiglioConnessione, FiglioLascia
  <2>2. figlio'[k] # "read"
    <3>1. figlio \in [Connessioni -> {"nessuno", "read", "invio", "chiude", "finito"}]
      BY <1>0 DEF TypeOK
    <3> QED
      BY <1>0, <1>2, <3>1, FiglioMuove
  <2> QED
    BY <1>0, <2>1, <2>2 DEF TipiInv, Ferma
<1>3. ASSUME NEW c \in ClientS, Cliente(c) PROVE TipiInv'
  <2>1. UNCHANGED <<figlio, inviati>>
    BY <1>3, ClienteLascia
  <2>2. \A d \in detto' : d.conn \in Connessioni
    BY <1>0, <1>3, DettoCliente, CorrenteTipata DEF TipiInv
  <2>3. ASSUME NEW k \in Connessioni, figlio[k] = "nessuno"
        PROVE  canale'[k] = <<>> \/ canale'[k] = <<"RST">>
    <3>1. canale[k] = <<>> \/ canale[k] = <<"RST">>
      BY <1>0, <2>3 DEF TipiInv
    <3>2. canale'[k] = canale[k] \/ (canale[k] # <<>> /\ canale'[k] = Tail(canale[k]))
      BY <1>3, ClienteConnessione DEF Cliente, cliente_chiede, reteVars
    <3>3. Tail(<<"RST">>) = <<>>
      OBVIOUS
    <3> QED
      BY <3>1, <3>2, <3>3
  <2> QED
    BY <1>0, <2>1, <2>2, <2>3 DEF TipiInv
<1>4. CASE (ClienteU /\ UNCHANGED <<loopVars, figliVars, clienteVars, reteVars, figlioVars>>) \/ UNCHANGED vars
  BY <1>0, <1>4, AltriFermi DEF TipiInv
<1> QED
  BY <1>1, <1>2, <1>3, <1>4 DEF Next
-----------------------------------------------------------------------------
(* The request in progress. *)

LEMMA TipiConnessione ==
  ASSUME TypeOK, NEW c \in ClientS, NEW k \in Connessioni
  PROVE  /\ canale[k] \in Seq(Voci) /\ ricevuti[c] \in Nat /\ inviati[k] \in Nat
         /\ k \in DOMAIN canale /\ k \in DOMAIN figlio /\ k \in DOMAIN inviati
         /\ c \in DOMAIN ricevuti /\ c \in DOMAIN fase
<1>1. canale[k] \in Seq(Voci) /\ k \in DOMAIN canale
  BY TipiDivisi DEF TipiParti, TipiRete
<1>2. ricevuti[c] \in Nat /\ c \in DOMAIN ricevuti /\ c \in DOMAIN fase
  BY TipiDivisi DEF TipiParti, TipiCliente
<1>3. inviati[k] \in Nat /\ k \in DOMAIN figlio /\ k \in DOMAIN inviati
  BY TipiDivisi DEF TipiParti, TipiFiglio
<1> QED
  BY <1>1, <1>2, <1>3

\* The child of the request in progress writes what its client is yet to read.
LEMMA AllineataFiglio ==
  ASSUME Inv, NEW c \in ClientS, fase[c] \in {"esito", "file"}, Figlio(Corrente(c))
  PROVE  Allineata(c)'
<1>k. PICK k \in Connessioni : k = Corrente(c)
  BY CorrenteTipata DEF Inv
<1>0. /\ canale[k] \in Seq(Voci) /\ ricevuti[c] \in Nat /\ inviati[k] \in Nat
      /\ k \in DOMAIN canale /\ k \in DOMAIN figlio /\ k \in DOMAIN inviati
  BY TipiConnessione DEF Inv
<1>1. /\ UNCHANGED <<fase, nome, ricevuti>> /\ figlio[k] \in {"read", "invio", "chiude"}
      /\ Corrente(c)' = k /\ Figlio(k)
  BY <1>k, FiglioLascia DEF Corrente
<1>2. Allineata(c)
  BY DEF Inv, AllineataInv
<1>3. CASE figlio_apre(k)
  <2>1. figlio[k] = "read" /\ fase[c] = "esito" /\ DaAprire(k) /\ ricevuti[c] = 0
    BY <1>k, <1>1, <1>2, <1>3 DEF figlio_apre, Allineata, Negata, InArrivo
  <2>2. inviati[k] = 0 /\ inviati' = inviati /\ canale[k] = <<>> /\ k \notin chiuso /\ chiuso' = chiuso
    BY <1>3, <2>1 DEF Inv, TipiInv, DaAprire, figlio_apre
  <2>3. CASE nome[k] \in Esistenti
    <3>1. canale'[k] = <<"S">> /\ figlio'[k] = "invio"
      BY <1>0, <1>3, <2>2, <2>3 DEF figlio_apre
    <3>2. Blocchi[nome[k]] \in Nat /\ Flusso(<<"S">>, 1, 0, "blocco", 0)
      BY <2>3, Server1Assumption DEF Esistenti, Flusso
    <3>3. InArrivo(k, 0, 1)'
      BY <1>1, <2>2, <2>3, <3>1, <3>2 DEF InArrivo
    <3> QED
      BY <1>1, <2>1, <3>3 DEF Allineata
  <2>4. CASE nome[k] \notin Esistenti
    <3>1. canale'[k] = <<"N">> /\ figlio'[k] = "chiude"
      BY <1>0, <1>3, <2>2, <2>4 DEF figlio_apre
    <3>2. Negata(k)'
      BY <1>1, <2>2, <2>4, <3>1 DEF Negata
    <3> QED
      BY <1>1, <2>1, <3>2 DEF Allineata
  <2> QED
    BY <2>3, <2>4
<1>4. CASE figlio_invia(k)
  <2>1. /\ figlio[k] = "invio" /\ inviati[k] < Blocchi[nome[k]] /\ inviati'[k] = inviati[k] + 1
        /\ canale'[k] = Append(canale[k], "blocco") /\ figlio' = figlio /\ chiuso' = chiuso
    BY <1>0, <1>4 DEF figlio_invia
  <2>2. PICK p \in {0, 1} : /\ InArrivo(k, ricevuti[c], p)
                            /\ (p = 1 /\ fase[c] = "esito" /\ ricevuti[c] = 0)
                                 \/ (p = 0 /\ fase[c] = "file")
    BY <1>k, <1>2, <2>1 DEF Allineata, DaAprire, Negata
  <2> DEFINE n == inviati[k] - ricevuti[c]
  <2>3. /\ nome[k] \in Esistenti /\ n \in Nat /\ k \notin chiuso
        /\ p = 1 => canale[k][1] = "S"
        /\ Flusso(canale[k], p, n, "blocco", 0)
    BY <2>1, <2>2 DEF InArrivo
  <2>4. Blocchi[nome[k]] \in Nat
    BY <2>3, Server1Assumption DEF Esistenti
  <2>5. Flusso(canale'[k], p, n + 1, "blocco", 0)
    BY <1>0, <2>1, <2>3, FlussoScrivi DEF Voci
  <2>6. p = 1 => canale'[k][1] = "S"
    <3>1. p = 1 => Len(canale[k]) >= 1
      BY <2>3 DEF Flusso
    <3> QED
      BY <1>0, <2>1, <2>3, <3>1
  <2>7. inviati'[k] - ricevuti'[c] = n + 1 /\ inviati'[k] <= Blocchi[nome[k]] /\ n + 1 \in Nat
    <3>1. ricevuti'[c] = ricevuti[c]
      BY <1>1
    <3>2. \A i, r \in Nat : i + 1 - r = (i - r) + 1
      OBVIOUS
    <3>3. \A i, b \in Nat : i < b => i + 1 <= b
      OBVIOUS
    <3> QED
      BY <1>0, <2>1, <2>3, <2>4, <3>1, <3>2, <3>3, SMTT(30)
  <2>8. InArrivo(k, ricevuti[c], p)'
    BY <1>1, <2>1, <2>3, <2>5, <2>6, <2>7 DEF InArrivo
  <2> QED
    BY <1>1, <2>1, <2>2, <2>8 DEF Allineata
<1>5. CASE figlio_termina(k)
  <2>1. /\ figlio'[k] = "finito" /\ k \in chiuso' /\ UNCHANGED <<canale, inviati>>
        /\ figlio[k] = "chiude" \/ (figlio[k] = "invio" /\ inviati[k] = Blocchi[nome[k]])
    BY <1>0, <1>5 DEF figlio_termina
  <2>2. ASSUME Negata(k) PROVE Negata(k)'
    BY <1>1, <2>1, <2>2 DEF Negata
  <2>3. ASSUME NEW p, InArrivo(k, ricevuti[c], p) PROVE InArrivo(k, ricevuti[c], p)'
    BY <1>1, <2>1, <2>3 DEF InArrivo
  <2>4. ~DaAprire(k)
    BY <2>1 DEF DaAprire
  <2>5. CASE fase[c] = "esito"
    <3>1. ricevuti[c] = 0 /\ (Negata(k) \/ InArrivo(k, ricevuti[c], 1))
      BY <1>k, <1>1, <1>2, <2>4, <2>5 DEF Allineata
    <3>2. Negata(k)' \/ InArrivo(k, ricevuti[c], 1)'
      BY <2>2, <2>3, <3>1
    <3> QED
      BY <1>1, <2>5, <3>1, <3>2 DEF Allineata
  <2>6. CASE fase[c] = "file"
    BY <1>k, <1>1, <1>2, <2>3, <2>6 DEF Allineata
  <2> QED
    BY <2>5, <2>6
<1> QED
  BY <1>1, <1>3, <1>4, <1>5 DEF Figlio

\* The status byte that a client with a child reads.
LEMMA EsitoVivo ==
  ASSUME Inv, NEW c \in ClientS, cliente_esito(c), figlio[Corrente(c)] # "nessuno"
  PROVE  \/ Negata(Corrente(c)) /\ Stato(c, "N")
         \/ InArrivo(Corrente(c), 0, 1) /\ Consuma(c, "S") /\ Stato(c, "S") /\ ricevuti[c] = 0
<1>k. PICK k \in Connessioni : k = Corrente(c)
  BY CorrenteTipata DEF Inv, cliente_esito
<1>0. canale[k] \in Seq(Voci) /\ ricevuti[c] \in Nat /\ inviati[k] \in Nat
  BY TipiConnessione DEF Inv
<1>1. ricevuti[c] = 0 /\ (DaAprire(k) \/ Negata(k) \/ InArrivo(k, 0, 1))
  BY <1>k DEF Inv, AllineataInv, Allineata, cliente_esito
<1>2. ASSUME InArrivo(k, 0, 1) PROVE canale[k] # <<>> /\ Head(canale[k]) = "S"
  <2>1. Flusso(canale[k], 1, inviati[k] - 0, "blocco", 0) /\ inviati[k] - 0 \in Nat /\ canale[k][1] = "S"
    BY <1>2 DEF InArrivo
  <2> QED
    BY <1>0, <2>1, FlussoInizia
<1>3. Negata(k) => canale[k] # <<>> /\ Head(canale[k]) = "N"
  BY DEF Negata
<1>4. DaAprire(k) => canale[k] = <<>> /\ k \notin chiuso
  BY DEF DaAprire
<1>5. CASE \E o \in {"S", "N"} : Consuma(c, o) /\ Stato(c, o)
  BY <1>k, <1>1, <1>2, <1>3, <1>4, <1>5 DEF Consuma
<1>6. CASE FineConnessione(c)
  BY <1>k, <1>1, <1>2, <1>3, <1>4, <1>6 DEF FineConnessione
<1>7. CASE Consuma(c, "RST")
  BY <1>k, <1>1, <1>2, <1>3, <1>4, <1>7 DEF Consuma
<1> QED
  BY <1>5, <1>6, <1>7 DEF cliente_esito

\* A client with a child reads a block, or the end when it has read them all.
LEMMA FileVivo ==
  ASSUME Inv, NEW c \in ClientS, cliente_file(c), figlio[Corrente(c)] # "nessuno"
  PROVE  /\ InArrivo(Corrente(c), ricevuti[c], 0)
         /\ \/ /\ Consuma(c, "blocco") /\ ricevuti' = [ricevuti EXCEPT ![c] = @ + 1]
               /\ inviati[Corrente(c)] - ricevuti[c] # 0
            \/ /\ Annota(c, "file") /\ fase' = [fase EXCEPT ![c] = "menu"]
               /\ ricevuti[c] = Blocchi[nome[Corrente(c)]]
<1>k. PICK k \in Connessioni : k = Corrente(c)
  BY CorrenteTipata DEF Inv, cliente_file
<1>0. canale[k] \in Seq(Voci) /\ ricevuti[c] \in Nat /\ inviati[k] \in Nat
  BY TipiConnessione DEF Inv
<1>1. InArrivo(k, ricevuti[c], 0)
  BY <1>k DEF Inv, AllineataInv, Allineata, cliente_file
<1> DEFINE n == inviati[k] - ricevuti[c]
<1>2. n \in Nat /\ Flusso(canale[k], 0, n, "blocco", 0) /\ nome[k] \in Esistenti
  BY <1>1 DEF InArrivo
<1>3. Len(canale[k]) = n
  BY <1>2 DEF Flusso
<1>4. CASE Consuma(c, "blocco") /\ ricevuti' = [ricevuti EXCEPT ![c] = @ + 1]
  <2>1. n # 0
    BY <1>k, <1>0, <1>3, <1>4 DEF Consuma
  <2> QED
    BY <1>k, <1>1, <1>4, <2>1
<1>5. CASE FineConnessione(c) /\ fase' = [fase EXCEPT ![c] = "menu"] /\ Annota(c, "file")
  <2>1. canale[k] = <<>> /\ k \in chiuso
    BY <1>k, <1>5 DEF FineConnessione
  <2>2. n = 0 /\ inviati[k] = Blocchi[nome[k]]
    BY <1>1, <1>3, <2>1 DEF InArrivo
  <2>3. \A i, r \in Nat : i - r = 0 => r = i
    OBVIOUS
  <2>4. ricevuti[c] = Blocchi[nome[k]]
    BY <1>0, <2>2, <2>3
  <2> QED
    BY <1>k, <1>1, <1>5, <2>4
<1> QED
  BY <1>4, <1>5 DEF cliente_file

LEMMA AllineataCliente ==
  ASSUME Inv, NEW c \in ClientS, Cliente(c) PROVE Allineata(c)'
<1>0. TypeOK /\ FasiInv /\ CodaInv /\ c \in DOMAIN fase /\ c \in DOMAIN ricevuti /\ c \in DOMAIN numero
  BY DEF Inv, TypeOK
<1>1. /\ UNCHANGED <<figlio, inviati, chiuso>>
  BY ClienteLascia
<1>2. CASE cliente_chiede(c)
  <2>1. fase'[c] = "esito" /\ ricevuti'[c] = 0 /\ Corrente(c)' = <<c, numero[c] + 1>>
    BY <1>0, <1>2 DEF cliente_chiede, Corrente
  <2>2. figlio[<<c, numero[c] + 1>>] = "nessuno"
    BY <1>2, ChiedeNuova DEF Futura
  <2> QED
    BY <1>1, <2>1, <2>2 DEF Allineata
<1>3. CASE cliente_rifiutato(c)
  <2>1. fase'[c] = "fine"
    BY <1>0, <1>3 DEF cliente_rifiutato
  <2> QED
    BY <2>1 DEF Allineata
<1>4. CASE cliente_esito(c) \/ cliente_file(c)
  <2>k. PICK k \in Connessioni : k = Corrente(c)
    BY <1>0, <1>4, CorrenteTipata DEF cliente_esito, cliente_file
  <2>0. /\ canale[k] \in Seq(Voci) /\ ricevuti[c] \in Nat /\ inviati[k] \in Nat /\ k \in DOMAIN canale
    BY <1>0, TipiConnessione
  <2>1. /\ Corrente(c)' = k /\ nome' = nome
        /\ fase' = fase \/ \E f \in {"menu", "file", "fine"} : fase' = [fase EXCEPT ![c] = f]
    BY <1>0, <1>4, <2>k, ClienteMuove DEF Corrente
  <2>2. fase'[c] # "esito"
    BY <1>0, <1>4, <2>1, ClienteMuove
  <2>3. CASE figlio[k] = "nessuno"
    BY <1>1, <2>1, <2>2, <2>3 DEF Allineata
  <2>4. CASE figlio[k] # "nessuno" /\ cliente_esito(c)
    <3>1. CASE Stato(c, "N")
      <4>1. fase'[c] = "menu"
        BY <1>0, <3>1 DEF Stato
      <4> QED
        BY <4>1 DEF Allineata
    <3>2. CASE InArrivo(k, 0, 1) /\ Consuma(c, "S") /\ Stato(c, "S") /\ ricevuti[c] = 0
      <4>1. canale'[k] = Tail(canale[k]) /\ ricevuti'[c] = 0
        BY <2>k, <2>0, <3>2 DEF Consuma, Stato
      <4>2. Flusso(canale[k], 1, inviati[k] - 0, "blocco", 0) /\ inviati[k] - 0 \in Nat
        BY <3>2 DEF InArrivo
      <4>3. Flusso(Tail(canale[k]), 0, inviati[k] - 0, "blocco", 0)
        BY <2>0, <4>2, FlussoInizia
      <4>4. InArrivo(k, 0, 0)'
        BY <1>1, <2>1, <3>2, <4>1, <4>3 DEF InArrivo
      <4> QED
        BY <2>1, <2>2, <4>1, <4>4 DEF Allineata
    <3> QED
      BY <2>k, <2>4, <3>1, <3>2, EsitoVivo
  <2>5. CASE figlio[k] # "nessuno" /\ cliente_file(c)
    <3>1. InArrivo(k, ricevuti[c], 0)
      BY <2>k, <2>5, FileVivo
    <3>2. CASE Consuma(c, "blocco") /\ ricevuti' = [ricevuti EXCEPT ![c] = @ + 1]
               /\ inviati[k] - ricevuti[c] # 0
      <4> DEFINE n == inviati[k] - ricevuti[c]
      <4>1. canale'[k] = Tail(canale[k]) /\ ricevuti'[c] = ricevuti[c] + 1
        BY <1>0, <2>k, <2>0, <3>2 DEF Consuma
      <4>2. Flusso(canale[k], 0, n, "blocco", 0) /\ n \in Nat \ {0}
        BY <3>1, <3>2 DEF InArrivo
      <4>3. Flusso(Tail(canale[k]), 0, n - 1, "blocco", 0)
        BY <2>0, <4>2, FlussoLeggi
      <4>4. inviati'[k] - ricevuti'[c] = n - 1 /\ n - 1 \in Nat
        BY <1>1, <2>0, <4>1, <4>2
      <4>5. InArrivo(k, ricevuti[c], 0)'
        BY <1>1, <2>1, <3>1, <4>1, <4>3, <4>4 DEF InArrivo
      <4> QED
        BY <2>1, <2>2, <4>1, <4>5 DEF Allineata
    <3>3. CASE fase' = [fase EXCEPT ![c] = "menu"]
      <4>1. fase'[c] = "menu"
        BY <1>0, <3>3
      <4> QED
        BY <4>1 DEF Allineata
    <3> QED
      BY <2>k, <2>5, <3>2, <3>3, FileVivo
  <2> QED
    BY <1>4, <2>3, <2>4, <2>5
<1> QED
  BY <1>2, <1>3, <1>4 DEF Cliente

\* A request is not disturbed by a step that leaves its connection and its client alone.
LEMMA AllineataFerma ==
  ASSUME NEW c \in ClientS, Allineata(c), Ferma(Corrente(c)),
         fase'[c] = fase[c], numero'[c] = numero[c], ricevuti'[c] = ricevuti[c],
         nome'[Corrente(c)] = nome[Corrente(c)], inviati'[Corrente(c)] = inviati[Corrente(c)]
  PROVE  Allineata(c)'
<1>k. PICK k : k = Corrente(c)
  OBVIOUS
<1>1. Corrente(c)' = k
  BY <1>k DEF Corrente
<1>2. /\ DaAprire(k) => DaAprire(k)'
      /\ Negata(k) => Negata(k)'
      /\ \A r, p : InArrivo(k, r, p) => InArrivo(k, r, p)'
  BY <1>k DEF Ferma, DaAprire, Negata, InArrivo
<1> QED
  BY <1>k, <1>1, <1>2 DEF Allineata, Ferma

LEMMA AllineataStep == Inv /\ [Next]_vars => AllineataInv'
<1> SUFFICES ASSUME Inv, [Next]_vars, NEW c \in ClientS PROVE Allineata(c)'
  BY DEF AllineataInv
<1>0. TypeOK /\ CodaInv /\ FasiInv /\ Allineata(c)
  BY DEF Inv, AllineataInv
<1>1. CASE Padre \/ Gestore
  <2>1. UNCHANGED <<fase, numero, nome, ricevuti, inviati>>
    BY <1>0, <1>1, PadreConnessione
  <2>2. CASE fase[c] \notin {"esito", "file"}
    BY <2>1, <2>2 DEF Allineata
  <2>3. CASE fase[c] \in {"esito", "file"}
    <3>k. PICK k \in Connessioni : k = Corrente(c)
      BY <1>0, <2>3, CorrenteTipata
    <3>1. Corrente(c)' = k
      BY <2>1, <3>k DEF Corrente
    <3>2. Accettata(k) \/ Abbandonata(k) \/ Ferma(k)
      BY <1>0, <1>1, PadreConnessione
    <3>3. CASE Accettata(k)
      <4>1. /\ fase[c] = "esito" /\ figlio'[k] = "read" /\ canale'[k] = <<>> /\ k \notin chiuso'
            /\ ricevuti[c] = 0
        <5>1. k[1] = c
          BY <3>k DEF Corrente
        <5> QED
          BY <1>0, <3>3, <5>1 DEF Accettata, CodaInv, Allineata
      <4>2. DaAprire(k)'
        BY <4>1 DEF DaAprire
      <4> QED
        BY <2>1, <3>1, <4>1, <4>2 DEF Allineata
    <3>4. CASE Abbandonata(k)
      BY <1>0, <2>1, <3>1, <3>4 DEF Abbandonata, Allineata
    <3>5. CASE Ferma(k)
      BY <1>0, <2>1, <3>k, <3>5, AllineataFerma
    <3> QED
      BY <3>2, <3>3, <3>4, <3>5
  <2> QED
    BY <2>2, <2>3
<1>2. ASSUME NEW h \in Connessioni, Figlio(h) PROVE Allineata(c)'
  <2>1. UNCHANGED <<fase, numero, nome, ricevuti>>
    BY <1>2, FiglioLascia
  <2>2. CASE fase[c] \notin {"esito", "file"}
    BY <2>1, <2>2 DEF Allineata
  <2>3. CASE fase[c] \in {"esito", "file"} /\ h = Corrente(c)
    BY <1>2, <2>3, AllineataFiglio
  <2>4. CASE fase[c] \in {"esito", "file"} /\ h # Corrente(c)
    <3>1. Corrente(c) \in Connessioni
      BY <1>0, <2>4, CorrenteTipata
    <3>2. Ferma(Corrente(c)) /\ inviati'[Corrente(c)] = inviati[Corrente(c)]
      BY <1>0, <1>2, <2>4, <3>1, FiglioConnessione
    <3> QED
      BY <1>0, <2>1, <3>2, AllineataFerma
  <2> QED
    BY <2>2, <2>3, <2>4
<1>3. ASSUME NEW d \in ClientS, d # c, Cliente(d) PROVE Allineata(c)'
  <2>1. /\ DOMAIN fase = ClientS /\ DOMAIN numero = ClientS /\ DOMAIN ricevuti = ClientS
        /\ DOMAIN nome = Connessioni
    BY <1>0 DEF TypeOK
  <2>2. UNCHANGED <<figlio, inviati, chiuso>>
    BY <1>3, ClienteLascia
  <2>3. fase'[c] = fase[c] /\ numero'[c] = numero[c] /\ ricevuti'[c] = ricevuti[c]
    BY <1>3, <2>1 DEF Cliente, cliente_chiede, cliente_rifiutato, cliente_esito, cliente_file, Stato
  <2>4. CASE fase[c] \notin {"esito", "file"}
    BY <2>3, <2>4 DEF Allineata
  <2>5. CASE fase[c] \in {"esito", "file"}
    <3>k. PICK k \in Connessioni : k = Corrente(c)
      BY <1>0, <2>5, CorrenteTipata
    <3>0. k[1] = c /\ k # Corrente(d)
      BY <1>3, <3>k DEF Corrente
    <3>1. nome'[k] = nome[k] /\ canale'[k] = canale[k]
      <4>1. CASE cliente_chiede(d)
        <5>1. k # <<d, numero[d] + 1>>
          BY <1>3, <3>0
        <5> QED
          BY <2>1, <4>1, <5>1 DEF cliente_chiede, reteVars
      <4>2. CASE cliente_rifiutato(d) \/ cliente_esito(d) \/ cliente_file(d)
        BY <1>0, <3>0, <4>2, ClienteConnessione, ClienteMuove
      <4> QED
        BY <1>3, <4>1, <4>2 DEF Cliente
    <3>2. Ferma(k)
      BY <2>2, <3>1 DEF Ferma
    <3> QED
      BY <1>0, <2>2, <2>3, <3>k, <3>1, <3>2, AllineataFerma
  <2> QED
    BY <2>4, <2>5
<1>4. CASE (ClienteU /\ UNCHANGED <<loopVars, figliVars, clienteVars, reteVars, figlioVars>>) \/ UNCHANGED vars
  <2>1. /\ UNCHANGED <<fase, numero, nome, ricevuti, inviati, figlio, canale, chiuso>>
    BY <1>4, AltriFermi
  <2>2. Ferma(Corrente(c))
    BY <2>1 DEF Ferma
  <2> QED
    BY <1>0, <2>1, <2>2, AllineataFerma
<1> QED
  BY <1>1, <1>2, <1>3, <1>4, AllineataCliente DEF Next
-----------------------------------------------------------------------------
(* What the users were shown. *)

\* What Annota records of request k.
Nota(k, e, r) == [conn |-> k, nome |-> nome[k], esito |-> e, blocchi |-> r]

LEMMA NotaCampi ==
  ASSUME NEW k, NEW e, NEW r
  PROVE  /\ Nota(k, e, r).conn = k /\ Nota(k, e, r).nome = nome[k]
         /\ Nota(k, e, r).esito = e /\ Nota(k, e, r).blocchi = r
BY DEF Nota

\* What a client adds is true when its request has a child.
LEMMA DettoNuovo ==
  ASSUME Inv, NEW c \in ClientS, cliente_esito(c) \/ cliente_file(c), figlio[Corrente(c)] # "nessuno"
  PROVE  \A d \in detto' : d \in detto \/ Fedele(d)
<1>k. PICK k : k = Corrente(c)
  OBVIOUS
<1>1. ASSUME Stato(c, "N"), Negata(k) PROVE \A d \in detto' : d \in detto \/ Fedele(d)
  <2>1. detto' = detto \cup {Nota(k, "inesistente", ricevuti[c])}
    BY <1>k, <1>1 DEF Stato, Annota, Nota
  <2>2. Fedele(Nota(k, "inesistente", ricevuti[c]))
    BY <1>1, NotaCampi DEF Fedele, Negata
  <2> QED
    BY <2>1, <2>2
<1>2. ASSUME Annota(c, "file"), InArrivo(k, ricevuti[c], 0), ricevuti[c] = Blocchi[nome[k]]
      PROVE  \A d \in detto' : d \in detto \/ Fedele(d)
  <2>1. detto' = detto \cup {Nota(k, "file", ricevuti[c])}
    BY <1>k, <1>2 DEF Annota, Nota
  <2>2. Fedele(Nota(k, "file", ricevuti[c]))
    BY <1>2, NotaCampi DEF Fedele, InArrivo
  <2> QED
    BY <2>1, <2>2
<1>3. CASE cliente_esito(c)
  <2>1. CASE Stato(c, "S")
    BY <2>1 DEF Stato
  <2> QED
    BY <1>k, <1>1, <1>3, <2>1, EsitoVivo
<1>4. CASE cliente_file(c)
  <2>1. InArrivo(k, ricevuti[c], 0)
    BY <1>k, <1>4, FileVivo
  <2>2. CASE Consuma(c, "blocco") /\ inviati[k] - ricevuti[c] # 0
    <3>1. canale[k] # <<>>
      BY <1>k, <2>2 DEF Consuma
    <3>2. detto' = detto
      BY <1>k, <1>4, <3>1 DEF cliente_file, FineConnessione
    <3> QED
      BY <3>2
  <2> QED
    BY <1>k, <1>2, <1>4, <2>1, <2>2, FileVivo
<1> QED
  BY <1>3, <1>4

LEMMA DettoStep == Inv /\ [Next]_vars => DettoInv'
<1> SUFFICES ASSUME Inv, [Next]_vars, NEW d \in detto'
             PROVE  ~InCoda(d.conn)' /\ (figlio'[d.conn] # "nessuno" => Fedele(d))
  BY DEF DettoInv, Fedele
<1>0. /\ TypeOK /\ CodaInv /\ FasiInv
      /\ d \in detto => /\ d.conn \in Connessioni /\ ~InCoda(d.conn)
                        /\ figlio[d.conn] # "nessuno" => Fedele(d)
  BY DEF Inv, DettoInv, TipiInv
<1>1. CASE Padre \/ Gestore
  <2>1. d \in detto
    BY <1>0, <1>1, PadreConnessione
  <2>2. /\ InCoda(d.conn)' => InCoda(d.conn)
        /\ Accettata(d.conn) \/ Abbandonata(d.conn) \/ Ferma(d.conn)
    BY <1>0, <1>1, <2>1, PadreConnessione
  <2> QED
    BY <1>0, <2>1, <2>2 DEF Accettata, Abbandonata, Ferma
<1>2. ASSUME NEW k \in Connessioni, Figlio(k)
      PROVE  ~InCoda(d.conn)' /\ (figlio'[d.conn] # "nessuno" => Fedele(d))
  <2>1. detto' = detto /\ coda' = coda
    BY <1>2, FiglioLascia
  <2>2. figlio'[d.conn] # "nessuno" => figlio[d.conn] # "nessuno"
    BY <1>0, <1>2, <2>1, FiglioConnessione
  <2> QED
    BY <1>0, <2>1, <2>2, CodaFerma
<1>3. ASSUME NEW c \in ClientS, cliente_chiede(c)
      PROVE  ~InCoda(d.conn)' /\ (figlio'[d.conn] # "nessuno" => Fedele(d))
  <2>n. PICK n \in Connessioni : n = <<c, numero[c] + 1>>
    BY <1>3, ChiedeNuova
  <2>1. /\ Futura(n) /\ ~InCoda(n) /\ coda \in Seq(Connessioni) /\ CodaSemplice
        /\ coda' = Append(coda, n) /\ UNCHANGED <<detto, figlio>>
    BY <1>0, <1>3, <2>n, ChiedeNuova DEF TypeOK, LoopTypeOK, CodaInv, cliente_chiede, figlioVars
  <2>2. \A h : h # n => (InCoda(h)' <=> InCoda(h))
    BY <2>1, ConnettiCoda
  <2>3. d.conn # n
    BY <2>1 DEF Futura
  <2> QED
    BY <1>0, <2>1, <2>2, <2>3
<1>4. ASSUME NEW c \in ClientS, cliente_rifiutato(c) \/ cliente_esito(c) \/ cliente_file(c)
      PROVE  ~InCoda(d.conn)' /\ (figlio'[d.conn] # "nessuno" => Fedele(d))
  <2>1. Cliente(c) /\ UNCHANGED <<coda, figlio>>
    BY <1>0, <1>4, ClienteLascia, ClienteMuove DEF Cliente
  <2>2. \A h : InCoda(h)' <=> InCoda(h)
    BY <2>1, CodaFerma
  <2>3. CASE d \in detto
    BY <1>0, <2>1, <2>2, <2>3
  <2>4. CASE d \notin detto
    <3>1. d.conn = Corrente(c) /\ fase[c] \in {"esito", "file"}
      BY <2>1, <2>4, DettoCliente
    <3>2. cliente_esito(c) \/ cliente_file(c)
      BY <1>4, <3>1 DEF cliente_rifiutato
    <3>3. ~InCoda(d.conn)
      BY <1>4, <3>1, ClienteConnessione
    <3>4. figlio[d.conn] # "nessuno" => Fedele(d)
      BY <2>4, <3>1, <3>2, DettoNuovo
    <3> QED
      BY <2>1, <2>2, <3>3, <3>4
  <2> QED
    BY <2>3, <2>4
<1>5. CASE (ClienteU /\ UNCHANGED <<loopVars, figliVars, clienteVars, reteVars, figlioVars>>) \/ UNCHANGED vars
  <2>1. UNCHANGED <<detto, figlio, coda>>
    BY <1>5, AltriFermi
  <2> QED
    BY <1>0, <2>1, CodaFerma
<1> QED
  BY <1>1, <1>2, <1>3, <1>4, <1>5 DEF Next, Cliente
-----------------------------------------------------------------------------
(* The theorems. *)

LEMMA InvInit == Init => Inv
<1> SUFFICES ASSUME Init PROVE Inv
  OBVIOUS
<1>1. TypeOK /\ FigliInv
  BY TipiInit
<1>2. /\ fase = [c \in ClientS |-> "menu"] /\ canale = [k \in Connessioni |-> <<>>] /\ chiuso = {}
      /\ figlio = [k \in Connessioni |-> "nessuno"] /\ inviati = [k \in Connessioni |-> 0]
      /\ detto = {}
  BY DEF Init
<1>3. coda = <<>> /\ aperti = {} /\ zombie = {}
  BY DEF Init, LoopInit, FigliInit
<1>4. TipiInv
  BY <1>2 DEF TipiInv
<1>5. CodaSemplice /\ \A k : ~InCoda(k)
  BY <1>3 DEF CodaSemplice, InCoda
<1>6. CodaInv
  BY <1>3, <1>5 DEF CodaInv
<1>7. FutureInv
  BY <1>2, <1>3 DEF FutureInv, Futura, Connessioni
<1>8. FasiInv /\ AllineataInv /\ DettoInv
  BY <1>2 DEF FasiInv, AllineataInv, Allineata, DettoInv
<1> QED
  BY <1>1, <1>4, <1>6, <1>7, <1>8 DEF Inv

LEMMA InvStep == Inv /\ [Next]_vars => Inv'
<1> SUFFICES ASSUME Inv, [Next]_vars PROVE Inv'
  OBVIOUS
<1>1. TypeOK' /\ FigliInv'
  BY TypeStep
<1>2. TipiInv' /\ CodaInv'
  BY TipiInvStep, CodaStep
<1>3. FutureInv' /\ FasiInv'
  BY FutureStep, FasiStep
<1>4. AllineataInv' /\ DettoInv'
  BY AllineataStep, DettoStep
<1> QED
  BY <1>1, <1>2, <1>3, <1>4 DEF Inv

\* Inv holds of every reachable state: for the request each client waits for,
\* the blocks its child has written are those read and those in flight, and the
\* child has ended the connection only when they are all.
THEOREM InvInvariante == Spec => []Inv
BY InvInit, InvStep, PTL DEF Spec

\* The types of all variables, for every instance.
THEOREM TypeOKInvariante == Spec => []TypeOK
<1>1. Inv => TypeOK
  BY DEF Inv
<1> QED
  BY <1>1, InvInvariante, PTL

\* A file that exists is shown with all its blocks and "File inesistente" is
\* true, on every connection that had a child: for any number of clients,
\* requests and files, and whenever the server exits.
THEOREM RispostaFedeleSempre == Spec => []RispostaFedele
<1>1. Inv => RispostaFedele
  BY DEF Inv, DettoInv, Fedele, RispostaFedele
<1> QED
  BY <1>1, InvInvariante, PTL

\* The server never sleeps in its signal handler, for any number of children.
THEOREM GestoreNonBloccaSempre == Spec => []GestoreNonBlocca
<1>1. Inv => GestoreNonBlocca
  BY GestoreMaiVuoto DEF Inv
<1> QED
  BY <1>1, InvInvariante, PTL
=============================================================================
