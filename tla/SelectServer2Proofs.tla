------------------------- MODULE SelectServer2Proofs -------------------------
(***************************************************************************)
(* Proofs about SelectServer2 for every set of clients, every set of files *)
(* of any length, every backlog and every limit of descriptors.            *)
(*                                                                         *)
(* RisposteAllineate speaks of answers already shown; what makes it hold   *)
(* is the state of each connection between two steps: which part of the    *)
(* answer is in flight, given what the child has written and what the      *)
(* client has read (Allineata).                                            *)
(***************************************************************************)
EXTENDS SelectServer2, SelectLoopProofs, FiniteSetTheorems

\* What TypeOK leaves out and the steps need.
TipiInv ==
  /\ numero \in [ClientS -> Nat]
  /\ \A c \in ClientS : figlio[c] = "invio" => aperto[c] \in Esistenti
  /\ \A c \in ClientS : figlio[c] = "nessuno" => canale[c] = <<>> \/ canale[c] = <<"RST">>
  /\ \A d \in detto : d.client \in ClientS

\* The server holds a connection only between accept and its close.
ApertiInv ==
  /\ pc # "close" => aperti = {}
  /\ pc = "morto" => ~(limiteFd > 0)

\* The backlog, the children and the phases of the clients agree.
Coerente(c) ==
  /\ InCoda(c) => fase[c] # "avvio" /\ figlio[c] = "nessuno" /\ c \notin aperti
  /\ c \in aperti => fase[c] # "avvio"
  /\ fase[c] = "avvio" => figlio[c] = "nessuno"
  /\ c \in zombie => figlio[c] = "finito"
  /\ c \in finC => fase[c] = "fine"
  /\ figlio[c] = "finito" => fase[c] = "fine"

CodaInv == CodaSemplice /\ \A c \in ClientS : Coerente(c)

\* The request is on its way to the child.
Attende(c) ==
  /\ andata[c] = <<chiesto[c]>> /\ canale[c] = <<>>
  /\ figlio[c] \in {"nessuno", "read"}

\* The answer is "N".
Negata(c) ==
  /\ andata[c] = <<>> /\ canale[c] = <<"N">>
  /\ figlio[c] = "read" /\ chiesto[c] \notin Esistenti

\* The answer is the file: p is 1 until its status byte is read.
InArrivo(c, p) ==
  /\ andata[c] = <<>> /\ chiesto[c] \in Esistenti
  /\ p = 1 => canale[c][1] = "S"
  /\ \/ /\ figlio[c] = "invio" /\ aperto[c] = chiesto[c]
        /\ inviati[c] - ricevuti[c] \in Nat
        /\ inviati[c] <= Byte[chiesto[c]]
        /\ Flusso(canale[c], p, inviati[c] - ricevuti[c], "x", 0)
     \/ /\ figlio[c] = "read"
        /\ Byte[chiesto[c]] - ricevuti[c] \in Nat
        /\ Flusso(canale[c], p, Byte[chiesto[c]] - ricevuti[c], "x", 1)

\* Client, channels and child of a connection, one with the other.
Allineata(c) ==
  /\ fase[c] \in {"avvio", "menu"} => andata[c] = <<>> /\ canale[c] = <<>> /\ figlio[c] \in {"nessuno", "read"}
  /\ fase[c] = "esito" => ricevuti[c] = 0 /\ (Attende(c) \/ Negata(c) \/ InArrivo(c, 1))
  /\ fase[c] = "file" => InArrivo(c, 0)
  /\ fase[c] # "fine" => c \notin finS

\* A connection that has a child, or may still get one.
Viva(c) == fase[c] = "avvio" \/ InCoda(c) \/ figlio[c] # "nessuno"

AllineataInv == \A c \in ClientS : Viva(c) => Allineata(c)

\* What RisposteAllineate says of one answer.
Giusta(d) ==
  /\ d.esito = "inesistente" => d.nome \notin Esistenti
  /\ d.esito = "file" => d.nome \in Esistenti /\ d.byte = Byte[d.nome]
  /\ d.esito # "protocollo"

DettoInv ==
  \A d \in detto : /\ fase[d.client] # "avvio" /\ ~InCoda(d.client)
                   /\ figlio[d.client] # "nessuno" => Giusta(d)

Inv == /\ TypeOK /\ FigliInv /\ TipiInv /\ ApertiInv
       /\ CodaInv /\ AllineataInv /\ DettoInv
-----------------------------------------------------------------------------
(* Types. *)

TipiCliente ==
  /\ fase \in [ClientS -> {"avvio", "menu", "esito", "file", "fine"}]
  /\ \A c \in ClientS : numero[c] \in 0 .. MaxRichieste[c]
  /\ ok \in [ClientS -> {"S", "N", "altro", "ignoto"}]
  /\ chiesto \in [ClientS -> Nomi \cup {""}]
  /\ ricevuti \in [ClientS -> Nat]

Voci == {"S", "N", "x", "0", "RST"}

TipiRete ==
  /\ andata \in [ClientS -> Seq(Nomi)] /\ canale \in [ClientS -> Seq(Voci)]
  /\ finC \subseteq ClientS /\ finS \subseteq ClientS

TipiFiglio ==
  /\ vivi = {c \in ClientS : figlio[c] \in {"read", "invio"}}
  /\ aperto \in [ClientS -> Esistenti \cup {""}]
  /\ inviati \in [ClientS -> Nat]
  /\ figlio \in [ClientS -> {"nessuno", "read", "invio", "finito"}]

TipiParti == /\ FigliTypeOK(ClientS) /\ CicloTipato(ClientS) /\ DatagrammiTipati
             /\ TipiCliente /\ TipiRete /\ TipiFiglio

LEMMA TipiDivisi == (TypeOK <=> TipiParti) /\ (TypeOK' <=> TipiParti')
BY DEF TypeOK, TipiParti, LoopTypeOK, CicloTipato, DatagrammiTipati, TipiCliente, TipiRete,
   TipiFiglio, Voci

LEMMA TipiInit == Init => TypeOK /\ FigliInv
<1> SUFFICES ASSUME Init PROVE TypeOK /\ FigliInv
  OBVIOUS
<1>1. LoopInit /\ FigliInit
  BY DEF Init, LoopInit
<1>2. FigliTypeOK(ClientS) /\ FigliInv /\ CicloTipato(ClientS) /\ DatagrammiTipati
  BY <1>1, FigliInitInv, LoopInitTipato
<1>3. TipiCliente
  <2>1. \A c \in ClientS : MaxRichieste[c] \in Nat
    BY Server2Assumption
  <2>2. /\ fase \in [ClientS -> {"avvio", "menu", "esito", "file", "fine"}]
        /\ ok \in [ClientS -> {"S", "N", "altro", "ignoto"}]
    BY DEF Init
  <2>3. chiesto \in [ClientS -> Nomi \cup {""}] /\ ricevuti \in [ClientS -> Nat]
    BY DEF Init
  <2>4. \A c \in ClientS : numero[c] = 0
    BY DEF Init
  <2>5. \A c \in ClientS : numero[c] \in 0 .. MaxRichieste[c]
    BY <2>1, <2>4
  <2> QED
    BY <2>2, <2>3, <2>5 DEF TipiCliente
<1>4. TipiRete
  <2>1. <<>> \in Seq(Nomi) /\ <<>> \in Seq(Voci)
    OBVIOUS
  <2> QED
    BY <2>1 DEF Init, TipiRete
<1>5. TipiFiglio
  BY <1>1 DEF Init, TipiFiglio, FigliInit
<1> QED
  BY <1>2, <1>3, <1>4, <1>5, TipiDivisi DEF TipiParti

LEMMA ClienteFermo == ASSUME TipiCliente, UNCHANGED clienteVars PROVE TipiCliente'
BY DEF TipiCliente, clienteVars

LEMMA ReteFerma == ASSUME TipiRete, UNCHANGED reteVars PROVE TipiRete'
BY DEF TipiRete, reteVars

LEMMA FiglioFermo == ASSUME TipiFiglio, UNCHANGED <<figlioVars, vivi>> PROVE TipiFiglio'
BY DEF TipiFiglio, figlioVars

LEMMA UdpFermo == ASSUME DatagrammiTipati, UNCHANGED udpVars PROVE DatagrammiTipati'
BY DEF DatagrammiTipati, udpVars

\* The steps of the father and of its handler.
LEMMA TipiPadre ==
  ASSUME TypeOK, FigliInv, CodaInv, Padre \/ Gestore PROVE TypeOK' /\ FigliInv'
<1>0. /\ FigliTypeOK(ClientS) /\ CicloTipato(ClientS) /\ DatagrammiTipati
      /\ TipiCliente /\ TipiRete /\ TipiFiglio
  BY TipiDivisi DEF TipiParti
<1>1. CASE select /\ UNCHANGED <<clienteVars, reteVars, figlioVars>>
  <2>1. UNCHANGED <<figliVars, udpVars>> /\ UNCHANGED vivi
    BY <1>1 DEF select, figliVars
  <2> QED
    BY <1>0, <1>1, <2>1, TipiDivisi, FigliFermi, SelectTipato, ClienteFermo, ReteFerma,
       FiglioFermo, UdpFermo
       DEF TipiParti
<1>2. ASSUME NEW c \in ClientS, padre_accept(c) PROVE TypeOK' /\ FigliInv'
  <2>1. InCoda(c) /\ coda' \in Seq(ClientS)
    BY <1>0, <1>2, AccettaCoda DEF padre_accept, CodaInv
  <2>2. c \notin zombie /\ figlio[c] = "nessuno"
    BY <2>1 DEF CodaInv, Coerente
  <2>3. FigliTypeOK(ClientS)' /\ FigliInv'
    BY <1>0, <1>2, <2>2, ForkInv DEF padre_accept
  <2>4. CicloTipato(ClientS)'
    BY <1>0, <1>2, <2>1 DEF padre_accept, accept, CicloTipato
  <2>5. TipiFiglio'
    BY <1>0, <1>2 DEF padre_accept, fork, TipiFiglio
  <2> QED
    BY <1>0, <1>2, <2>3, <2>4, <2>5, TipiDivisi, ClienteFermo, ReteFerma, UdpFermo
       DEF TipiParti, padre_accept, accept
<1>3. ASSUME NEW c \in ClientS, padre_fork_fallita(c) PROVE TypeOK' /\ FigliInv'
  <2>1. coda' \in Seq(ClientS)
    BY <1>0, <1>3, AccettaCoda DEF padre_fork_fallita, CodaInv
  <2>2. CicloTipato(ClientS)'
    BY <1>0, <1>3, <2>1 DEF padre_fork_fallita, accept, CicloTipato
  <2>3. UNCHANGED <<figliVars, udpVars, clienteVars, reteVars, figlioVars>> /\ UNCHANGED vivi
    BY <1>3 DEF padre_fork_fallita, accept, figliVars
  <2> QED
    BY <1>0, <2>2, <2>3, TipiDivisi, FigliFermi, ClienteFermo, ReteFerma, FiglioFermo, UdpFermo
       DEF TipiParti
<1>4. CASE padre_close
  <2>1. CicloTipato(ClientS)'
    BY <1>0, <1>4, DopoTcpTipato DEF padre_close, CicloTipato
  <2>2. TipiRete'
    <3>1. /\ UNCHANGED <<andata, canale, finC>>
          /\ finS' = finS \cup {c \in aperti : figlio[c] = "nessuno"}
      BY <1>4 DEF padre_close
    <3>2. finS' \subseteq ClientS
      BY <1>0, <3>1 DEF TipiRete, CicloTipato
    <3> QED
      BY <1>0, <3>1, <3>2 DEF TipiRete
  <2>3. UNCHANGED <<figliVars, udpVars, clienteVars, figlioVars>> /\ UNCHANGED vivi
    BY <1>4 DEF padre_close, figliVars
  <2> QED
    BY <1>0, <2>1, <2>2, <2>3, TipiDivisi, FigliFermi, ClienteFermo, FiglioFermo, UdpFermo
       DEF TipiParti
<1>5. CASE padre_exit
  <2>1. CicloTipato(ClientS)'
    BY <1>0, <1>5, AccettaFallitaTipato DEF padre_exit
  <2>2. TipiRete'
    <3>1. UNCHANGED <<andata, finC, finS>>
      BY <1>5 DEF padre_exit
    <3>2. canale' = [c \in ClientS |->
                       IF \E i \in DOMAIN coda : coda[i] = c THEN <<"RST">> ELSE canale[c]]
      BY <1>5 DEF padre_exit
    <3>3. <<"RST">> \in Seq(Voci) /\ \A c \in ClientS : canale[c] \in Seq(Voci)
      BY <1>0 DEF TipiRete, Voci
    <3>4. canale' \in [ClientS -> Seq(Voci)]
      BY <3>2, <3>3
    <3> QED
      BY <1>0, <3>1, <3>4 DEF TipiRete
  <2>3. UNCHANGED <<figliVars, udpVars, clienteVars, figlioVars>> /\ UNCHANGED vivi
    BY <1>5 DEF padre_exit, accept_fallita, figliVars
  <2> QED
    BY <1>0, <2>1, <2>2, <2>3, TipiDivisi, FigliFermi, ClienteFermo, FiglioFermo, UdpFermo
       DEF TipiParti
<1>6. CASE padre_conteggio
  <2>1. PICK num \in Conteggi : recvfrom_sendto(num, num)
    BY <1>6 DEF padre_conteggio
  <2>2. CicloTipato(ClientS)' /\ DatagrammiTipati'
    BY <1>0, <2>1, RecvfromTipato DEF recvfrom_sendto, DatagrammiTipati
  <2>3. UNCHANGED <<figliVars, clienteVars, reteVars, figlioVars>> /\ UNCHANGED vivi
    BY <1>6, <2>1 DEF padre_conteggio, recvfrom_sendto, figliVars
  <2> QED
    BY <1>0, <2>2, <2>3, TipiDivisi, FigliFermi, ClienteFermo, ReteFerma, FiglioFermo
       DEF TipiParti
<1>7. CASE Gestore
  <2>1. UNCHANGED <<loopVars, udpVars, clienteVars, reteVars, figlioVars>> /\ UNCHANGED vivi
    BY <1>7 DEF Gestore, SIGCHLD, gestore
  <2>2. FigliTypeOK(ClientS)' /\ FigliInv'
    BY <1>0, <1>7, GestoreInv DEF Gestore
  <2> QED
    BY <1>0, <2>1, <2>2, TipiDivisi, CicloFermo, ClienteFermo, ReteFerma, FiglioFermo, UdpFermo
       DEF TipiParti
<1> QED
  BY <1>1, <1>2, <1>3, <1>4, <1>5, <1>6, <1>7 DEF Padre

\* A name is taken off a channel, an item is put on one.
LEMMA ReteScrivi ==
  ASSUME TipiRete, NEW c \in ClientS, NEW x \in {"S", "N", "x", "0"}, Scrivi(c, x)
  PROVE  canale' \in [ClientS -> Seq(Voci)]
<1>1. canale[c] \in Seq(Voci) /\ x \in Voci
  BY DEF TipiRete, Voci
<1>2. Append(canale[c], x) \in Seq(Voci)
  BY <1>1
<1> QED
  BY <1>2 DEF TipiRete, Scrivi

LEMMA TipiFiglioStep ==
  ASSUME TypeOK, FigliInv, TipiInv, NEW c \in ClientS, Figlio(c) PROVE TypeOK' /\ FigliInv'
<1>0. /\ FigliTypeOK(ClientS) /\ CicloTipato(ClientS) /\ DatagrammiTipati
      /\ TipiCliente /\ TipiRete /\ TipiFiglio
  BY TipiDivisi DEF TipiParti
<1>1. UNCHANGED <<clienteVars, loopVars, udpVars>>
  BY DEF Figlio, figlio_apre, figlio_invia, figlio_zero, figlio_termina
<1>2. CASE figlio_apre(c)
  <2> DEFINE n == Head(andata[c])
  <2>1. /\ figlio[c] = "read" /\ andata[c] # <<>>
        /\ andata' = [andata EXCEPT ![c] = Tail(@)]
        /\ UNCHANGED <<finC, finS>> /\ vivi' = vivi
        /\ \/ /\ n \in Esistenti /\ Scrivi(c, "S")
              /\ figlio' = [figlio EXCEPT ![c] = "invio"]
              /\ aperto' = [aperto EXCEPT ![c] = n]
              /\ inviati' = [inviati EXCEPT ![c] = 0]
           \/ Scrivi(c, "N") /\ UNCHANGED <<figlio, aperto, inviati>>
    BY <1>2 DEF figlio_apre, figliVars, figlioVars
  <2>2. andata[c] \in Seq(Nomi)
    BY <1>0 DEF TipiRete
  <2>3. Tail(andata[c]) \in Seq(Nomi)
    BY <2>1, <2>2
  <2>4. TipiRete'
    BY <1>0, <2>1, <2>3, ReteScrivi DEF TipiRete
  <2> HIDE DEF n
  <2>5. figlio' \in [ClientS -> {"nessuno", "read", "invio", "finito"}]
    BY <1>0, <2>1 DEF TipiFiglio
  <2>6. aperto' \in [ClientS -> Esistenti \cup {""}]
    <3>1. aperto \in [ClientS -> Esistenti \cup {""}]
      BY <1>0 DEF TipiFiglio
    <3>2. aperto' = aperto \/ (n \in Esistenti \cup {""} /\ aperto' = [aperto EXCEPT ![c] = n])
      BY <2>1
    <3> QED
      BY <3>1, <3>2, Zenon
  <2>9. inviati' \in [ClientS -> Nat]
    <3>1. inviati \in [ClientS -> Nat]
      BY <1>0 DEF TipiFiglio
    <3>2. inviati' = inviati \/ inviati' = [inviati EXCEPT ![c] = 0]
      BY <2>1
    <3> QED
      BY <3>1, <3>2
  <2>7. \A d \in ClientS : figlio'[d] \in {"read", "invio"} <=> figlio[d] \in {"read", "invio"}
    BY <1>0, <2>1 DEF TipiFiglio
  <2>8. TipiFiglio'
    BY <1>0, <2>1, <2>5, <2>6, <2>7, <2>9 DEF TipiFiglio
  <2> QED
    BY <1>0, <1>1, <1>2, <2>4, <2>8, TipiDivisi, FigliFermi, CicloFermo, ClienteFermo, UdpFermo
       DEF TipiParti, figlio_apre
<1>3. CASE figlio_invia(c) \/ figlio_zero(c)
  <2>0. /\ UNCHANGED <<andata, finC, finS, aperto, vivi>> /\ figlio[c] = "invio"
        /\ \/ Scrivi(c, "x") /\ inviati' = [inviati EXCEPT ![c] = @ + 1] /\ figlio' = figlio
           \/ Scrivi(c, "0") /\ inviati' = inviati /\ figlio' = [figlio EXCEPT ![c] = "read"]
    BY <1>3 DEF figlio_invia, figlio_zero, figliVars
  <2>1. TipiRete'
    BY <1>0, <2>0, ReteScrivi DEF TipiRete
  <2>2. figlio' \in [ClientS -> {"nessuno", "read", "invio", "finito"}]
    BY <1>0, <2>0 DEF TipiFiglio
  <2>3. inviati' \in [ClientS -> Nat]
    <3>1. inviati \in [ClientS -> Nat]
      BY <1>0 DEF TipiFiglio
    <3>2. inviati' = inviati \/ inviati' = [inviati EXCEPT ![c] = @ + 1]
      BY <2>0
    <3> QED
      BY <3>1, <3>2
  <2>4. \A d \in ClientS : figlio'[d] \in {"read", "invio"} <=> figlio[d] \in {"read", "invio"}
    BY <1>0, <2>0 DEF TipiFiglio
  <2>5. TipiFiglio'
    BY <1>0, <2>0, <2>2, <2>3, <2>4 DEF TipiFiglio
  <2> QED
    BY <1>0, <1>1, <1>3, <2>1, <2>5, TipiDivisi, FigliFermi, CicloFermo, ClienteFermo, UdpFermo
       DEF TipiParti, figlio_invia, figlio_zero
<1>4. CASE figlio_termina(c)
  <2>1. TipiRete'
    BY <1>0, <1>4 DEF figlio_termina, TipiRete
  <2>2. TipiFiglio'
    BY <1>0, <1>4 DEF figlio_termina, TipiFiglio, exit
  <2>3. FigliTypeOK(ClientS)' /\ FigliInv'
    BY <1>0, <1>4, ExitInv DEF figlio_termina
  <2> QED
    BY <1>0, <1>1, <2>1, <2>2, <2>3, TipiDivisi, CicloFermo, ClienteFermo, UdpFermo
       DEF TipiParti
<1> QED
  BY <1>2, <1>3, <1>4 DEF Figlio

LEMMA ReteConsuma ==
  ASSUME TipiRete, NEW c \in ClientS, NEW x, Consuma(c, x)
  PROVE  TipiRete' /\ canale[c] \in Seq(Voci) /\ UNCHANGED <<andata, finC, finS>>
<1>1. canale[c] \in Seq(Voci) /\ canale[c] # <<>>
  BY DEF TipiRete, Consuma
<1>2. Tail(canale[c]) \in Seq(Voci)
  BY <1>1
<1>3. canale' \in [ClientS -> Seq(Voci)] /\ UNCHANGED <<andata, finC, finS>>
  BY <1>2 DEF TipiRete, Consuma
<1> QED
  BY <1>1, <1>3 DEF TipiRete

\* The part of the answer in flight, its status byte first.
LEMMA StatoInTesta ==
  ASSUME TypeOK, NEW c \in ClientS, InArrivo(c, 1)
  PROVE  canale[c] # <<>> /\ Head(canale[c]) = "S"
<1>1. canale[c] \in Seq(Voci) /\ ricevuti[c] \in Nat /\ inviati[c] \in Nat
  BY TipiDivisi DEF TipiParti, TipiRete, TipiCliente, TipiFiglio
<1>2. canale[c][1] = "S"
  BY DEF InArrivo
<1>3. PICK n \in Nat, z \in {0, 1} : Flusso(canale[c], 1, n, "x", z)
  BY DEF InArrivo
<1> QED
  BY <1>1, <1>2, <1>3, FlussoInizia

\* A status byte is never a byte of a file nor the end of one.
LEMMA StatoLetto ==
  ASSUME Inv, NEW c \in ClientS, fase[c] = "esito", NEW o \in {"S", "N", "x", "0"}, Consuma(c, o)
  PROVE  \/ o = "S"
         \/ o = "N" /\ (figlio[c] # "nessuno" => Negata(c))
<1>1. canale[c] # <<>> /\ o = Head(canale[c])
  BY DEF Consuma
<1>2. CASE figlio[c] = "nessuno"
  <2>1. canale[c] = <<"RST">>
    BY <1>1, <1>2 DEF Inv, TipiInv
  <2> QED
    BY <1>1, <2>1
<1>3. CASE figlio[c] # "nessuno"
  <2>1. Attende(c) \/ Negata(c) \/ InArrivo(c, 1)
    BY <1>3 DEF Inv, AllineataInv, Viva, Allineata
  <2>2. CASE Attende(c)
    BY <1>1, <2>2 DEF Attende
  <2>3. CASE Negata(c)
    BY <1>1, <2>3 DEF Negata
  <2>4. CASE InArrivo(c, 1)
    BY <1>1, <2>4, StatoInTesta DEF Inv
  <2> QED
    BY <2>1, <2>2, <2>3, <2>4
<1> QED
  BY <1>2, <1>3

\* What the steps of a client leave alone.
LEMMA ClienteLascia ==
  ASSUME NEW c \in ClientS, Cliente(c)
  PROVE  /\ UNCHANGED <<figlioVars, figliVars, udpVars>> /\ UNCHANGED <<figlio, aperto, inviati>>
         /\ UNCHANGED <<pc, pronti, aperti, limiteFd, finS, vivi, zombie>>
<1>1. CASE cliente_connect(c)
  BY <1>1 DEF cliente_connect, reteVars, figliVars, figlioVars
<1>2. CASE cliente_esce(c)
  BY <1>2 DEF cliente_esce, loopVars, figliVars, figlioVars
<1>3. CASE cliente_chiede(c)
  BY <1>3 DEF cliente_chiede, loopVars, figliVars, figlioVars
<1>4. CASE cliente_esito(c)
  BY <1>4 DEF cliente_esito, Consuma, FineConnessione, reteVars, loopVars, figliVars, figlioVars
<1>5. CASE cliente_file(c)
  BY <1>5 DEF cliente_file, Consuma, FineConnessione, reteVars, loopVars, figliVars, figlioVars
<1> QED
  BY <1>1, <1>2, <1>3, <1>4, <1>5 DEF Cliente

LEMMA TipiClienteStep ==
  ASSUME Inv, NEW c \in ClientS, Cliente(c) PROVE TypeOK' /\ FigliInv'
<1>0. /\ FigliTypeOK(ClientS) /\ CicloTipato(ClientS) /\ DatagrammiTipati
      /\ TipiCliente /\ TipiRete /\ TipiFiglio /\ FigliInv
  BY TipiDivisi DEF TipiParti, Inv
<1>1. /\ FigliTypeOK(ClientS)' /\ FigliInv' /\ DatagrammiTipati' /\ TipiFiglio'
  BY <1>0, ClienteLascia, FigliFermi, UdpFermo, FiglioFermo
<1> SUFFICES CicloTipato(ClientS)' /\ TipiCliente' /\ TipiRete'
  BY <1>1, TipiDivisi DEF TipiParti
<1>2. CASE cliente_connect(c)
  <2>1. coda \in Seq(ClientS)
    BY <1>0 DEF CicloTipato
  <2>2. coda' \in Seq(ClientS)
    BY <1>2, <2>1 DEF cliente_connect
  <2>3. CicloTipato(ClientS)'
    BY <1>0, <1>2, <2>2 DEF cliente_connect, CicloTipato
  <2>4. fase' \in [ClientS -> {"avvio", "menu", "esito", "file", "fine"}]
    BY <1>0, <1>2 DEF cliente_connect, TipiCliente
  <2>5. TipiCliente'
    BY <1>0, <1>2, <2>4 DEF cliente_connect, TipiCliente
  <2> QED
    BY <1>0, <1>2, <2>3, <2>5, ReteFerma DEF cliente_connect
<1>3. CASE cliente_esce(c)
  <2>1. CicloTipato(ClientS)'
    BY <1>0, <1>3, CicloFermo DEF cliente_esce
  <2>2. TipiCliente' /\ TipiRete'
    BY <1>0, <1>3 DEF cliente_esce, Chiudi, TipiCliente, TipiRete
  <2> QED
    BY <2>1, <2>2
<1>4. CASE cliente_chiede(c)
  <2>1. CicloTipato(ClientS)'
    BY <1>0, <1>4, CicloFermo DEF cliente_chiede
  <2>2. CASE Chiudi(c) /\ UNCHANGED <<numero, chiesto, ricevuti, andata>>
    BY <1>0, <1>4, <2>1, <2>2 DEF cliente_chiede, Chiudi, TipiCliente, TipiRete
  <2>3. CASE ~(c \in finS /\ numero[c] > 0)
    <3>1. PICK n \in Nomi : /\ chiesto' = [chiesto EXCEPT ![c] = n]
                            /\ andata' = [andata EXCEPT ![c] = Append(@, n)]
      BY <1>4, <2>3 DEF cliente_chiede
    <3>2. /\ numero' = [numero EXCEPT ![c] = @ + 1] /\ numero[c] < MaxRichieste[c]
          /\ ricevuti' = [ricevuti EXCEPT ![c] = 0]
          /\ fase' = [fase EXCEPT ![c] = "esito"]
          /\ UNCHANGED <<ok, canale, finC, finS>>
      BY <1>4, <2>3 DEF cliente_chiede
    <3>3. \A d \in ClientS : MaxRichieste[d] \in Nat /\ numero[d] \in 0 .. MaxRichieste[d]
      BY <1>0, Server2Assumption DEF TipiCliente
    <3>4. \A d \in ClientS : numero'[d] \in 0 .. MaxRichieste[d]
      BY <3>2, <3>3 DEF Inv, TipiInv
    <3>5. andata[c] \in Seq(Nomi)
      BY <1>0 DEF TipiRete
    <3>6. Append(andata[c], n) \in Seq(Nomi)
      BY <3>5
    <3>7. TipiRete'
      BY <1>0, <3>1, <3>2, <3>6 DEF TipiRete
    <3>8. chiesto' \in [ClientS -> Nomi \cup {""}]
      BY <1>0, <3>1, Zenon DEF TipiCliente
    <3>9. fase' \in [ClientS -> {"avvio", "menu", "esito", "file", "fine"}]
      BY <1>0, <3>2 DEF TipiCliente
    <3>10. ricevuti' \in [ClientS -> Nat]
      BY <1>0, <3>2 DEF TipiCliente
    <3> QED
      BY <1>0, <2>1, <3>2, <3>4, <3>7, <3>8, <3>9, <3>10 DEF TipiCliente
  <2> QED
    BY <1>4, <2>2, <2>3 DEF cliente_chiede
<1>5. CASE cliente_esito(c)
  <2>1. CicloTipato(ClientS)'
    BY <1>0, <1>5, CicloFermo DEF cliente_esito
  <2>2. ASSUME NEW o \in {"S", "N", "altro", "ignoto"}, Stato(c, o) PROVE TipiCliente'
    <3>1. /\ ok' = [ok EXCEPT ![c] = o] /\ UNCHANGED <<numero, chiesto, ricevuti>>
          /\ fase' = [fase EXCEPT ![c] = IF o = "S" THEN "file" ELSE "menu"]
      BY <2>2 DEF Stato
    <3>2. ok' \in [ClientS -> {"S", "N", "altro", "ignoto"}]
      BY <1>0, <3>1 DEF TipiCliente
    <3>3. fase' \in [ClientS -> {"avvio", "menu", "esito", "file", "fine"}]
      BY <1>0, <3>1 DEF TipiCliente
    <3> QED
      BY <1>0, <3>1, <3>2, <3>3 DEF TipiCliente
  <2>3. ASSUME NEW o \in {"S", "N", "x", "0"}, Consuma(c, o), Stato(c, o)
        PROVE  TipiCliente' /\ TipiRete'
    <3>1. o \in {"S", "N", "altro", "ignoto"}
      BY <1>5, <2>3, StatoLetto DEF cliente_esito
    <3> QED
      BY <1>0, <2>2, <2>3, <3>1, ReteConsuma
  <2>4. ASSUME FineConnessione(c), NEW o \in Vecchio(c), Stato(c, o)
        PROVE  TipiCliente' /\ TipiRete'
    <3>1. o \in {"S", "N", "altro", "ignoto"}
      BY <1>0 DEF Vecchio, TipiCliente
    <3> QED
      BY <1>0, <2>2, <2>4, <3>1, ReteFerma DEF FineConnessione
  <2>5. ASSUME Chiudi(c), UNCHANGED <<numero, ok, chiesto, ricevuti, detto, andata, canale, finS>>
        PROVE  TipiCliente' /\ TipiRete'
    BY <1>0, <2>5 DEF Chiudi, TipiCliente, TipiRete
  <2> QED
    BY <1>5, <2>1, <2>3, <2>4, <2>5 DEF cliente_esito
<1>6. CASE cliente_file(c)
  <2>1. CicloTipato(ClientS)'
    BY <1>0, <1>6, CicloFermo DEF cliente_file
  <2>2. TipiRete'
    BY <1>0, <1>6, ReteConsuma, ReteFerma DEF cliente_file, FineConnessione
  <2>3. /\ ricevuti' = ricevuti \/ ricevuti' = [ricevuti EXCEPT ![c] = @ + 1]
        /\ fase' = fase \/ fase' = [fase EXCEPT ![c] = "menu"]
        /\ UNCHANGED <<numero, ok, chiesto>>
    BY <1>6 DEF cliente_file
  <2>4. ricevuti' \in [ClientS -> Nat]
    <3>1. ricevuti \in [ClientS -> Nat]
      BY <1>0 DEF TipiCliente
    <3>2. ricevuti' = ricevuti \/ ricevuti' = [ricevuti EXCEPT ![c] = @ + 1]
      BY <2>3
    <3> QED
      BY <3>1, <3>2
  <2>5. fase' \in [ClientS -> {"avvio", "menu", "esito", "file", "fine"}]
    BY <1>0, <2>3 DEF TipiCliente
  <2> QED
    BY <1>0, <2>1, <2>2, <2>3, <2>4, <2>5 DEF TipiCliente
<1> QED
  BY <1>2, <1>3, <1>4, <1>5, <1>6 DEF Cliente

LEMMA TypeStep == Inv /\ [Next]_vars => TypeOK' /\ FigliInv'
<1> SUFFICES ASSUME Inv, [Next]_vars PROVE TypeOK' /\ FigliInv'
  OBVIOUS
<1>0. TypeOK /\ FigliInv /\ TipiInv /\ CodaInv
  BY DEF Inv
<1>1. CASE Padre \/ Gestore
  BY <1>0, <1>1, TipiPadre
<1>2. ASSUME NEW c \in ClientS, Figlio(c) PROVE TypeOK' /\ FigliInv'
  BY <1>0, <1>2, TipiFiglioStep
<1>3. ASSUME NEW c \in ClientS, Cliente(c) PROVE TypeOK' /\ FigliInv'
  BY <1>3, TipiClienteStep
<1>4. CASE ClienteU /\ UNCHANGED <<loopVars, figliVars, clienteVars, reteVars, figlioVars>>
  <2>1. UNCHANGED vivi
    BY <1>4 DEF figliVars
  <2>2. TipiParti
    BY <1>0, TipiDivisi
  <2>3. TipiParti' /\ FigliInv'
    BY <1>0, <1>4, <2>1, <2>2, FigliFermi, CicloFermo, ClienteUTipato, ClienteFermo, ReteFerma,
       FiglioFermo DEF TipiParti
  <2> QED
    BY <2>3, TipiDivisi
<1>5. CASE UNCHANGED vars
  <2>1. UNCHANGED vivi /\ UNCHANGED <<loopVars, figliVars, udpVars, clienteVars, reteVars, figlioVars>>
    BY <1>5 DEF vars, figliVars
  <2>2. TipiParti
    BY <1>0, TipiDivisi
  <2>3. TipiParti' /\ FigliInv'
    BY <1>0, <2>1, <2>2, FigliFermi, CicloFermo, UdpFermo, ClienteFermo, ReteFerma,
       FiglioFermo DEF TipiParti
  <2> QED
    BY <2>3, TipiDivisi
<1> QED
  BY <1>1, <1>2, <1>3, <1>4, <1>5 DEF Next
-----------------------------------------------------------------------------
(* The server never runs out of descriptors. *)

LEMMA ApertiStep == ApertiInv /\ TypeOK /\ [Next]_vars => ApertiInv'
<1> SUFFICES ASSUME ApertiInv, TypeOK, [Next]_vars PROVE ApertiInv'
  OBVIOUS
<1>1. CASE select /\ UNCHANGED <<clienteVars, reteVars, figlioVars>>
  BY <1>1 DEF select, Attivo, ApertiInv
<1>2. ASSUME NEW c \in ClientS, padre_accept(c) \/ padre_fork_fallita(c) PROVE ApertiInv'
  BY <1>2 DEF padre_accept, padre_fork_fallita, accept, ApertiInv
<1>3. CASE padre_close
  BY <1>3, DopoTcpTipato DEF padre_close, ApertiInv
<1>4. CASE padre_exit
  <2>1. aperti = {} /\ Cardinality(aperti) >= limiteFd /\ limiteFd' = limiteFd /\ aperti' = {}
    BY <1>4 DEF padre_exit, accept_fallita, Attivo, ApertiInv
  <2>2. Cardinality({}) = 0 /\ limiteFd \in Nat
    BY FS_EmptySet, SelectAssumption DEF TypeOK, LoopTypeOK
  <2> QED
    BY <2>1, <2>2 DEF ApertiInv
<1>5. CASE padre_conteggio
  BY <1>5 DEF padre_conteggio, recvfrom_sendto, Attivo, ApertiInv
<1>6. CASE Gestore
  BY <1>6 DEF Gestore, loopVars, ApertiInv
<1>7. ASSUME NEW c \in ClientS, Figlio(c) PROVE ApertiInv'
  BY <1>7 DEF Figlio, figlio_apre, figlio_invia, figlio_zero, figlio_termina, loopVars, ApertiInv
<1>8. ASSUME NEW c \in ClientS, Cliente(c) PROVE ApertiInv'
  BY <1>8, ClienteLascia DEF ApertiInv
<1>9. CASE ClienteU /\ UNCHANGED <<loopVars, figliVars, clienteVars, reteVars, figlioVars>>
  BY <1>9 DEF loopVars, ApertiInv
<1>10. CASE UNCHANGED vars
  BY <1>10 DEF vars, loopVars, ApertiInv
<1> QED
  BY <1>1, <1>2, <1>3, <1>4, <1>5, <1>6, <1>7, <1>8, <1>9, <1>10 DEF Next, Padre
-----------------------------------------------------------------------------
(* Backlog, children and phases. *)

\* How the phase of a connected client moves; only an exit closes its side.
LEMMA FaseCliente ==
  ASSUME NEW c \in ClientS,
         cliente_esce(c) \/ cliente_chiede(c) \/ cliente_esito(c) \/ cliente_file(c)
  PROVE  /\ fase[c] \in {"menu", "esito", "file"} /\ coda' = coda
         /\ \/ fase' = fase /\ finC' = finC
            \/ finC' = finC /\ \E f \in {"menu", "esito", "file"} : fase' = [fase EXCEPT ![c] = f]
            \/ fase' = [fase EXCEPT ![c] = "fine"] /\ finC' = finC \cup {c}
<1>1. CASE cliente_esce(c)
  BY <1>1 DEF cliente_esce, Chiudi, loopVars
<1>2. CASE cliente_chiede(c)
  BY <1>2 DEF cliente_chiede, Chiudi, loopVars
<1>3. CASE cliente_esito(c)
  <2>1. fase[c] = "esito" /\ coda' = coda
    BY <1>3 DEF cliente_esito, loopVars
  <2>2. \/ \E o : Stato(c, o) /\ finC' = finC
        \/ Chiudi(c)
    BY <1>3 DEF cliente_esito, Consuma, FineConnessione, reteVars
  <2> QED
    BY <2>1, <2>2 DEF Stato, Chiudi
<1>4. CASE cliente_file(c)
  BY <1>4 DEF cliente_file, Consuma, FineConnessione, reteVars, loopVars
<1> QED
  BY <1>1, <1>2, <1>3, <1>4

\* The children write on their own connection only.
LEMMA FiglioLascia ==
  ASSUME NEW c \in ClientS, Figlio(c)
  PROVE  /\ UNCHANGED <<coda, aperti, pc, finC, fase, chiesto, ricevuti, detto, numero>>
         /\ figlio[c] \in {"read", "invio"}
BY DEF Figlio, figlio_apre, figlio_invia, figlio_zero, figlio_termina, loopVars, clienteVars

LEMMA FiglioMuove ==
  ASSUME TypeOK, NEW c \in ClientS, Figlio(c)
  PROVE  \/ /\ \E f \in {"read", "invio"} : figlio' = [figlio EXCEPT ![c] = f]
            /\ zombie' = zombie /\ finS' = finS
         \/ /\ figlio' = [figlio EXCEPT ![c] = "finito"] /\ c \in finC /\ zombie' = zombie \cup {c}
            /\ finS' = finS \cup {c}
<1>0. figlio \in [ClientS -> {"nessuno", "read", "invio", "finito"}]
  BY DEF TypeOK
<1>1. CASE figlio_apre(c)
  <2>1. /\ figlio' = [figlio EXCEPT ![c] = "invio"] \/ (figlio' = figlio /\ figlio[c] = "read")
        /\ zombie' = zombie /\ finS' = finS
    BY <1>1 DEF figlio_apre, figlioVars, figliVars
  <2> QED
    BY <1>0, <2>1
<1>2. CASE figlio_invia(c)
  <2>1. figlio' = figlio /\ figlio[c] = "invio" /\ zombie' = zombie /\ finS' = finS
    BY <1>2 DEF figlio_invia, figliVars
  <2> QED
    BY <1>0, <2>1
<1>3. CASE figlio_zero(c)
  BY <1>3 DEF figlio_zero, figliVars
<1>4. CASE figlio_termina(c)
  BY <1>4 DEF figlio_termina, exit
<1> QED
  BY <1>1, <1>2, <1>3, <1>4 DEF Figlio

LEMMA CodaStep == TypeOK /\ CodaInv /\ [Next]_vars => CodaInv'
<1> SUFFICES ASSUME TypeOK, CodaInv, [Next]_vars PROVE CodaInv'
  OBVIOUS
<1>0. /\ CicloTipato(ClientS) /\ CodaSemplice
      /\ fase \in [ClientS -> {"avvio", "menu", "esito", "file", "fine"}]
      /\ figlio \in [ClientS -> {"nessuno", "read", "invio", "finito"}]
  BY TipiDivisi DEF TipiParti, CodaInv, TypeOK
<1>1. ASSUME NEW c \in ClientS, padre_accept(c) PROVE CodaInv'
  <2>1. /\ InCoda(c) /\ ~InCoda(c)' /\ CodaSemplice'
        /\ \A h : h # c => (InCoda(h)' <=> InCoda(h))
    BY <1>0, <1>1, AccettaCoda DEF padre_accept
  <2>2. /\ aperti' = aperti \cup {c} /\ figlio' = [figlio EXCEPT ![c] = "read"]
        /\ UNCHANGED <<fase, finC, zombie>>
    BY <1>1 DEF padre_accept, fork, clienteVars, reteVars
  <2> QED
    BY <1>0, <2>1, <2>2 DEF CodaInv, Coerente
<1>2. ASSUME NEW c \in ClientS, padre_fork_fallita(c) PROVE CodaInv'
  <2>1. /\ InCoda(c) /\ ~InCoda(c)' /\ CodaSemplice'
        /\ \A h : h # c => (InCoda(h)' <=> InCoda(h))
    BY <1>0, <1>2, AccettaCoda DEF padre_fork_fallita
  <2>2. aperti' = aperti \cup {c} /\ UNCHANGED <<fase, finC, zombie, figlio>>
    BY <1>2 DEF padre_fork_fallita, clienteVars, reteVars, figlioVars, figliVars
  <2> QED
    BY <1>0, <2>1, <2>2 DEF CodaInv, Coerente
<1>3. CASE padre_close
  <2>1. coda' = coda /\ aperti' = {} /\ UNCHANGED <<fase, finC, zombie, figlio>>
    BY <1>3 DEF padre_close, clienteVars, figlioVars, figliVars
  <2> QED
    BY <2>1, CodaFerma DEF CodaInv, Coerente
<1>4. CASE padre_exit
  <2>1. coda' = <<>> /\ aperti' = {} /\ UNCHANGED <<fase, finC, zombie, figlio>>
    BY <1>4 DEF padre_exit, accept_fallita, clienteVars, figlioVars, figliVars
  <2> QED
    BY <2>1, CodaVuota DEF CodaInv, Coerente
<1>5. CASE (select /\ UNCHANGED <<clienteVars, reteVars, figlioVars>>) \/ padre_conteggio
  <2>1. coda' = coda /\ UNCHANGED <<aperti, fase, finC, zombie, figlio>>
    BY <1>5 DEF select, padre_conteggio, recvfrom_sendto, clienteVars, reteVars, figlioVars, figliVars
  <2> QED
    BY <2>1, CodaFerma DEF CodaInv, Coerente
<1>6. CASE Gestore
  <2>1. coda' = coda /\ zombie' \subseteq zombie /\ UNCHANGED <<aperti, fase, finC, figlio>>
    BY <1>6 DEF Gestore, SIGCHLD, gestore, loopVars, clienteVars, reteVars, figlioVars
  <2> QED
    BY <2>1, CodaFerma DEF CodaInv, Coerente
<1>7. ASSUME NEW c \in ClientS, Figlio(c) PROVE CodaInv'
  <2>1. UNCHANGED <<coda, aperti, finC, fase>> /\ figlio[c] \in {"read", "invio"}
    BY <1>7, FiglioLascia
  <2>2. \A d \in ClientS : InCoda(d)' <=> InCoda(d)
    BY <2>1, CodaFerma
  <2>3. Coerente(c)'
    BY <1>0, <1>7, <2>1, <2>2, FiglioMuove DEF CodaInv, Coerente
  <2>4. ASSUME NEW d \in ClientS, d # c PROVE Coerente(d)'
    BY <1>0, <1>7, <2>1, <2>2, <2>4, FiglioMuove DEF CodaInv, Coerente
  <2> QED
    BY <1>0, <2>1, <2>3, <2>4, CodaFerma DEF CodaInv
<1>8. ASSUME NEW c \in ClientS, cliente_connect(c) PROVE CodaInv'
  <2>1. fase[c] = "avvio" /\ UNCHANGED <<aperti, finC, zombie, figlio>>
    BY <1>8 DEF cliente_connect, reteVars, figlioVars, figliVars
  <2>2. ~InCoda(c) /\ c \notin aperti /\ figlio[c] = "nessuno" /\ c \notin zombie
    BY <2>1 DEF CodaInv, Coerente
  <2>3. CASE coda' = coda /\ fase' = [fase EXCEPT ![c] = "fine"]
    BY <1>0, <2>1, <2>2, <2>3, CodaFerma DEF CodaInv, Coerente
  <2>4. CASE coda' = Append(coda, c) /\ fase' = [fase EXCEPT ![c] = "menu"]
    <3>1. InCoda(c)' /\ CodaSemplice' /\ \A h : h # c => (InCoda(h)' <=> InCoda(h))
      BY <1>0, <2>2, <2>4, ConnettiCoda DEF CicloTipato
    <3>2. Coerente(c)'
      BY <1>0, <2>1, <2>2, <2>4 DEF CodaInv, Coerente
    <3>3. ASSUME NEW d \in ClientS, d # c PROVE Coerente(d)'
      BY <1>0, <2>1, <2>4, <3>1, <3>3 DEF CodaInv, Coerente
    <3> QED
      BY <3>1, <3>2, <3>3 DEF CodaInv
  <2> QED
    BY <1>8, <2>3, <2>4 DEF cliente_connect
<1>9. ASSUME NEW c \in ClientS,
             cliente_esce(c) \/ cliente_chiede(c) \/ cliente_esito(c) \/ cliente_file(c)
      PROVE  CodaInv'
  <2>1. UNCHANGED <<aperti, zombie, figlio>>
    BY <1>9, ClienteLascia DEF Cliente
  <2>2. coda' = coda /\ fase[c] \in {"menu", "esito", "file"}
    BY <1>9, FaseCliente
  <2>3. \A d \in ClientS : InCoda(d)' <=> InCoda(d)
    BY <2>2, CodaFerma
  <2>4. Coerente(c)'
    BY <1>0, <1>9, <2>1, <2>2, <2>3, FaseCliente DEF CodaInv, Coerente
  <2>5. ASSUME NEW d \in ClientS, d # c PROVE Coerente(d)'
    BY <1>0, <1>9, <2>1, <2>3, <2>5, FaseCliente DEF CodaInv, Coerente
  <2> QED
    BY <1>0, <2>2, <2>4, <2>5, CodaFerma DEF CodaInv
<1>10. CASE ClienteU /\ UNCHANGED <<loopVars, figliVars, clienteVars, reteVars, figlioVars>>
  <2>1. coda' = coda /\ UNCHANGED <<aperti, fase, finC, zombie, figlio>>
    BY <1>10 DEF loopVars, clienteVars, reteVars, figlioVars, figliVars
  <2> QED
    BY <2>1, CodaFerma DEF CodaInv, Coerente
<1>11. CASE UNCHANGED vars
  <2>1. coda' = coda /\ UNCHANGED <<aperti, fase, finC, zombie, figlio>>
    BY <1>11 DEF vars, loopVars, clienteVars, reteVars, figlioVars, figliVars
  <2> QED
    BY <2>1, CodaFerma DEF CodaInv, Coerente
<1> QED
  BY <1>1, <1>2, <1>3, <1>4, <1>5, <1>6, <1>7, <1>8, <1>9, <1>10, <1>11 DEF Next, Padre, Cliente
-----------------------------------------------------------------------------
(* One connection: the request, the answer in flight, the child, the client. *)

\* Nothing of connection c moves.
Ferma(c) ==
  /\ fase'[c] = fase[c] /\ chiesto'[c] = chiesto[c] /\ ricevuti'[c] = ricevuti[c]
  /\ andata'[c] = andata[c] /\ canale'[c] = canale[c]
  /\ figlio'[c] = figlio[c] /\ aperto'[c] = aperto[c] /\ inviati'[c] = inviati[c]
  /\ c \in finS' <=> c \in finS

LEMMA AllineataFerma ==
  ASSUME NEW c \in ClientS, Ferma(c), Allineata(c) PROVE Allineata(c)'
BY DEF Ferma, Allineata, Attende, Negata, InArrivo

LEMMA VivaFerma ==
  ASSUME NEW c \in ClientS, Ferma(c), InCoda(c)' <=> InCoda(c), Viva(c)' PROVE Viva(c)
BY DEF Ferma, Viva

LEMMA AllineataFine == ASSUME NEW c \in ClientS, fase'[c] = "fine" PROVE Allineata(c)'
BY DEF Allineata

\* The types of one connection.
LEMMA TipiConnessione ==
  ASSUME TypeOK, NEW c \in ClientS
  PROVE  /\ andata[c] \in Seq(Nomi) /\ canale[c] \in Seq(Voci)
         /\ ricevuti[c] \in Nat /\ inviati[c] \in Nat
BY TipiDivisi DEF TipiParti, TipiRete, TipiCliente, TipiFiglio

\* A step of a child or of a client of connection c is no step of another one.
LEMMA AltriFermi ==
  ASSUME TypeOK, CodaInv, NEW c \in ClientS, Figlio(c) \/ Cliente(c), NEW d \in ClientS, d # c
  PROVE  Ferma(d) /\ (InCoda(d)' <=> InCoda(d))
<1>0. /\ fase \in [ClientS -> {"avvio", "menu", "esito", "file", "fine"}]
      /\ figlio \in [ClientS -> {"nessuno", "read", "invio", "finito"}]
      /\ CicloTipato(ClientS) /\ CodaSemplice
  BY TipiDivisi DEF TipiParti, TypeOK, CodaInv
<1>3. /\ d \in DOMAIN andata /\ d \in DOMAIN canale /\ d \in DOMAIN aperto /\ d \in DOMAIN inviati
      /\ d \in DOMAIN fase /\ d \in DOMAIN chiesto /\ d \in DOMAIN ricevuti
  <2>1. TipiParti
    BY TipiDivisi
  <2>2. d \in DOMAIN andata /\ d \in DOMAIN canale
    BY <2>1 DEF TipiParti, TipiRete
  <2>3. d \in DOMAIN aperto /\ d \in DOMAIN inviati
    BY <2>1 DEF TipiParti, TipiFiglio
  <2>4. d \in DOMAIN fase /\ d \in DOMAIN chiesto /\ d \in DOMAIN ricevuti
    BY <2>1 DEF TipiParti, TipiCliente
  <2> QED
    BY <2>2, <2>3, <2>4
<1>1. ASSUME Figlio(c) PROVE Ferma(d) /\ (InCoda(d)' <=> InCoda(d))
  <2>1. /\ UNCHANGED <<fase, chiesto, ricevuti>> /\ coda' = coda
        /\ figlio'[d] = figlio[d] /\ (d \in finS' <=> d \in finS)
    BY <1>0, <1>1, FiglioLascia, FiglioMuove
  <2>2. /\ andata'[d] = andata[d] /\ canale'[d] = canale[d]
        /\ aperto'[d] = aperto[d] /\ inviati'[d] = inviati[d]
    <3>1. CASE figlio_apre(c)
      BY <1>3, <3>1 DEF figlio_apre, Scrivi, figlioVars
    <3>2. CASE figlio_invia(c)
      BY <1>3, <3>2 DEF figlio_invia, Scrivi
    <3>3. CASE figlio_zero(c)
      BY <1>3, <3>3 DEF figlio_zero, Scrivi
    <3>4. CASE figlio_termina(c)
      BY <3>4 DEF figlio_termina
    <3> QED
      BY <1>1, <3>1, <3>2, <3>3, <3>4 DEF Figlio
  <2> QED
    BY <2>1, <2>2, CodaFerma DEF Ferma
<1>2. ASSUME Cliente(c) PROVE Ferma(d) /\ (InCoda(d)' <=> InCoda(d))
  <2>1. UNCHANGED <<figlio, aperto, inviati, finS>>
    BY <1>2, ClienteLascia
  <2>2. /\ fase'[d] = fase[d] /\ chiesto'[d] = chiesto[d] /\ ricevuti'[d] = ricevuti[d]
        /\ andata'[d] = andata[d] /\ canale'[d] = canale[d]
    <3>1. CASE cliente_connect(c)
      BY <1>3, <3>1 DEF cliente_connect, reteVars
    <3>2. CASE cliente_esce(c)
      BY <1>3, <3>2 DEF cliente_esce, Chiudi
    <3>3. CASE cliente_chiede(c)
      BY <1>3, <3>3 DEF cliente_chiede, Chiudi
    <3>4. CASE cliente_esito(c)
      BY <1>3, <3>4 DEF cliente_esito, Consuma, FineConnessione, reteVars, Stato, Chiudi
    <3>5. CASE cliente_file(c)
      BY <1>3, <3>5 DEF cliente_file, Consuma, FineConnessione, reteVars
    <3> QED
      BY <1>2, <3>1, <3>2, <3>3, <3>4, <3>5 DEF Cliente
  <2>3. InCoda(d)' <=> InCoda(d)
    <3>1. CASE cliente_connect(c)
      <4>1. coda' = coda \/ (coda' = Append(coda, c) /\ fase[c] = "avvio")
        BY <3>1 DEF cliente_connect
      <4>2. fase[c] = "avvio" => ~InCoda(c)
        BY DEF CodaInv, Coerente
      <4> QED
        BY <1>0, <4>1, <4>2, CodaFerma, ConnettiCoda DEF CicloTipato
    <3>2. CASE ~cliente_connect(c)
      BY <1>2, <3>2, FaseCliente, CodaFerma DEF Cliente
    <3> QED
      BY <3>1, <3>2
  <2> QED
    BY <2>1, <2>2, <2>3 DEF Ferma
<1> QED
  BY <1>1, <1>2

\* The step of the child keeps its own connection aligned.
LEMMA AllineataFiglio ==
  ASSUME Inv, NEW c \in ClientS, Figlio(c), Allineata(c) PROVE Allineata(c)'
<1>0. /\ andata[c] \in Seq(Nomi) /\ canale[c] \in Seq(Voci)
      /\ ricevuti[c] \in Nat /\ inviati[c] \in Nat
  BY TipiConnessione DEF Inv
<1>1. /\ UNCHANGED <<fase, chiesto, ricevuti>> /\ figlio[c] \in {"read", "invio"}
      /\ fase[c] \in {"avvio", "menu", "esito", "file", "fine"}
      /\ c \in DOMAIN canale /\ c \in DOMAIN figlio /\ c \in DOMAIN andata
      /\ c \in DOMAIN aperto /\ c \in DOMAIN inviati
  <2>1. TipiParti
    BY TipiDivisi DEF Inv
  <2>2. c \in DOMAIN canale /\ c \in DOMAIN andata
    BY <2>1 DEF TipiParti, TipiRete
  <2>3. c \in DOMAIN figlio /\ c \in DOMAIN aperto /\ c \in DOMAIN inviati
    BY <2>1 DEF TipiParti, TipiFiglio
  <2>4. fase[c] \in {"avvio", "menu", "esito", "file", "fine"}
    BY <2>1 DEF TipiParti, TipiCliente
  <2> QED
    BY <2>2, <2>3, <2>4, FiglioLascia
<1>2. CASE fase[c] = "fine"
  BY <1>1, <1>2, AllineataFine
<1>3. CASE fase[c] # "fine" /\ figlio_apre(c)
  <2>1. /\ figlio[c] = "read" /\ andata[c] # <<>> /\ c \notin finS /\ c \notin finS'
        /\ andata'[c] = Tail(andata[c])
    BY <1>1, <1>3 DEF figlio_apre, Allineata
  <2>2. fase[c] = "esito" /\ Attende(c) /\ ricevuti[c] = 0
    BY <1>1, <1>3, <2>1 DEF Allineata, InArrivo, Negata
  <2>3. Head(andata[c]) = chiesto[c] /\ Tail(andata[c]) = <<>> /\ canale[c] = <<>>
    BY <2>2 DEF Attende
  <2>4. CASE chiesto[c] \in Esistenti
    <3>1. /\ canale'[c] = <<"S">> /\ figlio'[c] = "invio" /\ aperto'[c] = chiesto[c]
          /\ inviati'[c] = 0
      BY <1>1, <1>3, <2>3, <2>4 DEF figlio_apre, Scrivi
    <3>2. Byte[chiesto[c]] \in Nat
      BY <2>4, Server2Assumption DEF Esistenti
    <3>3. Flusso(<<"S">>, 1, 0, "x", 0)
      BY DEF Flusso
    <3>4. InArrivo(c, 1)'
      BY <1>1, <2>1, <2>2, <2>3, <2>4, <3>1, <3>2, <3>3 DEF InArrivo
    <3> QED
      BY <1>1, <2>1, <2>2, <3>4 DEF Allineata
  <2>5. CASE chiesto[c] \notin Esistenti
    <3>1. canale'[c] = <<"N">> /\ figlio'[c] = "read"
      BY <1>1, <1>3, <2>1, <2>3, <2>5 DEF figlio_apre, Scrivi, figlioVars
    <3>2. Negata(c)'
      BY <1>1, <2>1, <2>3, <2>5, <3>1 DEF Negata
    <3> QED
      BY <1>1, <2>1, <2>2, <3>2 DEF Allineata
  <2> QED
    BY <2>4, <2>5
<1>4. CASE fase[c] # "fine" /\ (figlio_invia(c) \/ figlio_zero(c))
  <2>1. /\ figlio[c] = "invio" /\ c \notin finS /\ c \notin finS' /\ andata' = andata
        /\ aperto' = aperto
    BY <1>4 DEF figlio_invia, figlio_zero, Allineata
  <2>2. PICK p \in {0, 1} : /\ InArrivo(c, p)
                            /\ (p = 1 /\ fase[c] = "esito" /\ ricevuti[c] = 0)
                                 \/ (p = 0 /\ fase[c] = "file")
    BY <1>1, <1>4, <2>1 DEF Allineata, Attende, Negata
  <2> DEFINE n == inviati[c] - ricevuti[c]
  <2>3. /\ andata[c] = <<>> /\ chiesto[c] \in Esistenti /\ aperto[c] = chiesto[c]
        /\ p = 1 => canale[c][1] = "S"
        /\ n \in Nat /\ inviati[c] <= Byte[chiesto[c]]
        /\ Flusso(canale[c], p, n, "x", 0)
    BY <2>1, <2>2 DEF InArrivo
  <2>4. Byte[chiesto[c]] \in Nat
    BY <2>3, Server2Assumption DEF Esistenti
  <2>5. p = 1 => Len(canale[c]) >= 1
    BY <2>3 DEF Flusso
  <2>6. CASE figlio_invia(c)
    <3>1. /\ inviati[c] < Byte[chiesto[c]] /\ inviati'[c] = inviati[c] + 1
          /\ canale'[c] = Append(canale[c], "x") /\ figlio' = figlio
      BY <1>1, <2>3, <2>6 DEF figlio_invia, Scrivi
    <3>2. Flusso(canale'[c], p, n + 1, "x", 0)
      BY <1>0, <2>3, <3>1, FlussoScrivi DEF Voci
    <3>3. p = 1 => canale'[c][1] = "S"
      BY <1>0, <2>3, <2>5, <3>1
    <3>4. inviati'[c] - ricevuti'[c] = n + 1 /\ inviati'[c] <= Byte[chiesto[c]] /\ n + 1 \in Nat
      <4>1. ricevuti'[c] = ricevuti[c]
        BY <1>1
      <4>2. \A i, r \in Nat : i + 1 - r = (i - r) + 1
        OBVIOUS
      <4>3. \A i, b \in Nat : i < b => i + 1 <= b
        OBVIOUS
      <4> QED
        BY <1>0, <2>3, <2>4, <3>1, <4>1, <4>2, <4>3, SMTT(30)
    <3>5. InArrivo(c, p)'
      BY <1>1, <2>1, <2>3, <3>1, <3>2, <3>3, <3>4 DEF InArrivo
    <3> QED
      BY <1>1, <2>1, <2>2, <3>5 DEF Allineata
  <2>7. CASE figlio_zero(c)
    <3>1. /\ inviati[c] = Byte[chiesto[c]] /\ inviati' = inviati
          /\ canale'[c] = Append(canale[c], "0") /\ figlio'[c] = "read"
      BY <1>1, <2>3, <2>7 DEF figlio_zero, Scrivi
    <3>2. Flusso(canale'[c], p, n, "x", 1)
      BY <1>0, <2>3, <3>1, FlussoTermina DEF Voci
    <3>3. p = 1 => canale'[c][1] = "S"
      BY <1>0, <2>3, <2>5, <3>1
    <3>4. Byte[chiesto'[c]] - ricevuti'[c] = n
      BY <1>1, <3>1
    <3>5. InArrivo(c, p)'
      BY <1>1, <2>1, <2>3, <3>1, <3>2, <3>3, <3>4 DEF InArrivo
    <3> QED
      BY <1>1, <2>1, <2>2, <3>5 DEF Allineata
  <2> QED
    BY <1>4, <2>6, <2>7
<1>5. CASE figlio_termina(c)
  <2>1. fase[c] = "fine"
    BY <1>5 DEF figlio_termina, Inv, CodaInv, Coerente
  <2> QED
    BY <1>2, <2>1
<1> QED
  BY <1>2, <1>3, <1>4, <1>5 DEF Figlio

\* What a client that is connected to a child, or may still be, reads.
LEMMA EsitoVivo ==
  ASSUME Inv, NEW c \in ClientS, cliente_esito(c), Allineata(c), Viva(c)
  PROVE  \/ fase'[c] = "fine" /\ detto' = detto
         \/ Negata(c) /\ Consuma(c, "N") /\ Stato(c, "N")
         \/ InArrivo(c, 1) /\ Consuma(c, "S") /\ Stato(c, "S")
<1>1. fase[c] = "esito" /\ c \in DOMAIN fase
  BY DEF cliente_esito, Inv, TypeOK
<1>2. c \notin finS /\ (Attende(c) \/ Negata(c) \/ InArrivo(c, 1))
  BY <1>1 DEF Allineata
<1>3. ~FineConnessione(c)
  BY <1>2 DEF FineConnessione
<1>4. CASE Chiudi(c) /\ detto' = detto
  BY <1>1, <1>4 DEF Chiudi
<1>5. ASSUME NEW o \in {"S", "N", "x", "0"}, Consuma(c, o), Stato(c, o)
      PROVE  \/ Negata(c) /\ Consuma(c, "N") /\ Stato(c, "N")
             \/ InArrivo(c, 1) /\ Consuma(c, "S") /\ Stato(c, "S")
  <2>1. canale[c] # <<>> /\ o = Head(canale[c])
    BY <1>5 DEF Consuma
  <2>2. ~Attende(c)
    BY <2>1 DEF Attende
  <2>3. Negata(c) => o = "N"
    BY <2>1 DEF Negata
  <2>4. InArrivo(c, 1) => o = "S"
    BY <2>1, StatoInTesta DEF Inv
  <2> QED
    BY <1>2, <1>5, <2>2, <2>3, <2>4
<1> QED
  BY <1>3, <1>4, <1>5 DEF cliente_esito

LEMMA FileVivo ==
  ASSUME Inv, NEW c \in ClientS, cliente_file(c), Allineata(c), Viva(c)
  PROVE  /\ fase[c] = "file" /\ InArrivo(c, 0) /\ c \notin finS
         /\ \/ /\ Consuma(c, "x") /\ ricevuti' = [ricevuti EXCEPT ![c] = @ + 1]
               /\ UNCHANGED <<fase, detto>>
            \/ /\ Consuma(c, "0") /\ ricevuti' = ricevuti
               /\ fase' = [fase EXCEPT ![c] = "menu"] /\ Annota(c, "file")
<1>1. fase[c] = "file"
  BY DEF cliente_file
<1>2. InArrivo(c, 0) /\ c \notin finS
  BY <1>1 DEF Allineata
<1>3. ~FineConnessione(c)
  BY <1>2 DEF FineConnessione
<1> QED
  BY <1>1, <1>2, <1>3 DEF cliente_file

\* What is left of the answer when an item of the file is read.
LEMMA FileLetto ==
  ASSUME TypeOK, NEW c \in ClientS, InArrivo(c, 0), NEW x \in {"x", "0"}, Consuma(c, x)
  PROVE  \/ /\ x = "x" /\ figlio[c] = "invio" /\ inviati[c] - ricevuti[c] - 1 \in Nat
            /\ Flusso(canale'[c], 0, inviati[c] - ricevuti[c] - 1, "x", 0)
         \/ /\ x = "x" /\ figlio[c] = "read" /\ Byte[chiesto[c]] - ricevuti[c] - 1 \in Nat
            /\ Flusso(canale'[c], 0, Byte[chiesto[c]] - ricevuti[c] - 1, "x", 1)
         \/ /\ x = "0" /\ figlio[c] = "read" /\ ricevuti[c] = Byte[chiesto[c]]
            /\ canale'[c] = <<>>
<1>0. /\ canale[c] \in Seq(Voci) /\ ricevuti[c] \in Nat /\ inviati[c] \in Nat
      /\ c \in DOMAIN canale
  BY TipiConnessione, TipiDivisi DEF TipiParti, TipiRete
<1>1. canale[c] # <<>> /\ x = Head(canale[c]) /\ canale'[c] = Tail(canale[c])
  BY <1>0 DEF Consuma
<1>2. CASE /\ figlio[c] = "invio" /\ inviati[c] - ricevuti[c] \in Nat
           /\ Flusso(canale[c], 0, inviati[c] - ricevuti[c], "x", 0)
  <2>1. inviati[c] - ricevuti[c] # 0
    BY <1>0, <1>1, <1>2, FlussoFinito
  <2>2. inviati[c] - ricevuti[c] \in Nat \ {0}
    BY <1>2, <2>1
  <2>3. /\ Head(canale[c]) = "x"
        /\ Flusso(Tail(canale[c]), 0, inviati[c] - ricevuti[c] - 1, "x", 0)
    BY <1>0, <1>2, <2>2, FlussoLeggi
  <2>4. inviati[c] - ricevuti[c] - 1 \in Nat
    BY <2>2
  <2> QED
    BY <1>1, <1>2, <2>3, <2>4
<1>3. CASE /\ figlio[c] = "read" /\ Byte[chiesto[c]] - ricevuti[c] \in Nat
           /\ Flusso(canale[c], 0, Byte[chiesto[c]] - ricevuti[c], "x", 1)
  <2>0. Byte[chiesto[c]] \in Nat
    BY Server2Assumption DEF InArrivo, Esistenti
  <2>1. CASE Byte[chiesto[c]] - ricevuti[c] = 0
    <3>1. Head(canale[c]) = "0" /\ Tail(canale[c]) = <<>>
      BY <1>0, <1>3, <2>1, FlussoFinito
    <3>2. ricevuti[c] = Byte[chiesto[c]]
      BY <1>0, <2>0, <2>1
    <3> QED
      BY <1>1, <1>3, <3>1, <3>2
  <2>2. CASE Byte[chiesto[c]] - ricevuti[c] # 0
    <3>1. Byte[chiesto[c]] - ricevuti[c] \in Nat \ {0}
      BY <1>3, <2>2
    <3>2. /\ Head(canale[c]) = "x"
          /\ Flusso(Tail(canale[c]), 0, Byte[chiesto[c]] - ricevuti[c] - 1, "x", 1)
      BY <1>0, <1>3, <3>1, FlussoLeggi
    <3>3. Byte[chiesto[c]] - ricevuti[c] - 1 \in Nat
      BY <3>1
    <3> QED
      BY <1>1, <1>3, <3>2, <3>3
  <2> QED
    BY <2>1, <2>2
<1> QED
  BY <1>2, <1>3 DEF InArrivo

LEMMA AllineataCliente ==
  ASSUME Inv, NEW c \in ClientS, Cliente(c), Viva(c), Allineata(c) PROVE Allineata(c)'
<1>0. /\ andata[c] \in Seq(Nomi) /\ canale[c] \in Seq(Voci)
      /\ ricevuti[c] \in Nat /\ inviati[c] \in Nat
  BY TipiConnessione DEF Inv
<1>1. /\ UNCHANGED <<figlio, aperto, inviati, finS>>
      /\ c \in DOMAIN canale /\ c \in DOMAIN andata
      /\ c \in DOMAIN fase /\ c \in DOMAIN chiesto /\ c \in DOMAIN ricevuti
  <2>1. TipiParti
    BY TipiDivisi DEF Inv
  <2>2. c \in DOMAIN canale /\ c \in DOMAIN andata
    BY <2>1 DEF TipiParti, TipiRete
  <2>3. c \in DOMAIN fase /\ c \in DOMAIN chiesto /\ c \in DOMAIN ricevuti
    BY <2>1 DEF TipiParti, TipiCliente
  <2> QED
    BY <2>2, <2>3, ClienteLascia
<1>2. CASE cliente_connect(c)
  <2>1. fase[c] = "avvio" /\ fase'[c] \in {"menu", "fine"} /\ UNCHANGED <<andata, canale>>
    BY <1>1, <1>2 DEF cliente_connect, reteVars
  <2> QED
    BY <1>1, <2>1 DEF Allineata
<1>3. CASE cliente_esce(c)
  BY <1>1, <1>3, AllineataFine DEF cliente_esce, Chiudi
<1>4. CASE cliente_chiede(c)
  <2>1. /\ fase[c] = "menu" /\ c \notin finS /\ canale[c] = <<>> /\ andata[c] = <<>>
        /\ figlio[c] \in {"nessuno", "read"}
    BY <1>4 DEF cliente_chiede, Allineata
  <2>2. PICK n \in Nomi : /\ chiesto' = [chiesto EXCEPT ![c] = n]
                          /\ andata' = [andata EXCEPT ![c] = Append(@, n)]
    BY <1>4, <2>1 DEF cliente_chiede
  <2>3. /\ fase'[c] = "esito" /\ ricevuti'[c] = 0 /\ canale' = canale
    BY <1>1, <1>4, <2>1 DEF cliente_chiede
  <2>4. andata'[c] = <<chiesto'[c]>>
    <3>1. chiesto'[c] = n /\ andata'[c] = Append(andata[c], n)
      BY <1>1, <2>2
    <3> QED
      BY <2>1, <3>1
  <2> QED
    BY <1>1, <2>1, <2>3, <2>4 DEF Allineata, Attende
<1>5. CASE cliente_esito(c)
  <2>0. c \notin finS /\ ricevuti[c] = 0
    BY <1>5 DEF cliente_esito, Allineata
  <2>1. CASE fase'[c] = "fine"
    BY <2>1, AllineataFine
  <2>2. CASE Negata(c) /\ Consuma(c, "N") /\ Stato(c, "N")
    <3>1. fase'[c] = "menu" /\ andata' = andata /\ canale'[c] = Tail(canale[c])
      BY <1>1, <2>2 DEF Consuma, Stato
    <3>2. canale[c] = <<"N">> /\ andata[c] = <<>> /\ figlio[c] = "read"
      BY <2>2 DEF Negata
    <3>3. canale'[c] = <<>>
      BY <3>1, <3>2
    <3> QED
      BY <1>1, <2>0, <3>1, <3>2, <3>3 DEF Allineata
  <2>3. CASE InArrivo(c, 1) /\ Consuma(c, "S") /\ Stato(c, "S")
    <3>1. /\ fase'[c] = "file" /\ UNCHANGED <<andata, chiesto, ricevuti>>
          /\ canale'[c] = Tail(canale[c])
      BY <1>1, <2>3 DEF Consuma, Stato
    <3>2. \A n \in Nat, z \in {0, 1} : Flusso(canale[c], 1, n, "x", z) => Flusso(canale'[c], 0, n, "x", z)
      BY <1>0, <3>1, FlussoInizia
    <3>3. InArrivo(c, 0)'
      BY <1>1, <2>3, <3>1, <3>2 DEF InArrivo
    <3> QED
      BY <1>1, <2>0, <3>1, <3>3 DEF Allineata
  <2> QED
    BY <1>5, <2>1, <2>2, <2>3, EsitoVivo
<1>6. CASE cliente_file(c)
  <2>0. fase[c] = "file" /\ InArrivo(c, 0) /\ c \notin finS /\ TypeOK
    BY <1>6, FileVivo DEF Inv
  <2>1. UNCHANGED chiesto
    BY <1>6 DEF cliente_file
  <2>2. CASE /\ Consuma(c, "x") /\ ricevuti' = [ricevuti EXCEPT ![c] = @ + 1]
             /\ UNCHANGED <<fase, detto>>
    <3>1. andata' = andata /\ ricevuti'[c] = ricevuti[c] + 1 /\ fase'[c] = "file"
      BY <1>1, <2>0, <2>2 DEF Consuma
    <3>2. \/ /\ figlio[c] = "invio" /\ inviati[c] - ricevuti[c] - 1 \in Nat
             /\ Flusso(canale'[c], 0, inviati[c] - ricevuti[c] - 1, "x", 0)
          \/ /\ figlio[c] = "read" /\ Byte[chiesto[c]] - ricevuti[c] - 1 \in Nat
             /\ Flusso(canale'[c], 0, Byte[chiesto[c]] - ricevuti[c] - 1, "x", 1)
      BY <2>0, <2>2, FileLetto
    <3>3. \A i, r \in Nat : i - (r + 1) = i - r - 1
      OBVIOUS
    <3>4. chiesto[c] \in Esistenti /\ Byte[chiesto[c]] \in Nat
      BY <2>0, Server2Assumption DEF InArrivo, Esistenti
    <3>5. /\ inviati[c] - ricevuti'[c] = inviati[c] - ricevuti[c] - 1
          /\ Byte[chiesto[c]] - ricevuti'[c] = Byte[chiesto[c]] - ricevuti[c] - 1
      BY <1>0, <3>1, <3>3, <3>4
    <3>6. /\ andata[c] = <<>>
          /\ figlio[c] = "invio" => aperto[c] = chiesto[c] /\ inviati[c] <= Byte[chiesto[c]]
      BY <2>0 DEF InArrivo
    <3>7. InArrivo(c, 0)'
      BY <1>1, <2>1, <3>1, <3>2, <3>4, <3>5, <3>6 DEF InArrivo
    <3> QED
      BY <1>1, <2>0, <3>1, <3>7 DEF Allineata
  <2>3. CASE /\ Consuma(c, "0") /\ ricevuti' = ricevuti
             /\ fase' = [fase EXCEPT ![c] = "menu"]
    <3>1. andata' = andata /\ fase'[c] = "menu"
      BY <1>1, <2>3 DEF Consuma
    <3>2. figlio[c] = "read" /\ canale'[c] = <<>>
      BY <2>0, <2>3, FileLetto
    <3>3. andata[c] = <<>>
      BY <2>0 DEF InArrivo
    <3> QED
      BY <1>1, <2>0, <3>1, <3>2, <3>3 DEF Allineata
  <2> QED
    BY <1>6, <2>2, <2>3, FileVivo
<1> QED
  BY <1>2, <1>3, <1>4, <1>5, <1>6 DEF Cliente

\* The steps of the server, seen from one connection.
LEMMA PadreConnessione ==
  ASSUME TypeOK, CodaInv, Padre \/ Gestore, NEW d \in ClientS
  PROVE  \/ Ferma(d) /\ (InCoda(d)' <=> InCoda(d))
         \/ /\ InCoda(d) /\ ~InCoda(d)' /\ figlio'[d] \in {figlio[d], "read"}
            /\ fase'[d] = fase[d] /\ chiesto'[d] = chiesto[d] /\ ricevuti'[d] = ricevuti[d]
            /\ andata'[d] = andata[d] /\ canale'[d] = canale[d] /\ aperto'[d] = aperto[d]
            /\ inviati'[d] = inviati[d] /\ (d \in finS' <=> d \in finS)
         \/ ~Viva(d) /\ ~Viva(d)' /\ figlio'[d] = "nessuno" /\ canale'[d] = canale[d]
         \/ InCoda(d) /\ ~Viva(d)' /\ figlio'[d] = "nessuno" /\ canale'[d] = <<"RST">>
<1>0. /\ CicloTipato(ClientS) /\ CodaSemplice
      /\ figlio \in [ClientS -> {"nessuno", "read", "invio", "finito"}]
      /\ coda \in Seq(ClientS)
  BY TipiDivisi DEF TipiParti, TypeOK, CodaInv, CicloTipato
<1>1. ASSUME NEW c \in ClientS, padre_accept(c) \/ padre_fork_fallita(c)
      PROVE  \/ Ferma(d) /\ (InCoda(d)' <=> InCoda(d))
             \/ /\ InCoda(d) /\ ~InCoda(d)' /\ figlio'[d] \in {figlio[d], "read"}
                /\ fase'[d] = fase[d] /\ chiesto'[d] = chiesto[d] /\ ricevuti'[d] = ricevuti[d]
                /\ andata'[d] = andata[d] /\ canale'[d] = canale[d] /\ aperto'[d] = aperto[d]
                /\ inviati'[d] = inviati[d] /\ (d \in finS' <=> d \in finS)
  <2>1. accept(c) /\ UNCHANGED <<fase, chiesto, ricevuti, andata, canale, aperto, inviati, finS>>
    BY <1>1 DEF padre_accept, padre_fork_fallita, clienteVars, reteVars, figlioVars
  <2>2. InCoda(c) /\ ~InCoda(c)' /\ \A h : h # c => (InCoda(h)' <=> InCoda(h))
    BY <1>0, <2>1, AccettaCoda
  <2>3. figlio' = figlio \/ figlio' = [figlio EXCEPT ![c] = "read"]
    BY <1>1 DEF padre_accept, padre_fork_fallita, figlioVars
  <2> QED
    BY <1>0, <2>1, <2>2, <2>3 DEF Ferma
<1>2. CASE padre_close
  <2>1. /\ UNCHANGED <<fase, chiesto, ricevuti, andata, canale, aperto, inviati, figlio>>
        /\ coda' = coda /\ finS' = finS \cup {c \in aperti : figlio[c] = "nessuno"}
    BY <1>2 DEF padre_close, clienteVars, figlioVars
  <2>2. InCoda(d)' <=> InCoda(d)
    BY <2>1, CodaFerma
  <2>3. CASE d \in aperti /\ figlio[d] = "nessuno"
    BY <2>1, <2>2, <2>3 DEF CodaInv, Coerente, Viva
  <2>4. CASE ~(d \in aperti /\ figlio[d] = "nessuno")
    BY <2>1, <2>2, <2>4 DEF Ferma
  <2> QED
    BY <2>3, <2>4
<1>3. CASE padre_exit
  <2>1. /\ UNCHANGED <<fase, chiesto, ricevuti, andata, aperto, inviati, figlio, finS>>
        /\ coda' = <<>>
        /\ canale' = [c \in ClientS |->
                        IF \E i \in DOMAIN coda : coda[i] = c THEN <<"RST">> ELSE canale[c]]
    BY <1>3 DEF padre_exit, accept_fallita, clienteVars, figlioVars
  <2>2. canale'[d] = IF InCoda(d) THEN <<"RST">> ELSE canale[d]
    BY <1>0, <2>1 DEF InCoda
  <2>3. ~InCoda(d)'
    BY <2>1, CodaVuota
  <2>4. CASE InCoda(d)
    BY <2>1, <2>2, <2>3, <2>4 DEF CodaInv, Coerente, Viva
  <2>5. CASE ~InCoda(d)
    BY <2>1, <2>2, <2>3, <2>5 DEF Ferma
  <2> QED
    BY <2>4, <2>5
<1>4. CASE \/ select /\ UNCHANGED <<clienteVars, reteVars, figlioVars>>
           \/ padre_conteggio
           \/ Gestore
  <2>1. coda' = coda /\ UNCHANGED <<clienteVars, reteVars, figlioVars>>
    BY <1>4 DEF select, padre_conteggio, recvfrom_sendto, Gestore, loopVars
  <2> QED
    BY <2>1, CodaFerma DEF Ferma, clienteVars, reteVars, figlioVars
<1> QED
  BY <1>1, <1>2, <1>3, <1>4 DEF Padre

LEMMA AllineataAccettata ==
  ASSUME NEW d \in ClientS, Allineata(d), figlio[d] = "nessuno", figlio'[d] \in {"nessuno", "read"},
         fase'[d] = fase[d], chiesto'[d] = chiesto[d], ricevuti'[d] = ricevuti[d],
         andata'[d] = andata[d], canale'[d] = canale[d], aperto'[d] = aperto[d],
         inviati'[d] = inviati[d], d \in finS' <=> d \in finS
  PROVE  Allineata(d)'
BY DEF Allineata, Attende, Negata, InArrivo

\* A step of anybody leaves connection d as it was, or is a step of its own
\* child or client.
LEMMA VivaResta ==
  ASSUME TypeOK, CodaInv, NEW c \in ClientS, Figlio(c) \/ Cliente(c), Viva(c)' PROVE Viva(c)
<1>0. fase[c] \in {"avvio", "menu", "esito", "file", "fine"}
  BY DEF TypeOK
<1>1. CASE Figlio(c)
  BY <1>1, FiglioLascia DEF Viva
<1>2. CASE cliente_connect(c)
  BY <1>2 DEF cliente_connect, Viva
<1>3. CASE cliente_esce(c) \/ cliente_chiede(c) \/ cliente_esito(c) \/ cliente_file(c)
  <2>1. fase'[c] # "avvio"
    <3>1. c \in DOMAIN fase
      BY DEF TypeOK
    <3> QED
      BY <1>3, <3>1, FaseCliente
  <2>2. InCoda(c)' <=> InCoda(c)
    BY <1>3, FaseCliente, CodaFerma
  <2>3. figlio' = figlio
    BY <1>3, ClienteLascia DEF Cliente
  <2> QED
    BY <2>1, <2>2, <2>3 DEF Viva
<1> QED
  BY <1>1, <1>2, <1>3 DEF Cliente

LEMMA AllineataStep == Inv /\ [Next]_vars => AllineataInv'
<1> SUFFICES ASSUME Inv, [Next]_vars, NEW d \in ClientS, Viva(d)' PROVE Allineata(d)'
  BY DEF AllineataInv
<1>0. TypeOK /\ CodaInv
  BY DEF Inv
<1>1. Viva(d) => Allineata(d)
  BY DEF Inv, AllineataInv
<1>2. CASE Padre \/ Gestore
  <2>1. CASE Ferma(d) /\ (InCoda(d)' <=> InCoda(d))
    BY <1>1, <2>1, VivaFerma, AllineataFerma
  <2>2. CASE /\ InCoda(d) /\ figlio'[d] \in {figlio[d], "read"}
             /\ fase'[d] = fase[d] /\ chiesto'[d] = chiesto[d] /\ ricevuti'[d] = ricevuti[d]
             /\ andata'[d] = andata[d] /\ canale'[d] = canale[d] /\ aperto'[d] = aperto[d]
             /\ inviati'[d] = inviati[d] /\ (d \in finS' <=> d \in finS)
    <3>1. Viva(d) /\ figlio[d] = "nessuno"
      BY <1>0, <2>2 DEF Viva, CodaInv, Coerente
    <3> QED
      BY <1>1, <2>2, <3>1, AllineataAccettata
  <2> QED
    BY <1>0, <1>2, <2>1, <2>2, PadreConnessione
<1>3. ASSUME NEW c \in ClientS, Figlio(c) \/ Cliente(c) PROVE Allineata(d)'
  <2>1. CASE d = c
    <3>1. Viva(c) /\ Allineata(c)
      BY <1>0, <1>1, <1>3, <2>1, VivaResta
    <3> QED
      BY <1>3, <2>1, <3>1, AllineataFiglio, AllineataCliente
  <2>2. CASE d # c
    BY <1>0, <1>1, <1>3, <2>2, AltriFermi, VivaFerma, AllineataFerma
  <2> QED
    BY <2>1, <2>2
<1>4. CASE \/ UNCHANGED vars
           \/ ClienteU /\ UNCHANGED <<loopVars, figliVars, clienteVars, reteVars, figlioVars>>
  <2>1. coda' = coda /\ UNCHANGED <<clienteVars, reteVars, figlioVars>>
    BY <1>4 DEF vars, loopVars
  <2>2. Ferma(d) /\ (InCoda(d)' <=> InCoda(d))
    BY <2>1, CodaFerma DEF Ferma, clienteVars, reteVars, figlioVars
  <2> QED
    BY <1>1, <2>2, VivaFerma, AllineataFerma
<1> QED
  BY <1>2, <1>3, <1>4 DEF Next
-----------------------------------------------------------------------------
(* What the users were shown. *)

LEMMA GiustaFerma ==
  ASSUME DettoInv, detto' = detto, \A d \in detto : d.client \in ClientS,
         \A c \in ClientS : /\ fase[c] # "avvio" => fase'[c] # "avvio"
                            /\ fase[c] # "avvio" /\ InCoda(c)' => InCoda(c)
                            /\ ~InCoda(c) /\ figlio[c] = "nessuno" => figlio'[c] = "nessuno"
  PROVE  DettoInv'
BY DEF DettoInv, Giusta

\* What a client writes down.
Nota(c, e) == [client |-> c, n |-> numero[c], nome |-> chiesto[c], esito |-> e, byte |-> ricevuti[c]]

LEMMA NotaCampi ==
  ASSUME NEW c, NEW e
  PROVE  /\ Nota(c, e).client = c /\ Nota(c, e).nome = chiesto[c]
         /\ Nota(c, e).esito = e /\ Nota(c, e).byte = ricevuti[c]
BY DEF Nota

LEMMA DettoCliente ==
  ASSUME NEW c \in ClientS, Cliente(c)
  PROVE  \/ detto' = detto
         \/ /\ cliente_esito(c) \/ cliente_file(c)
            /\ \E e : detto' = detto \cup {Nota(c, e)}
<1>1. CASE cliente_esito(c)
  <2>1. ASSUME NEW o, Stato(c, o) PROVE detto' = detto \/ \E e : detto' = detto \cup {Nota(c, e)}
    BY <2>1 DEF Stato, Annota, Nota
  <2> QED
    BY <1>1, <2>1 DEF cliente_esito
<1>2. CASE cliente_file(c)
  BY <1>2 DEF cliente_file, Annota, Nota
<1>3. CASE cliente_connect(c) \/ cliente_esce(c) \/ cliente_chiede(c)
  BY <1>3 DEF cliente_connect, cliente_esce, cliente_chiede
<1> QED
  BY <1>1, <1>2, <1>3 DEF Cliente

\* An answer shown to the client of a child is the right one.
LEMMA DettoNuovo ==
  ASSUME Inv, NEW c \in ClientS, cliente_esito(c) \/ cliente_file(c)
  PROVE  \/ detto' = detto
         \/ /\ ~InCoda(c)
            /\ \E e : /\ detto' = detto \cup {Nota(c, e)}
                      /\ figlio[c] # "nessuno" => Giusta(Nota(c, e))
<1>0. ricevuti[c] \in Nat /\ TypeOK
  BY TipiConnessione DEF Inv
<1>1. CASE ~Viva(c)
  <2>1. ~InCoda(c) /\ figlio[c] = "nessuno"
    BY <1>1 DEF Viva
  <2> QED
    BY <2>1, DettoCliente DEF Cliente
<1>2. CASE Viva(c) /\ cliente_esito(c)
  <2>1. Allineata(c)
    BY <1>2 DEF Inv, AllineataInv
  <2>2. CASE Negata(c) /\ Stato(c, "N")
    <3>1. detto' = detto \cup {Nota(c, "inesistente")}
      BY <2>2 DEF Stato, Annota, Nota
    <3>2. figlio[c] = "read" /\ chiesto[c] \notin Esistenti
      BY <2>2 DEF Negata
    <3>3. ~InCoda(c)
      BY <3>2 DEF Inv, CodaInv, Coerente
    <3>4. Giusta(Nota(c, "inesistente"))
      BY <3>2, NotaCampi DEF Giusta
    <3> QED
      BY <3>1, <3>3, <3>4
  <2>3. CASE Stato(c, "S")
    BY <2>3 DEF Stato
  <2> QED
    BY <1>2, <2>1, <2>2, <2>3, EsitoVivo
<1>3. CASE Viva(c) /\ cliente_file(c)
  <2>1. Allineata(c)
    BY <1>3 DEF Inv, AllineataInv
  <2>2. CASE InArrivo(c, 0) /\ Consuma(c, "0") /\ Annota(c, "file")
    <3>1. detto' = detto \cup {Nota(c, "file")}
      BY <2>2 DEF Annota, Nota
    <3>2. figlio[c] = "read" /\ ricevuti[c] = Byte[chiesto[c]]
      BY <1>0, <2>2, FileLetto
    <3>3. chiesto[c] \in Esistenti
      BY <2>2 DEF InArrivo
    <3>4. ~InCoda(c)
      BY <3>2 DEF Inv, CodaInv, Coerente
    <3>5. Giusta(Nota(c, "file"))
      BY <3>2, <3>3, NotaCampi DEF Giusta
    <3> QED
      BY <3>1, <3>4, <3>5
  <2> QED
    BY <1>3, <2>1, <2>2, FileVivo
<1> QED
  BY <1>1, <1>2, <1>3

LEMMA DettoStep == Inv /\ [Next]_vars => DettoInv'
<1> SUFFICES ASSUME Inv, [Next]_vars PROVE DettoInv'
  OBVIOUS
<1>0. /\ TypeOK /\ CodaInv /\ DettoInv /\ \A d \in detto : d.client \in ClientS
      /\ \A c \in ClientS : fase[c] \in {"avvio", "menu", "esito", "file", "fine"}
      /\ \A c \in ClientS : InCoda(c) => figlio[c] = "nessuno"
  BY DEF Inv, TipiInv, TypeOK, CodaInv, Coerente
<1>1. CASE Padre \/ Gestore
  <2>1. detto' = detto /\ fase' = fase
    BY <1>1 DEF Padre, padre_accept, padre_fork_fallita, padre_close, padre_exit, padre_conteggio,
       Gestore, clienteVars
  <2>2. \A c \in ClientS : /\ fase[c] # "avvio" /\ InCoda(c)' => InCoda(c)
                           /\ ~InCoda(c) /\ figlio[c] = "nessuno" => figlio'[c] = "nessuno"
    BY <1>0, <1>1, PadreConnessione DEF Ferma, Viva
  <2> QED
    BY <1>0, <2>1, <2>2, GiustaFerma
<1>2. ASSUME NEW c \in ClientS, Figlio(c) \/ cliente_connect(c) PROVE DettoInv'
  <2>1. detto' = detto
    BY <1>2, FiglioLascia DEF cliente_connect
  <2>2. ASSUME NEW d \in ClientS, d # c
        PROVE  /\ fase'[d] = fase[d] /\ (InCoda(d)' <=> InCoda(d)) /\ figlio'[d] = figlio[d]
    BY <1>0, <1>2, <2>2, AltriFermi DEF Ferma, Cliente
  <2>3. /\ fase[c] # "avvio" => fase'[c] # "avvio"
        /\ fase[c] # "avvio" /\ InCoda(c)' => InCoda(c)
        /\ ~InCoda(c) /\ figlio[c] = "nessuno" => figlio'[c] = "nessuno"
    <3>1. CASE Figlio(c)
      BY <3>1, FiglioLascia, CodaFerma
    <3>2. CASE cliente_connect(c)
      BY <3>2 DEF cliente_connect, figlioVars
    <3> QED
      BY <1>2, <3>1, <3>2
  <2>4. \A d \in ClientS : /\ fase[d] # "avvio" => fase'[d] # "avvio"
                           /\ fase[d] # "avvio" /\ InCoda(d)' => InCoda(d)
                           /\ ~InCoda(d) /\ figlio[d] = "nessuno" => figlio'[d] = "nessuno"
    BY <2>2, <2>3
  <2> QED
    BY <1>0, <2>1, <2>4, GiustaFerma
<1>3. ASSUME NEW c \in ClientS,
             cliente_esce(c) \/ cliente_chiede(c) \/ cliente_esito(c) \/ cliente_file(c)
      PROVE  DettoInv'
  <2>1. coda' = coda /\ fase[c] # "avvio" /\ figlio' = figlio
    BY <1>3, FaseCliente, ClienteLascia DEF Cliente
  <2>2. \A d \in ClientS : InCoda(d)' <=> InCoda(d)
    BY <2>1, CodaFerma
  <2>3. fase'[c] # "avvio"
    <3>1. c \in DOMAIN fase
      BY <1>0 DEF TypeOK
    <3> QED
      BY <1>3, <2>1, <3>1, FaseCliente
  <2>4. \A d \in ClientS : fase[d] # "avvio" => fase'[d] # "avvio"
    BY <1>0, <1>3, <2>3, AltriFermi DEF Ferma, Cliente
  <2>5. CASE detto' = detto
    BY <1>0, <2>1, <2>2, <2>4, <2>5, GiustaFerma
  <2>6. ASSUME NEW e, ~InCoda(c), detto' = detto \cup {Nota(c, e)},
               figlio[c] # "nessuno" => Giusta(Nota(c, e))
        PROVE  DettoInv'
    <3>1. \A d \in detto : /\ fase'[d.client] # "avvio" /\ ~InCoda(d.client)'
                           /\ figlio'[d.client] # "nessuno" => Giusta(d)
      BY <1>0, <2>1, <2>2, <2>4 DEF DettoInv
    <3>2. /\ fase'[c] # "avvio" /\ ~InCoda(c)'
          /\ figlio'[c] # "nessuno" => Giusta(Nota(c, e))
      BY <2>1, <2>2, <2>3, <2>6
    <3> DEFINE w == Nota(c, e)
    <3>3. w.client = c /\ detto' = detto \cup {w}
      BY <2>6, NotaCampi
    <3>4. figlio'[c] # "nessuno" => Giusta(w)
      BY <3>2
    <3> HIDE DEF w
    <3>5. \A d \in detto' : /\ fase'[d.client] # "avvio" /\ ~InCoda(d.client)'
                            /\ figlio'[d.client] # "nessuno" => Giusta(d)
      BY <3>1, <3>2, <3>3, <3>4 DEF InCoda
    <3>6. \A d : Giusta(d)' <=> Giusta(d)
      BY DEF Giusta
    <3> QED
      BY <3>5, <3>6 DEF DettoInv, InCoda
  <2> QED
    BY <1>3, <2>5, <2>6, DettoCliente, DettoNuovo DEF Cliente
<1>4. CASE \/ UNCHANGED vars
           \/ ClienteU /\ UNCHANGED <<loopVars, figliVars, clienteVars, reteVars, figlioVars>>
  <2>1. coda' = coda /\ UNCHANGED <<fase, figlio, detto>>
    BY <1>4 DEF vars, loopVars, clienteVars, figlioVars
  <2> QED
    BY <1>0, <2>1, CodaFerma, GiustaFerma
<1> QED
  BY <1>1, <1>2, <1>3, <1>4 DEF Next, Cliente
-----------------------------------------------------------------------------
(* The rest of the types. *)

LEMMA TipiInvFiglio ==
  ASSUME Inv, NEW c \in ClientS, Figlio(c)
  PROVE  /\ figlio'[c] = "invio" => aperto'[c] \in Esistenti
         /\ figlio'[c] # "nessuno"
<1>1. figlio[c] \in {"read", "invio"} /\ c \in DOMAIN figlio /\ c \in DOMAIN aperto
  BY FiglioLascia, TipiDivisi DEF TipiParti, TipiFiglio, Inv
<1>2. figlio'[c] # "nessuno"
  BY <1>1, FiglioMuove DEF Inv
<1>3. CASE figlio_apre(c)
  BY <1>1, <1>3 DEF figlio_apre, figlioVars
<1>4. CASE figlio_invia(c) \/ figlio_zero(c)
  <2>1. aperto' = aperto /\ figlio[c] = "invio"
    BY <1>4 DEF figlio_invia, figlio_zero
  <2> QED
    BY <1>2, <2>1 DEF Inv, TipiInv
<1>5. CASE figlio_termina(c)
  BY <1>1, <1>5 DEF figlio_termina
<1> QED
  BY <1>2, <1>3, <1>4, <1>5 DEF Figlio

LEMMA TipiInvStep == Inv /\ [Next]_vars => TipiInv'
<1> SUFFICES ASSUME Inv, [Next]_vars PROVE TipiInv'
  OBVIOUS
<1> DEFINE Canali == \A c \in ClientS :
                       figlio[c] = "nessuno" => canale[c] = <<>> \/ canale[c] = <<"RST">>
           Files  == \A c \in ClientS : figlio[c] = "invio" => aperto[c] \in Esistenti
<1>0. /\ TypeOK /\ CodaInv /\ numero \in [ClientS -> Nat] /\ Canali /\ Files
      /\ \A d \in detto : d.client \in ClientS
  BY DEF Inv, TipiInv
<1>1. CASE Padre \/ Gestore
  <2>1. UNCHANGED <<detto, numero, aperto>>
    BY <1>1 DEF Padre, padre_accept, padre_fork_fallita, padre_close, padre_exit, padre_conteggio,
       Gestore, clienteVars, figlioVars
  <2>2. \A c \in ClientS : figlio'[c] \in {figlio[c], "read", "nessuno"}
    BY <1>0, <1>1, PadreConnessione DEF Ferma
  <2>3. \A c \in ClientS : \/ canale'[c] = canale[c] /\ (figlio'[c] = "nessuno" => figlio[c] = "nessuno")
                           \/ canale'[c] = <<"RST">>
    <3>1. ASSUME NEW c \in ClientS, ~Viva(c) PROVE figlio[c] = "nessuno"
      BY <3>1 DEF Viva
    <3>2. ASSUME NEW c \in ClientS, InCoda(c) PROVE figlio[c] = "nessuno"
      BY <1>0, <3>2 DEF CodaInv, Coerente
    <3> QED
      BY <1>0, <1>1, <3>1, <3>2, PadreConnessione DEF Ferma
  <2> QED
    BY <1>0, <2>1, <2>2, <2>3 DEF TipiInv
<1>2. ASSUME NEW c \in ClientS, Figlio(c) PROVE TipiInv'
  <2>1. UNCHANGED <<detto, numero>>
    BY <1>2, FiglioLascia
  <2>2. \A d \in ClientS : d # c => figlio'[d] = figlio[d] /\ aperto'[d] = aperto[d] /\ canale'[d] = canale[d]
    BY <1>0, <1>2, AltriFermi DEF Ferma
  <2>3. (figlio'[c] = "invio" => aperto'[c] \in Esistenti) /\ figlio'[c] # "nessuno"
    BY <1>2, TipiInvFiglio
  <2> QED
    BY <1>0, <2>1, <2>2, <2>3 DEF TipiInv
<1>3. ASSUME NEW c \in ClientS, Cliente(c) PROVE TipiInv'
  <2>1. UNCHANGED <<figlio, aperto>>
    BY <1>3, ClienteLascia
  <2>2. numero' \in [ClientS -> Nat]
    <3>1. numero' = numero \/ numero' = [numero EXCEPT ![c] = @ + 1]
      BY <1>3 DEF Cliente, cliente_connect, cliente_esce, cliente_chiede, cliente_esito, Stato,
         cliente_file
    <3> QED
      BY <1>0, <3>1
  <2>3. \A d \in detto' : d.client \in ClientS
    BY <1>0, <1>3, DettoCliente, NotaCampi
  <2>4. canale'[c] = canale[c] \/ (canale[c] # <<>> /\ canale'[c] = Tail(canale[c]))
    <3>0. c \in DOMAIN canale
      BY <1>0, TipiDivisi DEF TipiParti, TipiRete
    <3>1. CASE cliente_connect(c) \/ cliente_esce(c) \/ cliente_chiede(c)
      BY <3>1 DEF cliente_connect, cliente_esce, cliente_chiede, reteVars
    <3>2. CASE cliente_esito(c) \/ cliente_file(c)
      BY <3>0, <3>2 DEF cliente_esito, cliente_file, Consuma, FineConnessione, reteVars
    <3> QED
      BY <1>3, <3>1, <3>2 DEF Cliente
  <2>5. figlio'[c] = "nessuno" => canale'[c] = <<>> \/ canale'[c] = <<"RST">>
    <3>1. Tail(<<"RST">>) = <<>>
      OBVIOUS
    <3> QED
      BY <1>0, <2>1, <2>4, <3>1
  <2>6. \A d \in ClientS : d # c => canale'[d] = canale[d]
    BY <1>0, <1>3, AltriFermi DEF Ferma
  <2> QED
    BY <1>0, <2>1, <2>2, <2>3, <2>5, <2>6 DEF TipiInv
<1>4. CASE \/ UNCHANGED vars
           \/ ClienteU /\ UNCHANGED <<loopVars, figliVars, clienteVars, reteVars, figlioVars>>
  <2>1. UNCHANGED <<detto, numero, aperto, figlio, canale>>
    BY <1>4 DEF vars, clienteVars, figlioVars, reteVars
  <2> QED
    BY <1>0, <2>1 DEF TipiInv
<1> QED
  BY <1>1, <1>2, <1>3, <1>4 DEF Next
-----------------------------------------------------------------------------
(* The theorems. *)

LEMMA InvInit == Init => Inv
<1> SUFFICES ASSUME Init PROVE Inv
  OBVIOUS
<1>1. TypeOK /\ FigliInv
  BY TipiInit
<1>2. /\ fase = [c \in ClientS |-> "avvio"] /\ numero = [c \in ClientS |-> 0]
      /\ andata = [c \in ClientS |-> <<>>] /\ canale = [c \in ClientS |-> <<>>]
      /\ finC = {} /\ finS = {} /\ figlio = [c \in ClientS |-> "nessuno"] /\ detto = {}
  BY DEF Init
<1>3. coda = <<>> /\ aperti = {} /\ pc = "select" /\ zombie = {}
  BY DEF Init, LoopInit, FigliInit
<1>4. TipiInv
  BY <1>2 DEF TipiInv
<1>5. ApertiInv
  BY <1>3 DEF ApertiInv
<1>6. CodaSemplice /\ \A c : ~InCoda(c)
  BY <1>3 DEF CodaSemplice, InCoda
<1>7. CodaInv
  BY <1>2, <1>3, <1>6 DEF CodaInv, Coerente
<1>8. AllineataInv
  BY <1>2 DEF AllineataInv, Allineata
<1>9. DettoInv
  BY <1>2 DEF DettoInv
<1> QED
  BY <1>1, <1>4, <1>5, <1>7, <1>8, <1>9 DEF Inv

LEMMA InvStep == Inv /\ [Next]_vars => Inv'
<1> SUFFICES ASSUME Inv, [Next]_vars PROVE Inv'
  OBVIOUS
<1>1. TypeOK' /\ FigliInv'
  BY TypeStep
<1>2. TipiInv'
  BY TipiInvStep
<1>3. ApertiInv' /\ CodaInv'
  BY ApertiStep, CodaStep DEF Inv
<1>4. AllineataInv' /\ DettoInv'
  BY AllineataStep, DettoStep
<1> QED
  BY <1>1, <1>2, <1>3, <1>4 DEF Inv

\* Inv holds of every reachable state: on every connection that has a child, or
\* may still get one, what is in flight is what the child has written of the
\* answer to the current request and the client has not read.
THEOREM InvInvariante == Spec => []Inv
BY InvInit, InvStep, PTL DEF Spec

\* The types of all variables, for every instance; that no status is a byte of
\* a file is part of them.
THEOREM TypeOKInvariante == Spec => []TypeOK
<1>1. Inv => TypeOK
  BY DEF Inv
<1> QED
  BY <1>1, InvInvariante, PTL

\* Every answer a client with a child is shown is the one of the name it has
\* just asked, and complete: for any number of clients, requests and files, of
\* any length, empty ones included.
THEOREM RisposteAllineateSempre == Spec => []RisposteAllineate
<1>1. Inv => RisposteAllineate
  BY DEF Inv, DettoInv, Giusta, RisposteAllineate
<1> QED
  BY <1>1, InvInvariante, PTL

\* However many clients connect and whatever forks fail, a server that may hold
\* one descriptor never runs out of them.
THEOREM ServerVivoSempre == Spec => []ServerVivo
<1>1. Inv => ServerVivo
  BY DEF Inv, ApertiInv, ServerVivo
<1> QED
  BY <1>1, InvInvariante, PTL

\* The server never sleeps in its signal handler, for any number of children.
THEOREM GestoreNonBloccaSempre == Spec => []GestoreNonBlocca
<1>1. Inv => GestoreNonBlocca
  BY GestoreMaiVuoto DEF Inv
<1> QED
  BY <1>1, InvInvariante, PTL
=============================================================================
