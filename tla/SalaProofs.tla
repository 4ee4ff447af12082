----------------------------- MODULE SalaProofs -----------------------------
(***************************************************************************)
(* Proofs about Sala for every set of clients, every hall, every number of *)
(* calls and of copies of a datagram.                                      *)
(*                                                                         *)
(* UnSoloVincitore speaks of answers already given; it is not inductive,   *)
(* because an answer in flight, or a request not yet executed, could still *)
(* break it.  Inv adds what is known of both: a reply in flight agrees     *)
(* with the hall, and all the datagrams of one call carry one argument.    *)
(***************************************************************************)
EXTENDS Sala, TLAPS

\* Requests in flight and requests already answered.
Messaggi == richieste \cup {r.req : r \in risposte}

\* A call waits with a proper argument, and every datagram belongs to a call
\* already made and, if the call is the last one, carries its argument.
DatagrammiInv ==
  /\ \A c \in Client : fase[c] = "attesa" => arg[c] \in Input /\ xid[c] \in 1 .. MaxChiamate[c]
  /\ \A c \in Client : xid[c] <= MaxChiamate[c]
  /\ \A m \in Messaggi : /\ m.xid \in 1 .. xid[m.client]
                         /\ m.xid = xid[m.client] => m.arg = arg[m.client]

\* All the datagrams of one call carry the same argument.
CopieUguali == \A m, n \in Messaggi : Autore(m) = Autore(n) => m.arg = n.arg

\* A seat given to a call is taken, and is the seat that call asks for.
TitolareInv ==
  \A p \in Postazioni, c \in Client : \A x \in 1 .. MaxChiamate[c] :
    titolare[p] = <<c, x>> =>
      /\ SalaCorrente[p] # "L"
      /\ x <= xid[c]
      /\ x = xid[c] => arg[c] \in Prenota /\ arg[c].posto = p
      /\ \A m \in Messaggi : Autore(m) = <<c, x>> => m.arg \in Prenota /\ m.arg.posto = p

\* What an answer a says of the request i made by call k agrees with the hall.
Fondata(k, i, a) ==
  /\ i \in Vedi => a \in Viste
  /\ i \in Prenota => a \in Codici
  /\ i \in Prenota /\ a = [cod |-> 0] =>
       titolare[i.posto] = k /\ SalaCorrente[i.posto] = i.tipo
  /\ i \in Prenota /\ a = [cod |-> -2] => SalaCorrente[i.posto] # "L"

RisposteInv == /\ \A r \in risposte : Fondata(Autore(r.req), r.req.arg, r.ris)
               /\ \A e \in esiti : Fondata(e.chi, e.arg, e.ris)

Inv == TypeOK /\ DatagrammiInv /\ CopieUguali /\ TitolareInv /\ RisposteInv
-----------------------------------------------------------------------------
(* Types. *)

LEMMA InizialeTipata == SalaIniziale \in [Postazioni -> Stati]
BY DEF SalaIniziale, Postazioni, Stati, Tipi

LEMMA CorrenteTipata == TypeOK => SalaCorrente \in [Postazioni -> Stati]
BY InizialeTipata DEF TypeOK, SalaCorrente

LEMMA TypeInit == Init => TypeOK
<1> SUFFICES ASSUME Init PROVE TypeOK
  OBVIOUS
<1>1. sala \in [Postazioni -> Stati \cup {"nul"}]
  BY DEF Init, SalaZero
<1>2. inizializzato \in BOOLEAN /\ (inizializzato => sala \in [Postazioni -> Stati])
  BY DEF Init
<1>3. /\ fase \in [Client -> {"menu", "attesa", "fine"}]
      /\ xid \in [Client -> Nat]
      /\ copie \in [Client -> 0 .. Tentativi]
      /\ arg \in [Client -> Input \cup {Nessuno}]
      /\ richieste = {} /\ risposte = {} /\ esiti = {}
  BY RpcAssumption DEF Init, RpcInit
<1>4. titolare \in [Postazioni -> Chiamate \cup {Nessuno}]
  BY DEF Init
<1> QED
  BY <1>1, <1>2, <1>3, <1>4 DEF TypeOK

\* A server procedure answers m with ris and leaves the hall laid out.
LEMMA TypeServi ==
  ASSUME TypeOK, DatagrammiInv, NEW m \in richieste, NEW ris \in Risultati,
         svc_sendreply(m, ris),
         sala' \in [Postazioni -> Stati], inizializzato' = TRUE,
         titolare' \in [Postazioni -> Chiamate \cup {Nessuno}],
         esiti' = esiti
  PROVE  TypeOK'
<1>1. [req |-> m, ris |-> ris] \in RispostaRpc(Input, Risultati)
  BY DEF RispostaRpc, TypeOK
<1>2. /\ richieste' \subseteq RichiestaRpc(Input)
      /\ risposte' \subseteq RispostaRpc(Input, Risultati)
  BY <1>1 DEF svc_sendreply, TypeOK
<1> QED
  BY <1>2 DEF svc_sendreply, TypeOK

\* A request made of the variables' own values is well typed.
LEMMA RichiestaTipata ==
  ASSUME NEW c \in Client, NEW x \in Nat, NEW n \in Nat, NEW i \in Input
  PROVE  Richiesta(c, x, n, i) \in RichiestaRpc(Input)
BY DEF Richiesta, RichiestaRpc

\* What a returned call tells its user is the server's answer to that very call.
LEMMA EsitoCampi ==
  ASSUME TypeOK, DatagrammiInv, NEW c \in Client, NEW r \in risposte, Restituisci(c, r)
  PROVE  Esito(c, r).chi = Autore(r.req) /\ Esito(c, r).arg = r.req.arg /\ Esito(c, r).ris = r.ris
<1>1. r.req \in Messaggi /\ r.req.client = c /\ r.req.xid = xid[c]
  BY DEF Messaggi, Restituisci
<1>2. r.req.arg = arg[c]
  BY <1>1 DEF DatagrammiInv
<1> QED
  BY <1>1, <1>2 DEF Esito, Autore

LEMMA TypeStep == TypeOK /\ DatagrammiInv /\ [Next]_vars => TypeOK'
<1> SUFFICES ASSUME TypeOK, DatagrammiInv, [Next]_vars PROVE TypeOK'
  OBVIOUS
<1> USE RpcAssumption
<1>1. ASSUME NEW m \in richieste, prenota_libera(m) PROVE TypeOK'
  <2>1. m \in RichiestaRpc(Input) /\ m.client \in Client /\ m.xid \in 1 .. xid[m.client]
    BY DEF TypeOK, RichiestaRpc, DatagrammiInv, Messaggi
  <2>2. Autore(m) \in Chiamate
    BY <2>1 DEF Autore, Chiamate, DatagrammiInv, TypeOK
  <2>3. m.arg.tipo \in Tipi /\ m.arg.posto \in Postazioni
    BY <1>1 DEF prenota_libera, Prenota
  <2>4. sala' \in [Postazioni -> Stati]
    BY <1>1, <2>3, CorrenteTipata DEF prenota_libera, Stati
  <2>5. titolare' \in [Postazioni -> Chiamate \cup {Nessuno}]
    BY <1>1, <2>2, <2>3 DEF prenota_libera, TypeOK
  <2>6. [cod |-> 0] \in Risultati
    BY DEF Risultati, Codici
  <2> QED
    BY <1>1, <2>4, <2>5, <2>6, TypeServi DEF prenota_libera
<1>2. ASSUME NEW m \in richieste, prenota_occupata(m) PROVE TypeOK'
  <2>1. [cod |-> -2] \in Risultati
    BY DEF Risultati, Codici
  <2>2. titolare' \in [Postazioni -> Chiamate \cup {Nessuno}]
    BY <1>2 DEF prenota_occupata, TypeOK
  <2> QED
    BY <1>2, <2>1, <2>2, CorrenteTipata, TypeServi DEF prenota_occupata
<1>3. ASSUME NEW m \in richieste, visualizza_stato(m) PROVE TypeOK'
  <2>1. [stato |-> SalaCorrente] \in Risultati
    BY CorrenteTipata DEF Risultati, Viste
  <2>2. titolare' \in [Postazioni -> Chiamate \cup {Nessuno}]
    BY <1>3 DEF visualizza_stato, TypeOK
  <2> QED
    BY <1>3, <2>1, <2>2, CorrenteTipata, TypeServi DEF visualizza_stato
<1>4. ASSUME NEW c \in Client, Chiama(c) PROVE TypeOK'
  <2>1. PICK i \in Input : clnt_call(c, i)
    BY <1>4 DEF Chiama
  <2>2. Richiesta(c, xid[c] + 1, 1, i) \in RichiestaRpc(Input)
    BY RichiestaTipata DEF TypeOK
  <2>3. richieste' \subseteq RichiestaRpc(Input)
    BY <2>1, <2>2 DEF clnt_call, TypeOK
  <2> QED
    BY <1>4, <2>1, <2>3 DEF clnt_call, Chiama, serverVars, TypeOK
<1>5. ASSUME NEW c \in Client, Leggi(c) PROVE TypeOK'
  <2>1. PICK r \in risposte : Restituisci(c, r) /\ esiti' = esiti \cup {Esito(c, r)}
    BY <1>5 DEF Leggi
  <2>2. r.req \in RichiestaRpc(Input) /\ r.ris \in Risultati
    BY DEF TypeOK, RispostaRpc
  <2>3. r.req \in Messaggi /\ r.req.client \in Client /\ r.req.arg \in Input
    BY <2>2 DEF Messaggi, RichiestaRpc
  <2>4. Autore(r.req) \in Chiamate
    BY <2>3 DEF Autore, Chiamate, DatagrammiInv, TypeOK
  <2>5. Esito(c, r) \in [chi : Chiamate, arg : Input, ris : Risultati]
    BY <2>1, <2>2, <2>3, <2>4, EsitoCampi DEF Esito
  <2> QED
    BY <1>5, <2>1, <2>5 DEF Leggi, Restituisci, serverVars, TypeOK
<1>6. ASSUME NEW c \in Client, Attesa(c) PROVE TypeOK'
  <2>1. CASE Ritrasmetti(c)
    <3>1. Richiesta(c, xid[c], copie[c] + 1, arg[c]) \in RichiestaRpc(Input)
      BY <2>1, RichiestaTipata DEF TypeOK, Ritrasmetti, DatagrammiInv
    <3>2. richieste' \subseteq RichiestaRpc(Input)
      BY <2>1, <3>1 DEF Ritrasmetti, TypeOK
    <3> QED
      BY <1>6, <2>1, <3>2 DEF Attesa, Ritrasmetti, serverVars, TypeOK
  <2>2. CASE Scaduto(c)
    BY <1>6, <2>2 DEF Attesa, Scaduto, serverVars, TypeOK
  <2> QED
    BY <1>6, <2>1, <2>2 DEF Attesa
<1>7. ASSUME NEW c \in Client, Esci(c) PROVE TypeOK'
  BY <1>7 DEF Esci, clnt_destroy, serverVars, TypeOK
<1>8. CASE UNCHANGED vars
  BY <1>8 DEF vars, rpcVars, serverVars, TypeOK
<1> QED
  BY <1>1, <1>2, <1>3, <1>4, <1>5, <1>6, <1>7, <1>8 DEF Next, Servi
-----------------------------------------------------------------------------
(* What each step does to the datagrams. *)

LEMMA MessaggiServi ==
  ASSUME NEW m \in richieste, NEW ris, svc_sendreply(m, ris)
  PROVE  Messaggi' = Messaggi
<1> DEFINE e == [req |-> m, ris |-> ris]
<1>1. richieste' = richieste \ {m} /\ risposte' = risposte \cup {e} /\ e.req = m
  BY DEF svc_sendreply
<1> HIDE DEF e
<1>2. {r.req : r \in risposte'} = {r.req : r \in risposte} \cup {m}
  BY <1>1
<1> QED
  BY <1>1, <1>2 DEF Messaggi

LEMMA MessaggiChiama ==
  ASSUME NEW c, NEW i, clnt_call(c, i)
  PROVE  Messaggi' = Messaggi \cup {Richiesta(c, xid[c] + 1, 1, i)}
BY DEF clnt_call, Messaggi

LEMMA MessaggiRitrasmetti ==
  ASSUME NEW c, Ritrasmetti(c)
  PROVE  Messaggi' = Messaggi \cup {Richiesta(c, xid[c], copie[c] + 1, arg[c])}
BY DEF Ritrasmetti, Messaggi

LEMMA MessaggiRestituisci ==
  ASSUME NEW c, NEW r \in risposte, Restituisci(c, r)
  PROVE  Messaggi' \subseteq Messaggi
BY DEF Restituisci, Messaggi

LEMMA MessaggiTipati == TypeOK => Messaggi \subseteq RichiestaRpc(Input)
BY DEF TypeOK, Messaggi, RispostaRpc

LEMMA RichiestaCampi ==
  ASSUME NEW c, NEW x, NEW n, NEW i
  PROVE  /\ Richiesta(c, x, n, i).client = c /\ Richiesta(c, x, n, i).xid = x
         /\ Richiesta(c, x, n, i).arg = i
BY DEF Richiesta

\* A step of a server procedure: only the reply, the hall and the holder move.
Servita(m) ==
  /\ UNCHANGED <<fase, xid, copie, arg, esiti>>
  /\ Messaggi' = Messaggi

LEMMA ServiServita ==
  ASSUME NEW m \in richieste, Servi(m) PROVE Servita(m)
BY MessaggiServi DEF Servi, Servita, prenota_libera, prenota_occupata, visualizza_stato,
   svc_sendreply

LEMMA DatagrammiStep ==
  TypeOK /\ DatagrammiInv /\ CopieUguali /\ [Next]_vars => DatagrammiInv' /\ CopieUguali'
<1> SUFFICES ASSUME TypeOK, DatagrammiInv, CopieUguali, [Next]_vars
             PROVE  DatagrammiInv' /\ CopieUguali'
  OBVIOUS
<1>0. \A m \in Messaggi : m.client \in Client /\ m.xid \in Nat
  BY MessaggiTipati DEF RichiestaRpc
<1>1. ASSUME NEW m \in richieste, Servi(m) PROVE DatagrammiInv' /\ CopieUguali'
  BY <1>1, ServiServita DEF Servita, DatagrammiInv, CopieUguali, Autore
<1>2. ASSUME NEW c \in Client, Chiama(c) PROVE DatagrammiInv' /\ CopieUguali'
  <2>1. PICK i \in Input : clnt_call(c, i)
    BY <1>2 DEF Chiama
  <2> DEFINE n == Richiesta(c, xid[c] + 1, 1, i)
  <2>2. n.client = c /\ n.xid = xid[c] + 1 /\ n.arg = i
    BY RichiestaCampi
  <2>3. Messaggi' = Messaggi \cup {n}
    BY <2>1, MessaggiChiama
  <2> HIDE DEF n
  <2>4. /\ xid' = [xid EXCEPT ![c] = @ + 1] /\ arg' = [arg EXCEPT ![c] = i]
        /\ fase' = [fase EXCEPT ![c] = "attesa"] /\ xid[c] < MaxChiamate[c]
    BY <2>1 DEF clnt_call
  <2>5. xid \in [Client -> Nat] /\ arg \in [Client -> Input \cup {Nessuno}]
        /\ fase \in [Client -> {"menu", "attesa", "fine"}] /\ MaxChiamate \in [Client -> Nat]
    BY RpcAssumption DEF TypeOK
  <2>6. \A d \in Client : /\ fase'[d] = "attesa" => arg'[d] \in Input /\ xid'[d] \in 1 .. MaxChiamate[d]
                         /\ xid'[d] <= MaxChiamate[d]
    BY <2>4, <2>5 DEF DatagrammiInv
  <2>7. \A m \in Messaggi' : m.xid \in 1 .. xid'[m.client]
                            /\ (m.xid = xid'[m.client] => m.arg = arg'[m.client])
    BY <1>0, <2>2, <2>3, <2>4, <2>5 DEF DatagrammiInv
  <2>8. \A m \in Messaggi : Autore(m) # Autore(n)
    BY <1>0, <2>2, <2>5 DEF DatagrammiInv, Autore
  <2>9. CopieUguali'
    BY <2>3, <2>8 DEF CopieUguali, Autore
  <2> QED
    BY <2>6, <2>7, <2>9 DEF DatagrammiInv
<1>3. ASSUME NEW c \in Client, Leggi(c) PROVE DatagrammiInv' /\ CopieUguali'
  <2>1. PICK r \in risposte : Restituisci(c, r)
    BY <1>3 DEF Leggi
  <2>2. Messaggi' \subseteq Messaggi /\ UNCHANGED <<xid, arg>> /\ fase' = [fase EXCEPT ![c] = "menu"]
    BY <2>1, MessaggiRestituisci DEF Restituisci
  <2> QED
    BY <2>2 DEF DatagrammiInv, CopieUguali, Autore, TypeOK
<1>4. ASSUME NEW c \in Client, Attesa(c) PROVE DatagrammiInv' /\ CopieUguali'
  <2>1. CASE Ritrasmetti(c)
    <3> DEFINE n == Richiesta(c, xid[c], copie[c] + 1, arg[c])
    <3>1. n.client = c /\ n.xid = xid[c] /\ n.arg = arg[c]
      BY RichiestaCampi
    <3>2. Messaggi' = Messaggi \cup {n}
      BY <2>1, MessaggiRitrasmetti
    <3> HIDE DEF n
    <3>3. UNCHANGED <<xid, arg, fase>> /\ xid[c] \in 1 .. MaxChiamate[c]
      BY <2>1 DEF Ritrasmetti, DatagrammiInv
    <3>4. DatagrammiInv'
      BY <1>0, <3>1, <3>2, <3>3, RpcAssumption DEF DatagrammiInv, TypeOK
    <3>5. \A m \in Messaggi : Autore(m) = Autore(n) => m.arg = n.arg
      BY <3>1 DEF DatagrammiInv, Autore
    <3>6. CopieUguali'
      BY <3>2, <3>5 DEF CopieUguali, Autore
    <3> QED
      BY <3>4, <3>6
  <2>2. CASE Scaduto(c)
    <3>1. UNCHANGED <<xid, arg, richieste, risposte>> /\ fase' = [fase EXCEPT ![c] = "fine"]
      BY <2>2 DEF Scaduto
    <3> QED
      BY <3>1 DEF DatagrammiInv, CopieUguali, Messaggi, TypeOK, Autore
  <2> QED
    BY <1>4, <2>1, <2>2 DEF Attesa
<1>5. ASSUME NEW c \in Client, Esci(c) PROVE DatagrammiInv' /\ CopieUguali'
  <2>1. UNCHANGED <<xid, arg, richieste, risposte>> /\ fase' = [fase EXCEPT ![c] = "fine"]
    BY <1>5 DEF Esci, clnt_destroy
  <2> QED
    BY <2>1 DEF DatagrammiInv, CopieUguali, Messaggi, TypeOK, Autore
<1>6. CASE UNCHANGED vars
  BY <1>6 DEF vars, rpcVars, DatagrammiInv, CopieUguali, Messaggi, Autore
<1> QED
  BY <1>1, <1>2, <1>3, <1>4, <1>5, <1>6 DEF Next
-----------------------------------------------------------------------------
(* The hall and its holders. *)

\* A step that leaves the hall and its holders alone.
SalaFerma == titolare' = titolare /\ SalaCorrente' = SalaCorrente

LEMMA SalaFermaClienti ==
  ASSUME UNCHANGED serverVars PROVE SalaFerma
BY DEF serverVars, SalaFerma, SalaCorrente

LEMMA SalaFermaServi ==
  ASSUME NEW m, prenota_occupata(m) \/ visualizza_stato(m) PROVE SalaFerma
BY DEF prenota_occupata, visualizza_stato, SalaFerma, SalaCorrente

\* What prenota_libera writes: one seat that was free.
LEMMA Assegnata ==
  ASSUME TypeOK, NEW m \in richieste, prenota_libera(m)
  PROVE  /\ m.arg \in Prenota /\ m.arg.posto \in Postazioni /\ m.arg.tipo \in Tipi
         /\ m.arg.tipo # "L"
         /\ SalaCorrente[m.arg.posto] = "L"
         /\ SalaCorrente' = [SalaCorrente EXCEPT ![m.arg.posto] = m.arg.tipo]
         /\ titolare' = [titolare EXCEPT ![m.arg.posto] = Autore(m)]
         /\ m \in Messaggi
BY DEF prenota_libera, Prenota, Tipi, SalaCorrente, Messaggi

LEMMA TitolareStep ==
  TypeOK /\ DatagrammiInv /\ CopieUguali /\ TitolareInv /\ [Next]_vars => TitolareInv'
<1> SUFFICES ASSUME TypeOK, DatagrammiInv, CopieUguali, TitolareInv, [Next]_vars
             PROVE  TitolareInv'
  OBVIOUS
<1>0. \A m \in Messaggi : m.client \in Client /\ m.xid \in Nat
  BY MessaggiTipati DEF RichiestaRpc
<1>1. ASSUME NEW m \in richieste, prenota_libera(m) PROVE TitolareInv'
  <2>1. UNCHANGED <<xid, arg>> /\ Messaggi' = Messaggi
    BY <1>1, ServiServita DEF Servi, Servita
  <2> SUFFICES ASSUME NEW p \in Postazioni, NEW c \in Client, NEW x \in 1 .. MaxChiamate[c],
                      titolare'[p] = <<c, x>>
               PROVE  /\ SalaCorrente'[p] # "L"
                      /\ x <= xid[c]
                      /\ x = xid[c] => arg[c] \in Prenota /\ arg[c].posto = p
                      /\ \A n \in Messaggi : Autore(n) = <<c, x>> => n.arg \in Prenota /\ n.arg.posto = p
    BY <2>1 DEF TitolareInv, Autore
  <2>2. CASE p # m.arg.posto
    BY <1>1, <2>2, Assegnata, CorrenteTipata DEF TitolareInv, TypeOK
  <2>3. CASE p = m.arg.posto
    <3>1. Autore(m) = <<c, x>> /\ m \in Messaggi
      BY <1>1, <2>3, Assegnata DEF TypeOK
    <3>2. m.client = c /\ m.xid = x
      BY <3>1 DEF Autore
    <3>3. SalaCorrente'[p] # "L"
      BY <1>1, <2>3, Assegnata, CorrenteTipata
    <3>4. x <= xid[c] /\ (x = xid[c] => arg[c] = m.arg)
      BY <3>1, <3>2 DEF DatagrammiInv, TypeOK
    <3>5. \A n \in Messaggi : Autore(n) = <<c, x>> => n.arg = m.arg
      BY <3>1 DEF CopieUguali
    <3> QED
      BY <1>1, <2>3, <3>3, <3>4, <3>5, Assegnata
  <2> QED
    BY <2>2, <2>3
<1>2. ASSUME NEW m \in richieste, prenota_occupata(m) \/ visualizza_stato(m) PROVE TitolareInv'
  BY <1>2, ServiServita, SalaFermaServi DEF Servi, Servita, SalaFerma, TitolareInv, Autore
<1>3. ASSUME NEW d \in Client, Chiama(d) PROVE TitolareInv'
  <2>1. PICK i \in Input : clnt_call(d, i)
    BY <1>3 DEF Chiama
  <2> DEFINE n == Richiesta(d, xid[d] + 1, 1, i)
  <2>2. n.client = d /\ n.xid = xid[d] + 1 /\ n.arg = i
    BY RichiestaCampi
  <2>3. Messaggi' = Messaggi \cup {n}
    BY <2>1, MessaggiChiama
  <2> HIDE DEF n
  <2>4. /\ xid' = [xid EXCEPT ![d] = @ + 1] /\ arg' = [arg EXCEPT ![d] = i]
        /\ xid \in [Client -> Nat] /\ arg \in [Client -> Input \cup {Nessuno}]
    BY <2>1 DEF clnt_call, TypeOK
  <2>5. SalaFerma
    BY <1>3, SalaFermaClienti DEF Chiama
  <2> SUFFICES ASSUME NEW p \in Postazioni, NEW c \in Client, NEW x \in 1 .. MaxChiamate[c],
                      titolare[p] = <<c, x>>
               PROVE  /\ SalaCorrente[p] # "L"
                      /\ x <= xid'[c]
                      /\ x = xid'[c] => arg'[c] \in Prenota /\ arg'[c].posto = p
                      /\ \A m \in Messaggi' : Autore(m) = <<c, x>> => m.arg \in Prenota /\ m.arg.posto = p
    BY <2>5 DEF TitolareInv, SalaFerma, Autore
  <2>6. x <= xid[c]
    BY DEF TitolareInv
  <2>7. x <= xid'[c] /\ (x = xid'[c] => c # d)
    BY <2>4, <2>6
  <2>8. Autore(n) # <<c, x>>
    BY <2>2, <2>4, <2>6 DEF Autore
  <2> QED
    BY <2>3, <2>4, <2>7, <2>8 DEF TitolareInv
<1>4. ASSUME NEW d \in Client, Leggi(d) PROVE TitolareInv'
  <2>1. PICK r \in risposte : Restituisci(d, r)
    BY <1>4 DEF Leggi
  <2>2. Messaggi' \subseteq Messaggi /\ UNCHANGED <<xid, arg>> /\ SalaFerma
    BY <1>4, <2>1, MessaggiRestituisci, SalaFermaClienti DEF Restituisci, Leggi
  <2> QED
    BY <2>2 DEF TitolareInv, SalaFerma, Autore
<1>5. ASSUME NEW d \in Client, Attesa(d) PROVE TitolareInv'
  <2>1. SalaFerma
    BY <1>5, SalaFermaClienti DEF Attesa
  <2>2. CASE Ritrasmetti(d)
    <3> DEFINE n == Richiesta(d, xid[d], copie[d] + 1, arg[d])
    <3>1. n.client = d /\ n.xid = xid[d] /\ n.arg = arg[d]
      BY RichiestaCampi
    <3>2. Messaggi' = Messaggi \cup {n} /\ UNCHANGED <<xid, arg>>
      BY <2>2, MessaggiRitrasmetti DEF Ritrasmetti
    <3> HIDE DEF n
    <3> SUFFICES ASSUME NEW p \in Postazioni, NEW c \in Client, NEW x \in 1 .. MaxChiamate[c],
                        titolare[p] = <<c, x>>, Autore(n) = <<c, x>>
                 PROVE  n.arg \in Prenota /\ n.arg.posto = p
      BY <2>1, <3>2 DEF TitolareInv, SalaFerma, Autore
    <3>3. c = d /\ x = xid[c]
      BY <3>1 DEF Autore
    <3> QED
      BY <3>1, <3>3 DEF TitolareInv
  <2>3. CASE Scaduto(d)
    BY <2>1, <2>3 DEF Scaduto, TitolareInv, SalaFerma, Messaggi, Autore
  <2> QED
    BY <1>5, <2>2, <2>3 DEF Attesa
<1>6. ASSUME NEW d \in Client, Esci(d) PROVE TitolareInv'
  BY <1>6, SalaFermaClienti DEF Esci, clnt_destroy, TitolareInv, SalaFerma, Messaggi, Autore
<1>7. CASE UNCHANGED vars
  BY <1>7, SalaFermaClienti DEF vars, rpcVars, TitolareInv, SalaFerma, Messaggi, Autore
<1> QED
  BY <1>1, <1>2, <1>3, <1>4, <1>5, <1>6, <1>7 DEF Next, Servi
-----------------------------------------------------------------------------
(* The answers agree with the hall. *)

LEMMA FondataFerma ==
  ASSUME SalaFerma, NEW k, NEW i, NEW a, Fondata(k, i, a) PROVE Fondata(k, i, a)'
BY DEF SalaFerma, Fondata

LEMMA FondataAssegnata ==
  ASSUME TypeOK, NEW m \in richieste, prenota_libera(m),
         NEW k, NEW i \in Input, NEW a, Fondata(k, i, a)
  PROVE  Fondata(k, i, a)'
<1>1. ASSUME i \in Prenota PROVE i.posto \in Postazioni /\ i.tipo # "L"
  BY <1>1 DEF Prenota, Tipi
<1>2. ASSUME NEW p \in Postazioni, SalaCorrente[p] # "L"
      PROVE  titolare'[p] = titolare[p] /\ SalaCorrente'[p] = SalaCorrente[p]
  BY <1>2, Assegnata, CorrenteTipata DEF TypeOK
<1> QED
  BY <1>1, <1>2 DEF Fondata

\* The reply of each procedure, seen in the state it leaves.
LEMMA RispostaFondata ==
  ASSUME TypeOK, NEW m \in richieste, Servi(m)
  PROVE  \E ris : Fondata(Autore(m), m.arg, ris)' /\ risposte' = risposte \cup {[req |-> m, ris |-> ris]}
<1>1. CASE prenota_libera(m)
  <2>1. titolare'[m.arg.posto] = Autore(m) /\ SalaCorrente'[m.arg.posto] = m.arg.tipo
    BY <1>1, Assegnata, CorrenteTipata DEF TypeOK
  <2>2. [cod |-> 0] # [cod |-> -2] /\ [cod |-> 0] \in Codici /\ m.arg \notin Vedi
    BY <1>1, Assegnata DEF Codici, Prenota, Vedi
  <2>3. Fondata(Autore(m), m.arg, [cod |-> 0])'
    BY <2>1, <2>2 DEF Fondata
  <2> QED
    BY <1>1, <2>3 DEF prenota_libera, svc_sendreply
<1>2. CASE prenota_occupata(m)
  <2>1. SalaCorrente' = SalaCorrente /\ SalaCorrente[m.arg.posto] # "L"
    BY <1>2, SalaFermaServi DEF SalaFerma, prenota_occupata
  <2>2. [cod |-> 0] # [cod |-> -2] /\ [cod |-> -2] \in Codici /\ m.arg \notin Vedi
    BY <1>2 DEF Codici, Prenota, Vedi, prenota_occupata
  <2>3. Fondata(Autore(m), m.arg, [cod |-> -2])'
    BY <2>1, <2>2 DEF Fondata
  <2> QED
    BY <1>2, <2>3 DEF prenota_occupata, svc_sendreply
<1>3. CASE visualizza_stato(m)
  <2>1. PICK v : v = [stato |-> SalaCorrente]
    OBVIOUS
  <2>2. v \in Viste /\ m.arg \notin Prenota
    BY <1>3, <2>1, CorrenteTipata DEF Viste, Vedi, Prenota, visualizza_stato
  <2>3. Fondata(Autore(m), m.arg, v)'
    BY <2>2 DEF Fondata
  <2> QED
    BY <1>3, <2>1, <2>3 DEF visualizza_stato, svc_sendreply
<1> QED
  BY <1>1, <1>2, <1>3 DEF Servi

LEMMA RisposteStep ==
  TypeOK /\ DatagrammiInv /\ RisposteInv /\ [Next]_vars => RisposteInv'
<1> SUFFICES ASSUME TypeOK, DatagrammiInv, RisposteInv, [Next]_vars PROVE RisposteInv'
  OBVIOUS
<1>0. /\ \A r \in risposte : r.req.arg \in Input
      /\ \A e \in esiti : e.arg \in Input
  BY DEF TypeOK, RispostaRpc, RichiestaRpc
<1>1. ASSUME NEW m \in richieste, Servi(m) PROVE RisposteInv'
  <2>1. \A k, a : \A i \in Input : Fondata(k, i, a) => Fondata(k, i, a)'
    BY <1>1, FondataFerma, FondataAssegnata, SalaFermaServi DEF Servi
  <2>2. PICK ris : Fondata(Autore(m), m.arg, ris)' /\ risposte' = risposte \cup {[req |-> m, ris |-> ris]}
    BY <1>1, RispostaFondata
  <2> DEFINE n == [req |-> m, ris |-> ris]
  <2>3. n.req = m /\ n.ris = ris /\ risposte' = risposte \cup {n}
    BY <2>2
  <2> HIDE DEF n
  <2>4. \A r \in risposte : Fondata(Autore(r.req), r.req.arg, r.ris)'
    BY <1>0, <2>1 DEF RisposteInv, Autore
  <2>5. \A r \in risposte' : Fondata(Autore(r.req), r.req.arg, r.ris)'
    BY <2>2, <2>3, <2>4 DEF Autore
  <2>6. esiti' = esiti
    BY <1>1, ServiServita DEF Servita
  <2> QED
    BY <1>0, <2>1, <2>5, <2>6 DEF RisposteInv, Autore
<1>2. ASSUME NEW c \in Client, Leggi(c) PROVE RisposteInv'
  <2>1. PICK r \in risposte : Restituisci(c, r) /\ esiti' = esiti \cup {Esito(c, r)}
    BY <1>2 DEF Leggi
  <2>2. SalaFerma
    BY <1>2, SalaFermaClienti DEF Leggi
  <2>3. \A k, i, a : Fondata(k, i, a) => Fondata(k, i, a)'
    BY <2>2, FondataFerma
  <2>4. Esito(c, r).chi = Autore(r.req) /\ Esito(c, r).arg = r.req.arg /\ Esito(c, r).ris = r.ris
    BY <1>2, <2>1, EsitoCampi
  <2>5. risposte' \subseteq risposte
    BY <2>1 DEF Restituisci
  <2> QED
    BY <2>1, <2>3, <2>4, <2>5 DEF RisposteInv, Autore
<1>3. ASSUME NEW c \in Client, Chiama(c) \/ Attesa(c) \/ Esci(c) PROVE RisposteInv'
  <2>1. SalaFerma /\ UNCHANGED <<risposte, esiti>>
    BY <1>3, SalaFermaClienti
       DEF Chiama, Attesa, Esci, clnt_call, Ritrasmetti, Scaduto, clnt_destroy
  <2> QED
    BY <2>1, FondataFerma DEF RisposteInv, Autore
<1>4. CASE UNCHANGED vars
  BY <1>4, SalaFermaClienti, FondataFerma DEF vars, rpcVars, RisposteInv, Autore
<1> QED
  BY <1>1, <1>2, <1>3, <1>4 DEF Next

-----------------------------------------------------------------------------
(* The theorems. *)

LEMMA InvInit == Init => Inv
<1> SUFFICES ASSUME Init PROVE Inv
  OBVIOUS
<1>1. TypeOK
  BY TypeInit
<1>2. richieste = {} /\ risposte = {} /\ Messaggi = {} /\ esiti = {}
  BY DEF Init, RpcInit, Messaggi
<1>3. DatagrammiInv /\ CopieUguali
  BY <1>2, RpcAssumption DEF Init, RpcInit, DatagrammiInv, CopieUguali
<1>4. TitolareInv
  BY SalaAssumption DEF Init, TitolareInv
<1>5. RisposteInv
  BY <1>2 DEF RisposteInv
<1> QED
  BY <1>1, <1>3, <1>4, <1>5 DEF Inv

LEMMA InvStep == Inv /\ [Next]_vars => Inv'
BY TypeStep, DatagrammiStep, TitolareStep, RisposteStep DEF Inv

\* Inv holds of every reachable state: the hall, the answers in flight and the
\* requests not yet executed agree, however many copies of them there are.
THEOREM InvInvariante == Spec => []Inv
BY InvInit, InvStep, PTL DEF Spec

\* The types of all variables, for every instance.
THEOREM TypeOKInvariante == Spec => []TypeOK
<1>1. Inv => TypeOK
  BY DEF Inv
<1> QED
  BY <1>1, InvInvariante, PTL

\* No two calls are ever told that the same seat is theirs, and a seat that
\* was confirmed stays as it was confirmed, for every number of clients,
\* calls and retransmissions.
THEOREM UnSoloVincitoreSempre == Spec => []UnSoloVincitore
<1>1. Inv => UnSoloVincitore
  BY DEF Inv, RisposteInv, Fondata, UnSoloVincitore, Confermata
<1> QED
  BY <1>1, InvInvariante, PTL
-----------------------------------------------------------------------------
(* What one client is told never goes back in time. *)

\* The hall h contains what the answer a told of the request i.
Contenuta(i, a, h) ==
  /\ i \in Prenota /\ a = [cod |-> 0]  => h[i.posto] = i.tipo
  /\ i \in Prenota /\ a = [cod |-> -2] => h[i.posto] # "L"
  /\ "stato" \in DOMAIN a => \A p \in Postazioni : a.stato[p] # "L" => h[p] = a.stato[p]

\* If b is a view, it contains what a told of i.
Seguita(i, a, b) == "stato" \in DOMAIN b => Contenuta(i, a, b.stato)

\* The hall contains every answer, read or in flight; and an answer already
\* read is contained in every view of a later call of that client, also in one
\* that is still in flight.
VisteInv ==
  /\ \A r \in risposte : Contenuta(r.req.arg, r.ris, SalaCorrente)
  /\ \A e \in esiti : Contenuta(e.arg, e.ris, SalaCorrente)
  /\ \A e \in esiti, r \in risposte :
       e.chi[1] = r.req.client /\ e.chi[2] < r.req.xid => Seguita(e.arg, e.ris, r.ris)
  /\ \A e, f \in esiti :
       e.chi[1] = f.chi[1] /\ e.chi[2] < f.chi[2] => Seguita(e.arg, e.ris, f.ris)
  /\ \A e \in esiti : e.chi[2] <= xid[e.chi[1]]

\* A taken seat keeps its state, whatever the step.
LEMMA SalaCresce ==
  ASSUME TypeOK, [Next]_vars
  PROVE  \A p \in Postazioni : SalaCorrente[p] # "L" => SalaCorrente'[p] = SalaCorrente[p]
<1>1. ASSUME NEW m \in richieste, prenota_libera(m)
      PROVE  \A p \in Postazioni : SalaCorrente[p] # "L" => SalaCorrente'[p] = SalaCorrente[p]
  BY <1>1, Assegnata, CorrenteTipata
<1>2. ASSUME NEW m \in richieste, prenota_occupata(m) \/ visualizza_stato(m) PROVE SalaFerma
  BY <1>2, SalaFermaServi
<1>3. ASSUME NEW c \in Client, Chiama(c) \/ Leggi(c) \/ Attesa(c) \/ Esci(c) PROVE SalaFerma
  BY <1>3, SalaFermaClienti DEF Chiama, Leggi, Attesa, Esci
<1>4. CASE UNCHANGED vars
  BY <1>4, SalaFermaClienti DEF vars, SalaFerma
<1> QED
  BY <1>1, <1>2, <1>3, <1>4 DEF Next, Servi, SalaFerma

\* What a hall contains, a hall with more seats taken contains.
LEMMA ContenutaCresce ==
  ASSUME NEW h, NEW g, \A p \in Postazioni : h[p] # "L" => g[p] = h[p],
         NEW i \in Input, NEW a, Contenuta(i, a, h)
  PROVE  Contenuta(i, a, g)
<1>1. i \in Prenota => i.posto \in Postazioni /\ i.tipo # "L"
  BY DEF Prenota, Tipi
<1> QED
  BY <1>1 DEF Contenuta

\* The answer of a procedure is in the hall it leaves, and a view is that hall.
LEMMA RispostaContenuta ==
  ASSUME TypeOK, NEW m \in richieste, Servi(m)
  PROVE  \E ris : /\ risposte' = risposte \cup {[req |-> m, ris |-> ris]}
                  /\ Contenuta(m.arg, ris, SalaCorrente')
                  /\ "stato" \in DOMAIN ris => ris.stato = SalaCorrente'
<1>1. [cod |-> 0] # [cod |-> -2] /\ "stato" \notin DOMAIN [cod |-> 0] /\ "stato" \notin DOMAIN [cod |-> -2]
  OBVIOUS
<1>2. CASE prenota_libera(m)
  <2>1. Contenuta(m.arg, [cod |-> 0], SalaCorrente')
    BY <1>1, <1>2, Assegnata, CorrenteTipata DEF Contenuta
  <2> QED
    BY <1>1, <1>2, <2>1 DEF prenota_libera, svc_sendreply
<1>3. CASE prenota_occupata(m)
  <2>1. Contenuta(m.arg, [cod |-> -2], SalaCorrente')
    BY <1>1, <1>3, SalaFermaServi DEF Contenuta, SalaFerma, prenota_occupata
  <2> QED
    BY <1>1, <1>3, <2>1 DEF prenota_occupata, svc_sendreply
<1>4. CASE visualizza_stato(m)
  <2>1. PICK v : v = [stato |-> SalaCorrente]
    OBVIOUS
  <2>2. v.stato = SalaCorrente' /\ m.arg \notin Prenota
    BY <1>4, <2>1, SalaFermaServi DEF SalaFerma, visualizza_stato, Vedi, Prenota
  <2>3. Contenuta(m.arg, v, SalaCorrente')
    BY <2>2 DEF Contenuta
  <2> QED
    BY <1>4, <2>1, <2>2, <2>3 DEF visualizza_stato, svc_sendreply
<1> QED
  BY <1>2, <1>3, <1>4 DEF Servi

LEMMA VisteStep == TypeOK /\ DatagrammiInv /\ VisteInv /\ [Next]_vars => VisteInv'
<1> SUFFICES ASSUME TypeOK, DatagrammiInv, VisteInv, [Next]_vars PROVE VisteInv'
  OBVIOUS
<1>0. /\ \A r \in risposte : r.req.arg \in Input
      /\ \A e \in esiti : e.arg \in Input /\ e.chi[1] \in Client /\ e.chi[2] \in Nat
  BY DEF TypeOK, RispostaRpc, RichiestaRpc, Chiamate
<1>1. \A i \in Input : \A a : Contenuta(i, a, SalaCorrente) => Contenuta(i, a, SalaCorrente')
  BY SalaCresce, ContenutaCresce
<1>2. ASSUME NEW m \in richieste, Servi(m) PROVE VisteInv'
  <2>1. PICK ris : /\ risposte' = risposte \cup {[req |-> m, ris |-> ris]}
                   /\ Contenuta(m.arg, ris, SalaCorrente')
                   /\ "stato" \in DOMAIN ris => ris.stato = SalaCorrente'
    BY <1>2, RispostaContenuta
  <2> DEFINE n == [req |-> m, ris |-> ris]
  <2>2. n.req = m /\ n.ris = ris /\ risposte' = risposte \cup {n}
    BY <2>1
  <2> HIDE DEF n
  <2>3. esiti' = esiti /\ xid' = xid
    BY <1>2, ServiServita DEF Servita
  <2>4. \A r \in risposte' : Contenuta(r.req.arg, r.ris, SalaCorrente')
    BY <1>0, <1>1, <2>1, <2>2 DEF VisteInv
  <2>5. \A e \in esiti : Contenuta(e.arg, e.ris, SalaCorrente')
    BY <1>0, <1>1 DEF VisteInv
  <2>6. \A e \in esiti : Seguita(e.arg, e.ris, n.ris)
    BY <2>1, <2>2, <2>5 DEF Seguita
  <2> QED
    BY <2>2, <2>3, <2>4, <2>5, <2>6 DEF VisteInv
<1>3. ASSUME NEW c \in Client, Leggi(c) PROVE VisteInv'
  <2>1. PICK r \in risposte : Restituisci(c, r) /\ esiti' = esiti \cup {Esito(c, r)}
    BY <1>3 DEF Leggi
  <2>2. SalaCorrente' = SalaCorrente
    BY <1>3, SalaFermaClienti DEF Leggi, SalaFerma
  <2>3. risposte' \subseteq risposte /\ xid' = xid /\ r.req.client = c /\ r.req.xid = xid[c]
    BY <2>1 DEF Restituisci
  <2> DEFINE n == Esito(c, r)
  <2>4. n.chi[1] = c /\ n.chi[2] = xid[c] /\ n.arg = r.req.arg /\ n.ris = r.ris
    BY <2>1, <2>3, EsitoCampi DEF Autore
  <2> HIDE DEF n
  <2>5. esiti' = esiti \cup {n}
    BY <2>1 DEF n
  <2>6. \A e \in esiti' : Contenuta(e.arg, e.ris, SalaCorrente')
    BY <2>2, <2>4, <2>5 DEF VisteInv
  <2>7. \A q \in risposte : q.req.client = c => ~(n.chi[2] < q.req.xid)
    <3>1. \A q \in risposte : q.req \in Messaggi /\ q.req.client \in Client
      BY MessaggiTipati DEF Messaggi, RichiestaRpc
    <3> QED
      BY <2>4, <3>1 DEF DatagrammiInv, TypeOK
  <2>8. \A e \in esiti : e.chi[1] = c => ~(n.chi[2] < e.chi[2])
    BY <1>0, <2>4 DEF VisteInv, TypeOK
  <2>9. \A e \in esiti : e.chi[1] = c /\ e.chi[2] < n.chi[2] => Seguita(e.arg, e.ris, n.ris)
    BY <2>3, <2>4 DEF VisteInv
  <2>10. \A e \in esiti', q \in risposte' :
           e.chi[1] = q.req.client /\ e.chi[2] < q.req.xid => Seguita(e.arg, e.ris, q.ris)
    BY <2>3, <2>4, <2>5, <2>7 DEF VisteInv
  <2>11. \A e, f \in esiti' :
           e.chi[1] = f.chi[1] /\ e.chi[2] < f.chi[2] => Seguita(e.arg, e.ris, f.ris)
    <3>1. ~(n.chi[2] < n.chi[2])
      BY <2>4 DEF TypeOK
    <3> QED
      BY <2>4, <2>5, <2>8, <2>9, <3>1 DEF VisteInv
  <2>12. \A e \in esiti' : e.chi[2] <= xid'[e.chi[1]]
    BY <2>3, <2>4, <2>5 DEF VisteInv, TypeOK
  <2>13. \A q \in risposte' : Contenuta(q.req.arg, q.ris, SalaCorrente')
    BY <2>2, <2>3 DEF VisteInv
  <2> QED
    BY <2>6, <2>10, <2>11, <2>12, <2>13 DEF VisteInv
<1>4. ASSUME NEW c \in Client, Chiama(c) \/ Attesa(c) \/ Esci(c) PROVE VisteInv'
  <2>1. SalaCorrente' = SalaCorrente /\ UNCHANGED <<risposte, esiti>>
    BY <1>4, SalaFermaClienti
       DEF Chiama, Attesa, Esci, clnt_call, Ritrasmetti, Scaduto, clnt_destroy, SalaFerma
  <2>2. \A d \in Client : xid[d] <= xid'[d] /\ xid'[d] \in Nat
    BY <1>4 DEF Chiama, Attesa, Esci, clnt_call, Ritrasmetti, Scaduto, clnt_destroy, TypeOK
  <2>3. \A e \in esiti : e.chi[2] <= xid'[e.chi[1]]
    BY <1>0, <2>2 DEF VisteInv, TypeOK
  <2> QED
    BY <2>1, <2>3 DEF VisteInv
<1>5. CASE UNCHANGED vars
  BY <1>5, SalaFermaClienti DEF vars, rpcVars, VisteInv, SalaFerma
<1> QED
  BY <1>2, <1>3, <1>4, <1>5 DEF Next

\* A hall shown to a user contains everything that user was told before, for
\* every number of clients, calls and copies of a datagram.
THEOREM VisteCoerentiSempre == Spec => []VisteCoerenti
<1>1. Init => VisteInv
  BY DEF Init, RpcInit, VisteInv
<1>2. Inv /\ VisteInv /\ [Next]_vars => VisteInv'
  BY VisteStep DEF Inv
<1>3. VisteInv => VisteCoerenti
  BY DEF VisteInv, Seguita, Contenuta, VisteCoerenti, Vista, Confermata, Rifiutata
<1> QED
  BY <1>1, <1>2, <1>3, InvInvariante, PTL DEF Spec
-----------------------------------------------------------------------------
(* Sala implements Prenotazione. *)

\* The answers about seats, as the abstract specification keeps them.
Detto == {RispostaPrenota(e) : e \in {f \in esiti : f.arg \in Prenota}}

LEMMA RaffinaInit == Init => Abs!PInit
<1> SUFFICES ASSUME Init PROVE Abs!PInit
  OBVIOUS
<1>1. SalaCorrente = SalaIniziale
  BY DEF Init, SalaCorrente
<1>2. esiti = {} /\ titolare = [p \in Postazioni |-> Nessuno]
  BY DEF Init
<1> QED
  BY <1>1, <1>2 DEF Abs!PInit

\* A step that leaves the hall alone and adds no answer is a stutter.
LEMMA RaffinaFerma ==
  ASSUME SalaFerma, esiti' = esiti PROVE UNCHANGED Abs!pVars
BY DEF SalaFerma, Abs!pVars

LEMMA RaffinaStep == Inv /\ [Next]_vars => [Abs!PNext]_Abs!pVars
<1> SUFFICES ASSUME Inv, [Next]_vars PROVE [Abs!PNext]_Abs!pVars
  OBVIOUS
<1>0. TypeOK /\ DatagrammiInv /\ TitolareInv /\ RisposteInv
  BY DEF Inv
<1>1. ASSUME NEW m \in richieste, prenota_libera(m) PROVE Abs!PNext
  <2> DEFINE k == Autore(m)  p == m.arg.posto
  <2>1. m \in Messaggi /\ m.arg \in Prenota /\ p \in Postazioni /\ m.arg.tipo \in Tipi
    BY <1>0, <1>1, Assegnata
  <2>2. m.client \in Client /\ m.xid \in 1 .. MaxChiamate[m.client]
    BY <1>0, <2>1, MessaggiTipati, RpcAssumption DEF RichiestaRpc, DatagrammiInv, TypeOK
  <2>3. k \in Chiamate
    BY <2>2 DEF Chiamate, Autore
  <2>4. ASSUME NEW q \in Postazioni, titolare[q] = k PROVE FALSE
    <3>1. m.arg.posto = q /\ SalaCorrente[q] # "L"
      BY <1>0, <2>1, <2>2, <2>4 DEF TitolareInv, Autore
    <3> QED
      BY <1>0, <1>1, <3>1, Assegnata
  <2>5. /\ SalaCorrente[p] = "L"
        /\ SalaCorrente' = [SalaCorrente EXCEPT ![p] = m.arg.tipo]
        /\ titolare' = [titolare EXCEPT ![p] = k]
    BY <1>0, <1>1, Assegnata
  <2>6. esiti' = esiti
    BY <1>1 DEF prenota_libera
  <2>7. Abs!Assegna(k, p, m.arg.tipo)
    BY <2>4, <2>5, <2>6 DEF Abs!Assegna
  <2> QED
    BY <2>1, <2>3, <2>7 DEF Abs!PNext
<1>2. ASSUME NEW m \in richieste, prenota_occupata(m) \/ visualizza_stato(m)
      PROVE  UNCHANGED Abs!pVars
  BY <1>2, SalaFermaServi, RaffinaFerma DEF prenota_occupata, visualizza_stato
<1>3. ASSUME NEW c \in Client, Leggi(c) PROVE [Abs!PNext]_Abs!pVars
  <2>1. PICK r \in risposte : Restituisci(c, r) /\ esiti' = esiti \cup {Esito(c, r)}
    BY <1>3 DEF Leggi
  <2>2. SalaFerma
    BY <1>3, SalaFermaClienti DEF Leggi
  <2>3. r.req.arg \in Input /\ Fondata(Autore(r.req), r.req.arg, r.ris)
    BY <1>0 DEF RisposteInv, TypeOK, RispostaRpc, RichiestaRpc
  <2>4. Esito(c, r).chi = Autore(r.req) /\ Esito(c, r).arg = r.req.arg /\ Esito(c, r).ris = r.ris
    BY <1>0, <2>1, EsitoCampi
  <2>5. CASE r.req.arg \in Vedi
    <3>1. r.req.arg \notin Prenota
      BY <2>5 DEF Vedi, Prenota
    <3>2. Detto' = Detto
      BY <2>1, <2>4, <3>1 DEF Detto, RispostaPrenota
    <3> QED
      BY <2>2, <3>2 DEF SalaFerma, Detto, Abs!pVars
  <2>6. CASE r.req.arg \in Prenota
    <3> DEFINE k == Autore(r.req)  p == r.req.arg.posto
    <3>1. Detto' = Detto \cup {RispostaPrenota(Esito(c, r))}
      BY <2>1, <2>4, <2>6 DEF Detto, RispostaPrenota
    <3>2. k \in Chiamate /\ p \in Postazioni
      <4>1. r.req \in Messaggi /\ r.req \in RichiestaRpc(Input)
        BY <1>0, MessaggiTipati DEF Messaggi
      <4>2. r.req.client \in Client /\ r.req.xid \in 1 .. MaxChiamate[r.req.client]
        BY <1>0, <4>1, RpcAssumption DEF RichiestaRpc, DatagrammiInv, TypeOK
      <4> QED
        BY <2>6, <4>2 DEF Chiamate, Autore, Prenota
    <3>3. r.ris \in Codici
      BY <2>3, <2>6 DEF Fondata
    <3>4. CASE r.ris = [cod |-> 0]
      <4>1. titolare[p] = k
        BY <2>3, <2>6, <3>4 DEF Fondata
      <4>2. RispostaPrenota(Esito(c, r)) = [chi |-> k, posto |-> p, cod |-> 0]
        BY <2>4, <3>4 DEF RispostaPrenota
      <4>3. Abs!Conferma(k, p)
        BY <2>2, <3>1, <4>1, <4>2 DEF Abs!Conferma, Detto, SalaFerma
      <4> QED
        BY <3>2, <4>3 DEF Abs!PNext
    <3>5. CASE r.ris = [cod |-> -2]
      <4>1. SalaCorrente[p] # "L"
        BY <2>3, <2>6, <3>5 DEF Fondata
      <4>2. RispostaPrenota(Esito(c, r)) = [chi |-> k, posto |-> p, cod |-> -2]
        BY <2>4, <3>5 DEF RispostaPrenota
      <4>3. Abs!Rifiuta(k, p)
        BY <2>2, <3>1, <4>1, <4>2 DEF Abs!Rifiuta, Detto, SalaFerma
      <4> QED
        BY <3>2, <4>3 DEF Abs!PNext
    <3> QED
      BY <3>3, <3>4, <3>5 DEF Codici
  <2> QED
    BY <2>3, <2>5, <2>6 DEF Input
<1>4. ASSUME NEW c \in Client, Chiama(c) \/ Attesa(c) \/ Esci(c) PROVE UNCHANGED Abs!pVars
  BY <1>4, SalaFermaClienti, RaffinaFerma DEF Chiama, Attesa, Esci
<1>5. CASE UNCHANGED vars
  BY <1>5, SalaFermaClienti, RaffinaFerma DEF vars
<1> QED
  BY <1>1, <1>2, <1>3, <1>4, <1>5 DEF Next, Servi

\* Every behaviour of the service, with its lazy initialisation and its lost
\* and repeated datagrams, is a behaviour of the booking specification.
THEOREM PrenotazioneRaffinata == Spec => PrenotazioneRispettata
<1>1. Init => Abs!PInit
  BY RaffinaInit
<1>2. Inv /\ [Next]_vars => [Abs!PNext]_Abs!pVars
  BY RaffinaStep
<1> QED
  BY <1>1, <1>2, InvInvariante, PTL DEF Spec, PrenotazioneRispettata, Abs!PSpec
=============================================================================
