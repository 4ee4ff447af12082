-------------------------- MODULE InterrogazioniProofs --------------------------
(***************************************************************************)
(* Proofs about Interrogazioni for every number of clients, questions,     *)
(* processes and calls: the answers of the datagram services               *)
(* (RispostaPertinente), what they say (RispostaGiusta), the exceptions of *)
(* the congress of one name (EccezioneSpiegata), what listeners of the     *)
(* group are shown (AscoltoContinuo) and what RPC clients print            *)
(* (RispostaRpcGiusta).                                                    *)
(***************************************************************************)
EXTENDS Interrogazioni, TLAPS, SequenceTheorems, FunctionTheorems, FiniteSetTheorems, WellFoundedInduction

-----------------------------------------------------------------------------
(* The datagrams. *)

UdpTipi == attende \in [Utente -> BOOLEAN] /\ numero \in [Utente -> Nat]

Stessa(d, x) == d.da = x.da /\ d.num = x.num

\* A question was asked, and it is the one its client waits for, unless this
\* or an earlier one was given up.
Posta(d) == d.da \in Utente /\ d.num \in 1 .. numero[d.da]
Scaduta(d) == \E n \in 1 .. d.num : <<d.da, n>> \in scadute
Dovuta(d) == (d.num = numero[d.da] /\ attende[d.da]) \/ Scaduta(d)

InViaggio ==
  /\ \A d \in domande : Posta(d) /\ Dovuta(d)
  /\ \A r \in arrivi : Posta(r.dom) /\ Dovuta(r.dom)

Mostrate == \A e \in mostrate : Posta(e.dom) /\ (e.dom.num = e.dopo \/ Scaduta(e.dom))

\* Of each question there is one datagram at most: itself, its answer, or the
\* answer shown.
Uniche ==
  /\ \A d, x \in domande : Stessa(d, x) => d = x
  /\ \A r, s \in arrivi : Stessa(r.dom, s.dom) => r = s
  /\ \A e, f \in mostrate : Stessa(e.dom, f.dom) => e = f
  /\ \A d \in domande, r \in arrivi : ~Stessa(d, r.dom)
  /\ \A d \in domande, e \in mostrate : ~Stessa(d, e.dom)
  /\ \A r \in arrivi, e \in mostrate : ~Stessa(r.dom, e.dom)

UdpInv == UdpTipi /\ InViaggio /\ Mostrate /\ Uniche

\* What any service does with its datagrams.
PassoUdp ==
  \/ \E c \in Utente : \E q : sendto(c, q)
  \/ \E c \in Utente : recvfrom(c) \/ SocketTimeout(c)
  \/ \E d, ris : Risposta(d, ris)
  \/ \E d : Scarta(d)

LEMMA UdpSolo == [Next]_interrogazioniVars => [PassoUdp]_udpVars
<1> SUFFICES ASSUME [Next]_interrogazioniVars
             PROVE  PassoUdp \/ UNCHANGED udpVars
  OBVIOUS
<1>1. CASE attivo = "servizi" /\ ServiziNext
  <2>1. CASE \E s \in DOMAIN Dischi : main(s)
    BY <2>1 DEF main, udpVars
  <2>2. ASSUME NEW c \in Utente, Chiede(c)
        PROVE  PassoUdp
    BY <2>2 DEF Chiede, PassoUdp
  <2>3. ASSUME NEW c \in Utente, Riceve(c)
        PROVE  PassoUdp
    BY <2>3 DEF Riceve, PassoUdp
  <2>4. ASSUME NEW d \in domande,
               LineServer(d) \/ OpDatagram_server(d) \/ longest_word_server(d) \/ server_select(d)
        PROVE  PassoUdp
    BY <2>4 DEF LineServer, OpDatagram_server, longest_word_server, server_select, PassoUdp
  <2>5. ASSUME NEW d \in domande, serverDatagram(d) \/ server(d)
        PROVE  PassoUdp
    BY <2>5 DEF serverDatagram, server, PassoUdp
  <2>6. ASSUME NEW c \in Utente, clientDatagram(c) \/ datagram_client(c)
        PROVE  PassoUdp
    BY <2>6 DEF clientDatagram, datagram_client, PassoUdp
  <2>7. CASE accept_senza_fd \/ divisione_impossibile
    BY <2>7 DEF accept_senza_fd, divisione_impossibile, udpVars
  <2> QED
    BY <1>1, <2>1, <2>2, <2>3, <2>4, <2>5, <2>6, <2>7 DEF ServiziNext
<1>2. CASE ~(attivo = "servizi" /\ ServiziNext)
  BY <1>2 DEF Next, Sceglie, interrogazioniVars, serviziVars, udpVars
<1> QED
  BY <1>1, <1>2

LEMMA UdpInizio == Init => UdpInv
BY DEF Init, ServiziInit, UdpInit, UdpInv, UdpTipi, InViaggio, Mostrate, Uniche

\* What is known of a question stays known while only other clients move.
LEMMA UdpPasso == UdpInv /\ [PassoUdp]_udpVars => UdpInv'
<1> SUFFICES ASSUME UdpInv, [PassoUdp]_udpVars
             PROVE  UdpInv'
  OBVIOUS
<1> USE DEF UdpInv, UdpTipi
<1>1. ASSUME NEW c \in Utente, NEW q, sendto(c, q)
      PROVE  UdpInv'
  <2> PICK nuova : nuova = [da |-> c, num |-> numero[c] + 1, chiede |-> q]
    OBVIOUS
  <2>1. /\ nuova.da = c /\ nuova.num = numero[c] + 1
        /\ domande' = domande \cup {nuova} /\ ~attende[c]
        /\ UNCHANGED <<arrivi, scadute, mostrate>>
        /\ numero' = [numero EXCEPT ![c] = @ + 1] /\ attende' = [attende EXCEPT ![c] = TRUE]
    BY <1>1 DEF sendto
  <2>2. UdpTipi'
    BY <2>1
  <2>3. \A d : Posta(d) => Posta(d)' /\ ~Stessa(d, nuova) /\ ~Stessa(nuova, d)
    BY <2>1 DEF Posta, Stessa
  <2>4. \A d : Posta(d) /\ Dovuta(d) => Dovuta(d)'
    BY <2>1 DEF Posta, Dovuta, Scaduta
  <2>5. Posta(nuova)' /\ Dovuta(nuova)'
    <3>1. numero'[c] = numero[c] + 1 /\ attende'[c] /\ numero[c] \in Nat
      BY <2>1
    <3>2. nuova.num \in 1 .. numero'[c]
      BY <2>1, <3>1
    <3> QED
      BY <2>1, <3>1, <3>2 DEF Posta, Dovuta
  <2>6. InViaggio'
    <3>1. \A d \in domande' : d \in domande \/ d = nuova
      BY <2>1
    <3>2. \A d \in domande' : Posta(d)' /\ Dovuta(d)'
      BY <2>3, <2>4, <2>5, <3>1 DEF InViaggio
    <3>3. \A r \in arrivi' : Posta(r.dom)' /\ Dovuta(r.dom)'
      BY <2>1, <2>3, <2>4 DEF InViaggio
    <3> QED
      BY <3>2, <3>3 DEF InViaggio
  <2>7. Mostrate'
    BY <2>1, <2>3 DEF Mostrate, Scaduta
  <2>8. Uniche'
    BY <2>1, <2>3 DEF Uniche, InViaggio, Mostrate
  <2> QED
    BY <2>2, <2>6, <2>7, <2>8
<1>2. ASSUME NEW c \in Utente, recvfrom(c)
      PROVE  UdpInv'
  <2> PICK r \in arrivi : /\ attende[c] /\ r.dom.da = c
                          /\ attende' = [attende EXCEPT ![c] = FALSE]
                          /\ arrivi' = arrivi \ {r}
                          /\ mostrate' = mostrate \cup {[dom |-> r.dom, ris |-> r.ris, dopo |-> numero[c]]}
                          /\ UNCHANGED <<numero, domande, scadute>>
    BY <1>2 DEF recvfrom
  <2> DEFINE vista == [dom |-> r.dom, ris |-> r.ris, dopo |-> numero[c]]
  <2>1. vista.dom = r.dom /\ vista.dopo = numero[c] /\ mostrate' = mostrate \cup {vista}
    OBVIOUS
  <2> HIDE DEF vista
  <2>2. Posta(r.dom) /\ Dovuta(r.dom) /\ r.dom.da = c
    BY DEF InViaggio
  <2>3. \A d : Posta(d) => Posta(d)'
    BY DEF Posta
  <2>4. \A d : Posta(d) /\ Dovuta(d) /\ ~Stessa(d, r.dom) => Dovuta(d)'
    <3> SUFFICES ASSUME NEW d, Posta(d), Dovuta(d), ~Stessa(d, r.dom)
                 PROVE  Dovuta(d)'
      OBVIOUS
    <3>1. CASE Scaduta(d)
      BY <3>1 DEF Dovuta, Scaduta
    <3>2. CASE d.da # c /\ d.num = numero[d.da] /\ attende[d.da]
      BY <3>2 DEF Dovuta, Posta
    <3>3. CASE d.da = c /\ d.num = numero[c] /\ ~Scaduta(d)
      <4>1. r.dom.num # numero[c] /\ Scaduta(r.dom)
        BY <2>2, <3>3 DEF Stessa, Dovuta
      <4>2. PICK n \in 1 .. r.dom.num : <<c, n>> \in scadute
        BY <2>2, <4>1 DEF Scaduta
      <4>3. n \in 1 .. d.num
        BY <2>2, <3>3, <4>2 DEF Posta
      <4> QED
        BY <3>3, <4>2, <4>3 DEF Dovuta, Scaduta
    <3> QED
      BY <3>1, <3>2, <3>3 DEF Dovuta
  <2>5. InViaggio'
    BY <2>3, <2>4 DEF InViaggio, Uniche
  <2>6. Mostrate'
    BY <2>1, <2>2, <2>3 DEF Mostrate, Scaduta, Dovuta
  <2>7. Uniche'
    BY <2>1 DEF Uniche, Stessa
  <2> QED
    BY <2>5, <2>6, <2>7
<1>3. ASSUME NEW c \in Utente, SocketTimeout(c)
      PROVE  UdpInv'
  <2>1. /\ attende' = [attende EXCEPT ![c] = FALSE]
        /\ scadute' = scadute \cup {<<c, numero[c]>>}
        /\ UNCHANGED <<numero, domande, arrivi, mostrate>>
    BY <1>3 DEF SocketTimeout
  <2>2. \A d : Posta(d) => Posta(d)'
    BY <2>1 DEF Posta
  <2>3. \A d : Scaduta(d) => Scaduta(d)'
    BY <2>1 DEF Scaduta
  <2>4. \A d : Posta(d) /\ Dovuta(d) => Dovuta(d)'
    BY <2>1, <2>3 DEF Posta, Dovuta, Scaduta
  <2> QED
    BY <2>1, <2>2, <2>3, <2>4 DEF InViaggio, Mostrate, Uniche
<1>4. ASSUME NEW d, NEW ris, Risposta(d, ris)
      PROVE  UdpInv'
  <2> DEFINE r == [dom |-> d, ris |-> ris]
  <2>1. /\ d \in domande /\ r.dom = d
        /\ domande' = domande \ {d} /\ arrivi' = arrivi \cup {r}
        /\ UNCHANGED <<attende, numero, scadute, mostrate>>
    BY <1>4 DEF Risposta
  <2> HIDE DEF r
  <2>2. \A x : (Posta(x) => Posta(x)') /\ (Dovuta(x) => Dovuta(x)') /\ (Scaduta(x) => Scaduta(x)')
    BY <2>1 DEF Posta, Dovuta, Scaduta
  <2>3. InViaggio' /\ Mostrate'
    BY <2>1, <2>2 DEF InViaggio, Mostrate
  <2>4. Uniche'
    BY <2>1 DEF Uniche, Stessa
  <2> QED
    BY <2>1, <2>3, <2>4
<1>5. ASSUME NEW d, Scarta(d)
      PROVE  UdpInv'
  <2>1. \A x : (Posta(x) => Posta(x)') /\ (Dovuta(x) => Dovuta(x)') /\ (Scaduta(x) => Scaduta(x)')
    BY <1>5 DEF Scarta, Posta, Dovuta, Scaduta
  <2> QED
    BY <1>5, <2>1 DEF Scarta, InViaggio, Mostrate, Uniche
<1>6. CASE UNCHANGED udpVars
  BY <1>6 DEF udpVars, InViaggio, Mostrate, Uniche, Posta, Dovuta, Scaduta
<1> QED
  BY <1>1, <1>2, <1>3, <1>4, <1>5, <1>6 DEF PassoUdp

\* LineClient and the C clients show the answer to the question just asked
\* until the first timeout, and never two answers to one question, for any
\* number of clients and questions.
THEOREM RispostaPertinenteSempre == Spec => []RispostaPertinente
<1>1. UdpInv => RispostaPertinente
  BY DEF UdpInv, Mostrate, Uniche, Scaduta, Stessa, RispostaPertinente
<1>2. UdpInv /\ [Next]_interrogazioniVars => UdpInv'
  BY UdpSolo, UdpPasso
<1> QED
  BY <1>1, <1>2, UdpInizio, PTL DEF Spec

-----------------------------------------------------------------------------
(* The congress of one name. *)

\* The processes that have been started.
Nati == {nati[k] : k \in DOMAIN nati}

FasiCollegato == {"menu", "registra", "lancia", "effettuata", "piena", "programma", "fuori", "eccezione"}

\* Where the input went wrong, if it did.
Digitato == {"bene", "giornata", "sessione"}

\* A client that has looked the server up.
Noti == [fase : FasiCollegato, fatte : Nat, rif : Processo \cup {Null}, newest : Processo \cup {Null},
         sess : Sessione \cup {Null}, nome : Nomini \cup {Null}, digitato : Digitato]

TipiCongresso ==
  /\ nominato \in {"spento", "rmi", "remoto"}
  /\ tabella \in [1 .. RigheTabella -> Processo \cup {Null}]
  /\ nati \in Seq(Processo) /\ viventi \subseteq Nati /\ tolti \in Nat
  /\ DOMAIN oratori = Processo
  /\ \A s \in Processo : DOMAIN oratori[s] = Sessione
  /\ \A s \in Processo, e \in Sessione : DOMAIN oratori[s][e] = 1 .. Interventi
  /\ utente \in [Congressista -> [fase : {"prima"}, fatte : Nat] \cup Noti]

\* What is in the registry was started.  rmiregistry holds the newest, the
\* other somebody, unless an entry was removed.
Registrati ==
  /\ nominato = "spento" => nati = <<>>
  /\ \A i \in 1 .. RigheTabella : tabella[i] # Null => tabella[i] \in Nati
  /\ nominato = "rmi" => /\ \A i \in 1 .. RigheTabella : i # 1 => tabella[i] = Null
                         /\ tabella[1] = IF nati = <<>> THEN Null ELSE nati[1]
  /\ nominato = "remoto" /\ nati # <<>> /\ tolti = 0 => Occupate # {}

NullaIn(s, e) == \E k \in 1 .. Interventi : oratori[s][e][k] = Null

\* What an exception of client c has for its cause.
Causa(c) ==
  LET u == utente[c]
  IN  \/ u.digitato # "bene"
      \/ u.rif = Null /\ (u.newest = Null \/ tolti > 0)
      \/ u.rif # Null /\ u.rif \notin viventi /\ (nominato = "rmi" => u.rif = u.newest)
      \/ u.rif # Null /\ NullaIn(u.rif, u.sess)

\* What client c knows since it looked the server up.
Collegato(c) ==
  /\ nominato # "spento"
  /\ utente[c].rif # Null => utente[c].rif \in Nati
  /\ utente[c].rif = Null => utente[c].newest = Null \/ tolti > 0
  /\ nominato = "rmi" => utente[c].rif = utente[c].newest
  /\ utente[c].fase \in {"registra", "lancia", "effettuata", "piena", "programma"} => utente[c].sess \in Sessione
  /\ utente[c].fase = "lancia" => utente[c].rif \in Processo /\ NullaIn(utente[c].rif, utente[c].sess)
  /\ utente[c].fase = "eccezione" => Causa(c)
  /\ utente[c].fase = "eccezione" /\ utente[c].rif \in viventi
       => utente[c].sess \in Sessione \/ utente[c].digitato # "bene"

CongressoInv ==
  /\ TipiCongresso /\ Registrati
  /\ \A c \in Congressista : utente[c].fase # "prima" => Collegato(c)

LEMMA CongressoInizio == Init => CongressoInv
<1> SUFFICES ASSUME CongressoInit PROVE CongressoInv
  BY DEF Init
<1>1. TipiCongresso
  BY DEF CongressoInit, TipiCongresso, Nati
<1>2. Registrati /\ \A c \in Congressista : utente[c].fase = "prima"
  BY DEF CongressoInit, Registrati
<1> QED
  BY <1>1, <1>2 DEF CongressoInv

\* The programme of a session loses no null.
Persiste == \A s \in Processo, e \in Sessione : NullaIn(s, e) => NullaIn(s, e)'

\* A client that does not move keeps what it knows.
LEMMA Resta ==
  ASSUME CongressoInv, NEW c \in Congressista, utente'[c] = utente[c], utente[c].fase # "prima",
         nominato' = nominato, Nati \subseteq Nati', tolti' \in Nat, tolti' >= tolti,
         viventi' \cap Nati \subseteq viventi, viventi' \subseteq Processo, Persiste
  PROVE  Collegato(c)'
<1> DEFINE u == utente[c]
<1>1. Collegato(c) /\ u.rif \in Processo \cup {Null} /\ tolti \in Nat
  BY DEF CongressoInv, TipiCongresso, Noti
<1>2. u.rif # Null => (u.rif \in viventi' => u.rif \in viventi)
  BY <1>1 DEF Collegato
<1>3. u.rif # Null /\ u.sess \in Sessione /\ NullaIn(u.rif, u.sess) => NullaIn(u.rif, u.sess)'
  BY <1>1 DEF Persiste
<1>4. u' = u /\ (nominato = "rmi" => u.rif = u.newest) /\ (u.rif = Null => u.newest = Null \/ tolti > 0)
  BY <1>1 DEF Collegato
<1> HIDE DEF u
<1>5. ASSUME u.fase = "eccezione"
      PROVE  Causa(c)'
  <2>1. CASE u.rif = Null \/ u.rif \notin viventi' \/ u.digitato # "bene"
    BY <1>1, <1>4, <2>1 DEF Causa, u
  <2>2. CASE u.rif # Null /\ u.rif \in viventi' /\ u.digitato = "bene"
    <3>1. u.rif \in viventi /\ u.sess \in Sessione /\ NullaIn(u.rif, u.sess)
      BY <1>1, <1>2, <1>5, <2>2 DEF Collegato, Causa, u
    <3> QED
      BY <1>3, <1>4, <2>2, <3>1 DEF Causa, u
  <2> QED
    BY <2>1, <2>2
<1>6. u.fase = "lancia" => u.rif # Null /\ u.sess \in Sessione
  BY <1>1, CongressoSempliceAssumption DEF Collegato, u
<1>7. u.fase = "eccezione" /\ u.rif \in viventi' => u.sess \in Sessione \/ u.digitato # "bene"
  BY <1>1, <1>2, CongressoSempliceAssumption DEF Collegato, u
<1>8. u.fase = "lancia" => u.rif \in Processo /\ NullaIn(u.rif, u.sess)'
  BY <1>1, <1>3, <1>6 DEF Collegato, u
<1>9. /\ nominato' # "spento"
      /\ u.rif # Null => u.rif \in Nati'
      /\ u.rif = Null => u.newest = Null \/ tolti' > 0
      /\ u.fase \in {"registra", "lancia", "effettuata", "piena", "programma"} => u.sess \in Sessione
  BY <1>1 DEF Collegato, u
<1> QED
  BY <1>4, <1>5, <1>7, <1>8, <1>9 DEF Collegato, u


\* A turn of the other systems leaves the congress alone.
LEMMA CongressoSolo == [Next]_interrogazioniVars => [CongressoNext]_congressoVars
BY DEF Next, Sceglie, interrogazioniVars

\* Of the rows in use, if there are any, one is the first.
LEMMA MinimoEsiste ==
  ASSUME NEW S, S \subseteq Nat, S # {}
  PROVE  \E i \in S : \A j \in S : i <= j
<1> DEFINE R == OpToRel(<, Nat)
<1>1. \A x, y \in Nat : y < x => <<y, x>> \in R
  BY DEF OpToRel
<1>2. IsWellFoundedOn(R, Nat)
  BY NatLessThanWellFounded
<1>3. \E x \in S : \A y \in S : ~ (<<y, x>> \in R)
  BY <1>2, WFMin
<1> HIDE DEF R
<1>4. PICK i \in S : \A y \in S : ~ (<<y, i>> \in R)
  BY <1>3
<1>5. \A y \in S : ~ (y < i)
  BY <1>1, <1>4
<1>6. \A y \in S : i <= y
  BY <1>5, SMT
<1> QED
  BY <1>6

\* cerca, when something is registered, is something registered.
LEMMA CercaTrova ==
  ASSUME TipiCongresso, Occupate # {}
  PROVE  \E i \in 1 .. RigheTabella : tabella[i] # Null /\ cerca = tabella[i]
<1>1. Occupate \subseteq Nat
  BY CongressoSempliceAssumption DEF Occupate, TipiCongresso
<1>2. \E i \in PrimaRiga(Occupate) : TRUE
  BY <1>1, MinimoEsiste DEF PrimaRiga
<1>3. (CHOOSE i \in PrimaRiga(Occupate) : TRUE) \in Occupate
  BY <1>2 DEF PrimaRiga
<1> QED
  BY <1>3 DEF cerca, Occupate, TipiCongresso

\* Only what concerns the registry and its processes moves.
SenzaUtenti == UNCHANGED <<utente, oratori>>

LEMMA PassoServer ==
  ASSUME CongressoInv, NEW s \in Processo, ServerCongressoImpl(s)
  PROVE  CongressoInv'
<1>1. /\ nominato \in {"rmi", "remoto"} /\ s \notin Nati
      /\ nati' = <<s>> \o nati /\ viventi' = viventi \cup {s}
      /\ UNCHANGED <<nominato, oratori, utente, tolti>>
      /\ nati \in Seq(Processo) /\ viventi \subseteq Nati
  BY DEF ServerCongressoImpl, CongressoInv, TipiCongresso, Nati
<1>2. /\ nati' \in Seq(Processo) /\ nati' # <<>> /\ nati'[1] = s
      /\ Nati' = Nati \cup {s}
  <2>1. /\ Len(nati') = Len(nati) + 1 /\ Len(nati) \in Nat
        /\ \A k \in 1 .. Len(nati) + 1 : nati'[k] = IF k = 1 THEN s ELSE nati[k - 1]
        /\ DOMAIN nati' = 1 .. Len(nati) + 1 /\ DOMAIN nati = 1 .. Len(nati)
        /\ nati' \in Seq(Processo)
    BY <1>1
  <2>2. \A k \in 1 .. Len(nati) : k + 1 \in 1 .. Len(nati) + 1 /\ nati'[k + 1] = nati[k]
    BY <2>1
  <2> QED
    BY <2>1, <2>2 DEF Nati
<1>3. TipiCongresso /\ Registrati
  BY DEF CongressoInv
<1>4. tabella' \in [1 .. RigheTabella -> Processo \cup {Null}]
  BY <1>3 DEF TipiCongresso, ServerCongressoImpl, rebind, aggiungi
<1>5. \A i \in 1 .. RigheTabella : tabella'[i] \in {tabella[i], s}
  BY <1>3 DEF TipiCongresso, ServerCongressoImpl, rebind, aggiungi
<1>6. TipiCongresso'
  BY <1>1, <1>2, <1>3, <1>4 DEF TipiCongresso
<1>7. nominato = "rmi" => /\ \A i \in 1 .. RigheTabella : i # 1 => tabella'[i] = Null
                          /\ tabella'[1] = s
  BY <1>3, CongressoSempliceAssumption DEF TipiCongresso, Registrati, ServerCongressoImpl, rebind
<1>8. nominato = "remoto" => Occupate' # {}
  <2> SUFFICES ASSUME nominato = "remoto"
               PROVE  \E i \in 1 .. RigheTabella : tabella'[i] # Null
    BY <1>4 DEF Occupate
  <2>1. CASE Occupate # {}
    BY <1>3, <1>5, <2>1, CongressoSempliceAssumption DEF Occupate, TipiCongresso
  <2>2. CASE Occupate = {}
    <3>1. (DOMAIN tabella \ Occupate) = 1 .. RigheTabella /\ 1 \in 1 .. RigheTabella
      BY <1>3, <2>2, CongressoSempliceAssumption DEF TipiCongresso
    <3>2. 1 \in PrimaRiga(DOMAIN tabella \ Occupate)
      BY <3>1 DEF PrimaRiga
    <3>3. tabella'[1] = s
      BY <1>3, <3>1, <3>2 DEF ServerCongressoImpl, aggiungi, TipiCongresso
    <3> QED
      BY <3>1, <3>3, CongressoSempliceAssumption
  <2> QED
    BY <2>1, <2>2
<1>9. Registrati'
  BY <1>1, <1>2, <1>3, <1>5, <1>7, <1>8 DEF Registrati
<1>10. Persiste
  BY <1>1 DEF Persiste, NullaIn
<1>11. viventi' \cap Nati \subseteq viventi /\ viventi' \subseteq Processo
  BY <1>1, <1>2, <1>6 DEF TipiCongresso, Nati
<1>12. \A c \in Congressista : utente[c].fase # "prima" => Collegato(c)'
  BY <1>1, <1>2, <1>3, <1>10, <1>11, Resta DEF TipiCongresso
<1> QED
  BY <1>1, <1>6, <1>9, <1>12 DEF CongressoInv

\* The other steps of the registry and of its processes.
LEMMA PassoRegistro ==
  ASSUME CongressoInv,
         avvia_registry \/ eliminaPrimo \/ eliminaTutti \/ \E s \in Processo : muore(s)
  PROVE  CongressoInv'
<1>1. TipiCongresso /\ Registrati
  BY DEF CongressoInv
<1>2. CASE avvia_registry
  <2>1. TipiCongresso' /\ \A c \in Congressista : utente'[c].fase = "prima"
    BY <1>1, <1>2 DEF avvia_registry, TipiCongresso, Nati, CongressoInv, Collegato
  <2>2. Nati = {} /\ \A i \in 1 .. RigheTabella : tabella[i] = Null
    BY <1>1, <1>2 DEF avvia_registry, Registrati, Nati
  <2>3. Registrati'
    BY <1>1, <1>2, <2>2, CongressoSempliceAssumption DEF avvia_registry, Registrati, Nati
  <2> QED
    BY <2>1, <2>3 DEF CongressoInv
<1>3. CASE eliminaPrimo \/ eliminaTutti
  <2>1. PICK S : Togli(S)
    BY <1>3 DEF eliminaPrimo, eliminaTutti
  <2>2. /\ nominato = "remoto" /\ tolti' = tolti + 1
        /\ UNCHANGED <<nominato, nati, viventi, oratori, utente>>
        /\ \A i \in 1 .. RigheTabella : tabella'[i] \in {tabella[i], Null}
    BY <1>1, <2>1 DEF Togli, TipiCongresso
  <2>3. TipiCongresso'
    BY <1>1, <2>1, <2>2 DEF Togli, TipiCongresso, Nati
  <2>4. Registrati'
    BY <1>1, <2>2 DEF Registrati, Nati, TipiCongresso
  <2>5. Persiste /\ Nati' = Nati
    BY <2>2 DEF Persiste, NullaIn, Nati
  <2>6. viventi' \subseteq Processo
    BY <2>3 DEF TipiCongresso, Nati
  <2>7. \A c \in Congressista : utente[c].fase # "prima" => Collegato(c)'
    BY <1>1, <2>2, <2>5, <2>6, Resta DEF TipiCongresso
  <2> QED
    BY <2>2, <2>3, <2>4, <2>7 DEF CongressoInv
<1>4. ASSUME NEW s \in Processo, muore(s)
      PROVE  CongressoInv'
  <2>1. /\ viventi' \subseteq viventi
        /\ UNCHANGED <<nominato, tabella, nati, oratori, utente, tolti>>
    BY <1>4 DEF muore
  <2>2. TipiCongresso' /\ Registrati' /\ Nati' = Nati /\ Persiste
    BY <1>1, <2>1 DEF TipiCongresso, Registrati, Nati, Persiste, NullaIn, Occupate
  <2>3. viventi' \subseteq Processo
    BY <2>2 DEF TipiCongresso, Nati
  <2>4. \A c \in Congressista : utente[c].fase # "prima" => Collegato(c)'
    BY <1>1, <2>1, <2>2, <2>3, Resta DEF TipiCongresso
  <2> QED
    BY <2>1, <2>2, <2>4 DEF CongressoInv
<1> QED
  BY <1>2, <1>3, <1>4

\* Of a client that moves by itself, what it knows afterwards is all there is
\* to show.
LEMMA SoloUno ==
  ASSUME CongressoInv, SoloUtente, NEW c \in Congressista, TipiCongresso',
         \A d \in Congressista \ {c} : utente'[d] = utente[d],
         utente'[c].fase # "prima" => Collegato(c)'
  PROVE  CongressoInv'
<1>1. TipiCongresso /\ Registrati /\ tolti' \in Nat /\ tolti' >= tolti
  BY DEF CongressoInv, TipiCongresso, SoloUtente
<1>2. Registrati' /\ Persiste /\ Nati' = Nati
  BY <1>1 DEF SoloUtente, Registrati, Persiste, NullaIn, Nati, Occupate
<1>3. viventi' = viventi /\ viventi' \subseteq Processo /\ nominato' = nominato
  BY <1>1 DEF SoloUtente, TipiCongresso, Nati
<1>4. \A d \in Congressista \ {c} : utente[d].fase # "prima" => Collegato(d)'
  BY <1>1, <1>2, <1>3, Resta
<1> QED
  BY <1>2, <1>4 DEF CongressoInv

LEMMA PassoCollega ==
  ASSUME CongressoInv, NEW c \in Congressista, collega(c)
  PROVE  CongressoInv'
<1>1. TipiCongresso /\ Registrati
  BY DEF CongressoInv
<1>2. PICK n : n = IF nati = <<>> THEN Null ELSE nati[1]
  OBVIOUS
<1>3. PICK r : r = cerca
  OBVIOUS
<1>4. PICK f : f = IF r = Null /\ nominato = "rmi" THEN "eccezione" ELSE "menu"
  OBVIOUS
<1>5. /\ utente' = [utente EXCEPT ![c] = [fase |-> f, fatte |-> 0, rif |-> r, newest |-> n,
                                          sess |-> Null, nome |-> Null, digitato |-> "bene"]]
      /\ nominato # "spento" /\ SoloUtente
  BY <1>2, <1>3, <1>4 DEF collega
<1>6. n \in Processo \cup {Null}
  BY <1>1, <1>2 DEF TipiCongresso
<1>7. r # Null => r \in Processo /\ r \in Nati
  BY <1>1, <1>3, CercaTrova DEF cerca, Registrati, TipiCongresso
<1>8. nominato = "rmi" => r = n
  <2> SUFFICES ASSUME nominato = "rmi" PROVE r = n
    OBVIOUS
  <2>1. tabella[1] = n /\ (\A i \in 1 .. RigheTabella : tabella[i] # Null => i = 1)
    BY <1>1, <1>2 DEF Registrati
  <2>2. CASE Occupate = {}
    <3>1. 1 \in DOMAIN tabella
      BY <1>1, CongressoSempliceAssumption DEF TipiCongresso
    <3>2. tabella[1] = Null
      BY <2>2, <3>1 DEF Occupate
    <3> QED
      BY <1>3, <2>1, <2>2, <3>2 DEF cerca
  <2>3. CASE Occupate # {}
    BY <1>1, <1>3, <2>1, <2>3, CercaTrova
  <2> QED
    BY <2>2, <2>3
<1>9. r = Null => n = Null \/ tolti > 0
  <2> SUFFICES ASSUME r = Null, n # Null PROVE tolti > 0
    OBVIOUS
  <2>1. nominato = "remoto" /\ nati # <<>>
    BY <1>1, <1>2, <1>5, <1>8 DEF TipiCongresso
  <2>2. Occupate = {}
    BY <1>1, <1>3, CercaTrova
  <2> QED
    BY <1>1, <2>1, <2>2 DEF Registrati, TipiCongresso
<1>10. TipiCongresso'
  BY <1>1, <1>4, <1>5, <1>6, <1>7 DEF TipiCongresso, SoloUtente, Nati, FasiCollegato, Noti, Digitato
<1>11. utente'[c] = [fase |-> f, fatte |-> 0, rif |-> r, newest |-> n, sess |-> Null, nome |-> Null,
                    digitato |-> "bene"]
  BY <1>1, <1>5 DEF TipiCongresso
<1>12. UNCHANGED <<nominato, tolti, viventi>> /\ Nati' = Nati
  BY <1>5 DEF SoloUtente, Nati
<1>13. viventi \subseteq Nati /\ Nati \subseteq Processo
  BY <1>1 DEF TipiCongresso, Nati
<1>14. Collegato(c)'
  BY <1>4, <1>5, <1>7, <1>8, <1>9, <1>11, <1>12, <1>13, CongressoSempliceAssumption DEF Collegato, Causa
<1>15. \A d \in Congressista \ {c} : utente'[d] = utente[d]
  BY <1>1, <1>5 DEF TipiCongresso
<1> QED
  BY <1>5, <1>10, <1>14, <1>15, SoloUno

\* A client whose phase changes, and nothing else that counts for what it knows.
LEMMA PassoFase ==
  ASSUME CongressoInv, SoloUtente, NEW c \in Congressista, NEW f \in FasiCollegato, utente[c].fase # "prima",
         utente' = [utente EXCEPT ![c].fase = f], f # "lancia",
         f \in {"registra", "effettuata", "piena", "programma"} => utente[c].sess \in Sessione,
         f = "eccezione" => Causa(c) /\ (utente[c].rif \in viventi => utente[c].sess \in Sessione)
  PROVE  CongressoInv'
<1>1. TipiCongresso /\ Collegato(c) /\ f # "prima"
  BY DEF CongressoInv, FasiCollegato
<1>2. utente[c] \in Noti
  BY <1>1 DEF TipiCongresso
<1>3. /\ utente'[c].fase = f
      /\ utente'[c].rif = utente[c].rif /\ utente'[c].newest = utente[c].newest
      /\ utente'[c].sess = utente[c].sess
      /\ \A d \in Congressista \ {c} : utente'[d] = utente[d]
  BY <1>1, <1>2 DEF TipiCongresso
<1>4. TipiCongresso'
  BY <1>1, <1>2, SMTT(30) DEF TipiCongresso, SoloUtente, Nati, Noti
<1>5. UNCHANGED <<nominato, tolti, viventi, oratori>> /\ Nati' = Nati
  BY DEF SoloUtente, Nati
<1>6. Collegato(c)'
  BY <1>1, <1>3, <1>5 DEF Collegato, Causa, NullaIn
<1> QED
  BY <1>3, <1>4, <1>6, SoloUno

\* A question is put: nothing of what the client knows changes.
LEMMA PassoChiede ==
  ASSUME CongressoInv, NEW c \in Congressista, chiede(c)
  PROVE  CongressoInv'
<1>1. TipiCongresso /\ Collegato(c) /\ utente[c].fase = "menu" /\ SoloUtente
  BY DEF CongressoInv, chiede
<1>2. utente[c] \in Noti
  BY <1>1 DEF TipiCongresso
<1>3. PICK f \in {"registra", "programma"}, e \in Sessione, n \in Nomini :
        utente' = [utente EXCEPT ![c].fase = f, ![c].sess = e, ![c].nome = n, ![c].fatte = @ + 1]
  BY DEF chiede
<1>4. /\ utente'[c] = [fase |-> f, fatte |-> utente[c].fatte + 1, rif |-> utente[c].rif,
                       newest |-> utente[c].newest, sess |-> e, nome |-> n,
                       digitato |-> utente[c].digitato]
      /\ \A d \in Congressista \ {c} : utente'[d] = utente[d]
  BY <1>1, <1>2, <1>3 DEF TipiCongresso, Noti
<1>5. utente' \in [Congressista -> [fase : {"prima"}, fatte : Nat] \cup Noti]
  <2>1. utente'[c] \in Noti
    BY <1>2, <1>4 DEF FasiCollegato, Noti
  <2>2. DOMAIN utente' = Congressista /\ utente' = [d \in Congressista |-> utente'[d]]
    BY <1>1, <1>3 DEF TipiCongresso
  <2> QED
    BY <1>1, <1>4, <2>1, <2>2 DEF TipiCongresso
<1>6. TipiCongresso'
  BY <1>1, <1>5 DEF TipiCongresso, SoloUtente, Nati
<1>7. UNCHANGED <<nominato, tolti>> /\ Nati' = Nati
  BY <1>1 DEF SoloUtente, Nati
<1>8. Collegato(c)'
  BY <1>1, <1>4, <1>7 DEF Collegato
<1> QED
  BY <1>1, <1>4, <1>6, <1>8, SoloUno

\* A client ends because of what its user typed, which is its cause.
LEMMA PassoDigita ==
  ASSUME CongressoInv, NEW c \in Congressista, digita_male(c)
  PROVE  CongressoInv'
<1>1. TipiCongresso /\ Collegato(c) /\ utente[c].fase = "menu" /\ SoloUtente
  BY DEF CongressoInv, digita_male
<1>2. utente[c] \in Noti
  BY <1>1 DEF TipiCongresso
<1>3. PICK dove \in {"giornata", "sessione"} :
        utente' = [utente EXCEPT ![c].fase = "eccezione", ![c].digitato = dove]
  BY DEF digita_male
<1>4. /\ utente'[c] = [fase |-> "eccezione", fatte |-> utente[c].fatte, rif |-> utente[c].rif,
                       newest |-> utente[c].newest, sess |-> utente[c].sess, nome |-> utente[c].nome,
                       digitato |-> dove]
      /\ \A d \in Congressista \ {c} : utente'[d] = utente[d]
  BY <1>1, <1>2, <1>3 DEF TipiCongresso, Noti
<1>5. utente' \in [Congressista -> [fase : {"prima"}, fatte : Nat] \cup Noti]
  <2>1. utente'[c] \in Noti
    BY <1>2, <1>4 DEF FasiCollegato, Digitato, Noti
  <2>2. DOMAIN utente' = Congressista /\ utente' = [d \in Congressista |-> utente'[d]]
    BY <1>1, <1>3 DEF TipiCongresso
  <2> QED
    BY <1>1, <1>4, <2>1, <2>2 DEF TipiCongresso
<1>6. TipiCongresso'
  BY <1>1, <1>5 DEF TipiCongresso, SoloUtente, Nati
<1>7. UNCHANGED <<nominato, tolti>> /\ Nati' = Nati
  BY <1>1 DEF SoloUtente, Nati
<1>8. Collegato(c)'
  BY <1>1, <1>4, <1>7 DEF Collegato, Causa
<1> QED
  BY <1>1, <1>4, <1>6, <1>8, SoloUno

LEMMA PassoRegistra ==
  ASSUME CongressoInv, NEW c \in Congressista, registra(c)
  PROVE  CongressoInv'
<1> PICK u : u = utente[c]
  OBVIOUS
<1> DEFINE riga == oratori[u.rif][u.sess]
           ferma == PrimaRiga({k \in 1 .. Interventi : riga[k] \in {Vuota, Null}})
<1>1. TipiCongresso /\ Registrati /\ Collegato(c)
      /\ u.fase = "registra" /\ u.rif \in viventi /\ u.sess \in Sessione
      /\ UNCHANGED <<nominato, tabella, nati, viventi, tolti>>
  BY DEF CongressoInv, registra, Collegato
<1>2. u \in Noti
      /\ u.rif \in Processo
  BY <1>1 DEF TipiCongresso, Nati
<1>3. PICK f : /\ f = IF ferma = {} THEN "piena" ELSE IF \E k \in ferma : riga[k] = Null THEN "lancia"
                      ELSE "effettuata"
               /\ utente' = [utente EXCEPT ![c].fase = f]
               /\ oratori' = IF f # "effettuata" THEN oratori
                             ELSE [oratori EXCEPT ![u.rif][u.sess] = [k \in 1 .. Interventi |->
                                    IF k \in ferma THEN u.nome ELSE riga[k]]]
  BY DEF registra
<1>4. f \in {"piena", "lancia", "effettuata"}
  BY <1>3
<1>5. /\ utente'[c] = [fase |-> f, fatte |-> u.fatte, rif |-> u.rif, newest |-> u.newest,
                       sess |-> u.sess, nome |-> u.nome,
                       digitato |-> u.digitato]
      /\ \A d \in Congressista \ {c} : utente'[d] = utente[d]
      /\ utente' \in [Congressista -> [fase : {"prima"}, fatte : Nat] \cup Noti]
  BY <1>1, <1>2, <1>3, <1>4, ZenonT(30) DEF TipiCongresso, FasiCollegato, Noti
<1>6. /\ DOMAIN oratori' = Processo
      /\ \A s \in Processo : DOMAIN oratori'[s] = Sessione
      /\ \A s \in Processo, e \in Sessione : DOMAIN oratori'[s][e] = 1 .. Interventi
  BY <1>1, <1>2, <1>3 DEF TipiCongresso
<1>7. TipiCongresso' /\ Registrati' /\ Nati' = Nati
  <2> HIDE DEF riga, ferma
  <2>1. Nati' = Nati /\ Occupate' = Occupate
    BY <1>1 DEF Nati, Occupate
  <2>2. Registrati'
    BY <1>1, <2>1 DEF Registrati
  <2>3. TipiCongresso'
    BY <1>1, <1>5, <1>6, <2>1 DEF TipiCongresso
  <2> QED
    BY <2>1, <2>2, <2>3
<1>8. Persiste
  <2> SUFFICES ASSUME NEW s \in Processo, NEW e \in Sessione, NEW k \in 1 .. Interventi,
                      oratori[s][e][k] = Null
               PROVE  oratori'[s][e][k] = Null
    BY DEF Persiste, NullaIn
  <2>1. CASE f # "effettuata" \/ s # u.rif \/ e # u.sess
    BY <1>1, <1>2, <1>3, <2>1 DEF TipiCongresso
  <2>2. CASE f = "effettuata" /\ s = u.rif /\ e = u.sess
    <3>1. k \notin ferma
      BY <1>3, <2>2
    <3> HIDE DEF ferma
    <3> QED
      BY <1>1, <1>2, <1>3, <2>2, <3>1, SMTT(30) DEF TipiCongresso
  <2> QED
    BY <2>1, <2>2
<1>9. f = "lancia" => NullaIn(u.rif, u.sess)'
  BY <1>2, <1>1, <1>3 DEF NullaIn, PrimaRiga
<1>10. Collegato(c)'
  BY <1>1, <1>2, <1>4, <1>5, <1>7, <1>9 DEF Collegato
<1>11. viventi' = viventi /\ viventi' \subseteq Processo /\ tolti' \in Nat /\ tolti' >= tolti
  BY <1>1 DEF TipiCongresso, Nati
<1>12. \A d \in Congressista \ {c} : utente[d].fase # "prima" => Collegato(d)'
  BY <1>1, <1>5, <1>7, <1>8, <1>11, Resta
<1> QED
  BY <1>5, <1>7, <1>10, <1>12 DEF CongressoInv

LEMMA PassoCongresso == CongressoInv /\ [CongressoNext]_congressoVars => CongressoInv'
<1> SUFFICES ASSUME CongressoInv, [CongressoNext]_congressoVars
             PROVE  CongressoInv'
  OBVIOUS
<1>1. CASE avvia_registry \/ eliminaPrimo \/ eliminaTutti \/ \E s \in Processo : muore(s)
  BY <1>1, PassoRegistro
<1>2. ASSUME NEW s \in Processo, ServerCongressoImpl(s)
      PROVE  CongressoInv'
  BY <1>2, PassoServer
<1>3. ASSUME NEW c \in Congressista, risultato(c)
      PROVE  CongressoInv'
  BY <1>3, PassoFase DEF risultato, FasiCollegato
<1>4. ASSUME NEW c \in Congressista, fine_input(c)
      PROVE  CongressoInv'
  BY <1>4, PassoFase DEF fine_input, FasiCollegato
<1>5. ASSUME NEW c \in Congressista, eccezione(c)
      PROVE  CongressoInv'
  <2>1. Collegato(c) /\ TipiCongresso /\ utente[c].fase # "prima"
    BY <1>5 DEF eccezione, CongressoInv
  <2>2. Causa(c) /\ utente[c].sess \in Sessione
    BY <1>5, <2>1, CongressoSempliceAssumption DEF eccezione, Collegato, Causa
  <2> QED
    BY <1>5, <2>1, <2>2, PassoFase DEF eccezione, FasiCollegato
<1>6. CASE UNCHANGED congressoVars
  BY <1>6 DEF congressoVars, CongressoInv, TipiCongresso, Registrati, Nati, Occupate, Collegato, Causa, NullaIn
<1> QED
  BY <1>1, <1>2, <1>3, <1>4, <1>5, <1>6, PassoCollega, PassoChiede, PassoDigita, PassoRegistra
     DEF CongressoNext

\* A client of the congress is ended by an exception only by what its user typed
\* for the day or the session, by a server it did not find or that is dead, or by
\* a null speaker, for any number of processes, clients, calls, sessions and rows.
THEOREM EccezioneSpiegataSempre == Spec => []EccezioneSpiegata
<1>1. CongressoInv => EccezioneSpiegata
  BY DEF CongressoInv, Collegato, Causa, NullaIn, EccezioneSpiegata
<1>2. CongressoInv /\ [Next]_interrogazioniVars => CongressoInv'
  BY CongressoSolo, PassoCongresso
<1> QED
  BY <1>1, <1>2, CongressoInizio, PTL DEF Spec

-----------------------------------------------------------------------------
(* The group. *)

\* Places in the endless repetition of n lines.
LEMMA ModUnico ==
  ASSUME NEW n \in Nat \ {0}, NEW q \in Int, NEW r \in 0 .. n - 1
  PROVE  (n * q + r) % n = r
OBVIOUS

LEMMA ModDiv ==
  ASSUME NEW n \in Nat \ {0}, NEW x \in Nat
  PROVE  /\ x = n * (x \div n) + (x % n)
         /\ x % n \in 0 .. n - 1
         /\ x \div n \in Int
OBVIOUS

LEMMA ModSuccessivo ==
  ASSUME NEW n \in Nat \ {0}, NEW x \in Nat
  PROVE  (x + 1) % n = IF (x % n) + 1 = n THEN 0 ELSE (x % n) + 1
<1>1. /\ x = n * (x \div n) + (x % n)
      /\ x % n \in 0 .. n - 1
      /\ x \div n \in Int
  BY ModDiv
<1>2. CASE (x % n) + 1 = n
  <2>1. x + 1 = n * ((x \div n) + 1) + 0 /\ 0 \in 0 .. n - 1 /\ (x \div n) + 1 \in Int
    BY <1>1, <1>2
  <2>2. (n * ((x \div n) + 1) + 0) % n = 0
    BY <2>1, ModUnico
  <2> QED
    BY <1>2, <2>1, <2>2
<1>3. CASE (x % n) + 1 # n
  <2>1. x + 1 = n * (x \div n) + ((x % n) + 1) /\ (x % n) + 1 \in 0 .. n - 1
    BY <1>1, <1>3
  <2> QED
    BY <1>1, <1>3, <2>1, ModUnico
<1> QED
  BY <1>2, <1>3

LEMMA ModPiccolo ==
  ASSUME NEW n \in Nat \ {0}, NEW x \in 0 .. n - 1
  PROVE  x % n = x
OBVIOUS

\* Passata is the file up to its first line that reads like the end.
PassataDi(f) ==
  IF \E k \in DOMAIN f : f[k] = Fine
  THEN SubSeq(f, 1, (CHOOSE k \in DOMAIN f : f[k] = Fine /\ \A j \in 1 .. k - 1 : f[j] # Fine) - 1)
  ELSE f

LEMMA PassataE == Passata = PassataDi(file)
BY DEF Passata, PassataDi

LEMMA PassataFatti ==
  ASSUME NEW f \in Seq(Linee)
  PROVE  /\ PassataDi(f) \in Seq(Linee) /\ Len(PassataDi(f)) \in 0 .. Len(f)
         /\ \A k \in 1 .. Len(PassataDi(f)) : PassataDi(f)[k] = f[k] /\ f[k] # Fine
         /\ Len(PassataDi(f)) < Len(f) => f[Len(PassataDi(f)) + 1] = Fine
<1> DEFINE F == {k \in DOMAIN f : f[k] = Fine}
<1>1. CASE F # {}
  <2>1. F \subseteq Nat
    OBVIOUS
  <2>2. \E k \in F : \A j \in F : k <= j
    BY <1>1, <2>1, MinimoEsiste
  <2>3. \E k \in DOMAIN f : f[k] = Fine /\ \A j \in 1 .. k - 1 : f[j] # Fine
    BY <2>2
  <2> DEFINE primo == CHOOSE k \in DOMAIN f : f[k] = Fine /\ \A j \in 1 .. k - 1 : f[j] # Fine
  <2>4. primo \in DOMAIN f /\ f[primo] = Fine /\ \A j \in 1 .. primo - 1 : f[j] # Fine
    BY <2>3
  <2>5. PassataDi(f) = SubSeq(f, 1, primo - 1)
    BY <1>1 DEF PassataDi
  <2> HIDE DEF primo
  <2> QED
    BY <2>4, <2>5
<1>2. CASE F = {}
  BY <1>2 DEF PassataDi
<1> QED
  BY <1>1, <1>2

\* The lines read in a pass are of the pass; a client that has not joined has
\* nothing.
MulticastTipi ==
  /\ file \in Seq(Linee)
  /\ lettore = -1 \/ (lettore \in 0 .. Len(file) /\ \A j \in 1 .. lettore : file[j] # Fine)
  /\ gruppo \subseteq Ascoltatore
  /\ socket \in [Ascoltatore -> Seq(Linee)]
  /\ viste \in [Ascoltatore -> Seq(Linee)]
  /\ resta \in [Ascoltatore -> Int]
  /\ \A a \in Ascoltatore : resta[a] = -1 => socket[a] = <<>> /\ viste[a] = <<>> /\ a \notin gruppo
  /\ file = <<>> => lettore = -1 /\ \A a \in Ascoltatore : resta[a] = -1

\* Where in the pass the next line to be sent is, counted from 0.
Posto == IF lettore \in {-1, Len(Passata)} THEN 0 ELSE lettore

\* s is a stretch of the repetition of the file from line inizio.
Tratto(s, inizio) ==
  \A k \in 1 .. Len(s) : s[k] = Passata[((inizio + k - 1) % Len(Passata)) + 1]

Ricevute(a) == viste[a] \o socket[a]

\* A client that lost nothing has shown and received such a stretch, and as
\* long as it is in the group the next line follows on it.
Continuo(a) ==
  IF Len(Passata) = 0 THEN Ricevute(a) = <<>>
  ELSE \E inizio \in 0 .. Len(Passata) - 1 :
         /\ Tratto(Ricevute(a), inizio)
         /\ a \in gruppo => (inizio + Len(Ricevute(a))) % Len(Passata) = Posto

MulticastInv == MulticastTipi /\ \A a \in Ascoltatore \ perse : Continuo(a)

\* A line shown goes from the socket to the screen; a line sent goes to the end.
LEMMA PassaAvanti ==
  ASSUME NEW s \in Seq(Linee), NEW t \in Seq(Linee), t # <<>>
  PROVE  Append(s, Head(t)) \o Tail(t) = s \o t
<1>1. Head(t) \in Linee /\ Tail(t) \in Seq(Linee) /\ <<Head(t)>> \in Seq(Linee)
  OBVIOUS
<1>2. t = <<Head(t)>> \o Tail(t)
  OBVIOUS
<1>3. Append(s, Head(t)) = s \o <<Head(t)>>
  BY <1>1, AppendIsConcat
<1> QED
  BY <1>1, <1>2, <1>3, ConcatAssociative

LEMMA ArrivaInFondo ==
  ASSUME NEW S, NEW s \in Seq(S), NEW t \in Seq(S), NEW x \in S
  PROVE  s \o Append(t, x) = Append(s \o t, x)
<1>1. <<x>> \in Seq(S) /\ s \o t \in Seq(S)
  OBVIOUS
<1>2. Append(t, x) = t \o <<x>> /\ Append(s \o t, x) = (s \o t) \o <<x>>
  BY <1>1, AppendIsConcat
<1> QED
  BY <1>1, <1>2, ConcatAssociative

LEMMA Niente == <<>> \o <<>> = <<>>
OBVIOUS

LEMMA MulticastInizio == MulticastInit => MulticastInv
<1> SUFFICES ASSUME MulticastInit PROVE MulticastInv
  OBVIOUS
<1>1. MulticastTipi
  BY DEF MulticastInit, MulticastTipi
<1>2. Passata = <<>>
  BY DEF MulticastInit, Passata
<1>3. \A a \in Ascoltatore : Ricevute(a) = <<>>
  <2>1. \A a \in Ascoltatore : viste[a] = <<>> /\ socket[a] = <<>>
    BY DEF MulticastInit
  <2> QED
    BY <2>1, Niente DEF Ricevute
<1> QED
  BY <1>1, <1>2, <1>3 DEF MulticastInv, Continuo

\* The reader stays in the pass, and what it reads is the next line of it.
LEMMA LettoreDentro ==
  ASSUME MulticastTipi
  PROVE  /\ lettore <= Len(Passata)
         /\ lettore # -1 /\ getNextLine # Fine => lettore < Len(Passata) /\ getNextLine = Passata[lettore + 1]
         /\ lettore # -1 /\ getNextLine = Fine => lettore = Len(Passata)
<1> USE DEF MulticastTipi, getNextLine
<1>1. /\ Passata \in Seq(Linee) /\ Len(Passata) <= Len(file)
      /\ \A k \in 1 .. Len(Passata) : Passata[k] = file[k] /\ file[k] # Fine
      /\ Len(Passata) < Len(file) => file[Len(Passata) + 1] = Fine
  BY PassataFatti, PassataE
<1>2. Len(Passata) \in Nat
  BY <1>1
<1>3. lettore <= Len(Passata)
  <2> SUFFICES ASSUME Len(Passata) < lettore
               PROVE  FALSE
    BY <1>2
  <2>1. lettore \in 0 .. Len(file) /\ \A j \in 1 .. lettore : file[j] # Fine
    BY <1>2
  <2>2. Len(Passata) < Len(file) /\ Len(Passata) + 1 \in 1 .. lettore
    BY <1>1, <1>2, <2>1
  <2> QED
    BY <1>1, <2>1, <2>2, SMTT(30)
<1>4. ASSUME lettore # -1, getNextLine # Fine
      PROVE  lettore < Len(Passata) /\ getNextLine = Passata[lettore + 1]
  <2>1. lettore \in 0 .. Len(file)
    BY <1>4
  <2>2. lettore # Len(Passata)
    BY <1>1, <1>2, <1>4, <2>1
  <2>3. lettore < Len(Passata) /\ lettore + 1 \in 1 .. Len(Passata)
    BY <1>2, <1>3, <2>1, <2>2
  <2> QED
    BY <1>1, <1>4, <2>1, <2>3
<1>5. ASSUME lettore # -1, getNextLine = Fine
      PROVE  lettore = Len(Passata)
  <2>1. lettore + 1 \notin 1 .. Len(Passata)
    BY <1>1, <1>2, <1>5
  <2> QED
    BY <1>2, <1>3, <1>5, <2>1
<1> QED
  BY <1>3, <1>4, <1>5

\* A stretch without its end is a stretch.
LEMMA TrattoMeno ==
  ASSUME NEW s \in Seq(Linee), NEW t \in Seq(Linee), NEW inizio, Tratto(s \o t, inizio)
  PROVE  Tratto(s, inizio)
<1>1. /\ Len(s \o t) = Len(s) + Len(t) /\ Len(s) \in Nat /\ Len(t) \in Nat
      /\ \A k \in 1 .. Len(s) : (s \o t)[k] = s[k]
  OBVIOUS
<1> QED
  BY <1>1 DEF Tratto

\* The line read from where a client is makes its stretch longer.
LEMMA TrattoPiu ==
  ASSUME NEW s \in Seq(Linee), Passata \in Seq(Linee), Len(Passata) > 0,
         NEW inizio \in 0 .. Len(Passata) - 1, Tratto(s, inizio),
         lettore \in 0 .. Len(Passata) - 1,
         (inizio + Len(s)) % Len(Passata) = lettore
  PROVE  LET t == Append(s, Passata[lettore + 1])
         IN  /\ Tratto(t, inizio)
             /\ (inizio + Len(t)) % Len(Passata) = IF lettore + 1 = Len(Passata) THEN 0 ELSE lettore + 1
<1> DEFINE t == Append(s, Passata[lettore + 1])
<1> DEFINE n == Len(Passata)
<1>1. /\ Len(t) = Len(s) + 1 /\ Len(s) \in Nat /\ t[Len(s) + 1] = Passata[lettore + 1]
      /\ \A k \in 1 .. Len(s) : t[k] = s[k]
  OBVIOUS
<1>2. n \in Nat \ {0} /\ inizio + Len(s) \in Nat
  OBVIOUS
<1> HIDE DEF t
<1>3. Tratto(t, inizio)
  <2> SUFFICES ASSUME NEW k \in 1 .. Len(t)
               PROVE  t[k] = Passata[((inizio + k - 1) % Len(Passata)) + 1]
    BY DEF Tratto
  <2>1. CASE k \in 1 .. Len(s)
    BY <1>1, <2>1 DEF Tratto
  <2>2. CASE k = Len(s) + 1
    <3>1. inizio + k - 1 = inizio + Len(s)
      BY <1>1, <2>2
    <3> QED
      BY <1>1, <2>2, <3>1
  <2> QED
    BY <1>1, <2>1, <2>2, SMTT(30)
<1>4. (inizio + Len(t)) % Len(Passata) = IF lettore + 1 = Len(Passata) THEN 0 ELSE lettore + 1
  <2>1. inizio + Len(t) = (inizio + Len(s)) + 1
    BY <1>1
  <2> HIDE DEF n
  <2>2. ((inizio + Len(s)) + 1) % n = IF ((inizio + Len(s)) % n) + 1 = n THEN 0 ELSE ((inizio + Len(s)) % n) + 1
    BY <1>2, ModSuccessivo
  <2> QED
    BY <2>1, <2>2 DEF n
<1> QED
  BY <1>3, <1>4 DEF t

LEMMA MulticastPasso == MulticastInv /\ [MulticastNext]_multicastVars => MulticastInv'
<1> SUFFICES ASSUME MulticastInv, [MulticastNext]_multicastVars
             PROVE  MulticastInv'
  OBVIOUS
<1>0. MulticastTipi /\ \A a \in Ascoltatore \ perse : Continuo(a)
  BY DEF MulticastInv
<1>a. Passata \in Seq(Linee) /\ Len(Passata) \in Nat
  BY <1>0, PassataFatti, PassataE DEF MulticastTipi
<1>1. CASE MulticastServer
  <2>1. MulticastTipi'
    BY <1>0, <1>1, MulticastAssumption DEF MulticastServer, MulticastTipi
  <2>2. Passata' \in Seq(Linee) /\ Len(Passata') \in Nat
    <3>1. file' \in Seq(Linee)
      BY <2>1 DEF MulticastTipi
    <3>2. Passata' = PassataDi(file')
      BY DEF Passata, PassataDi
    <3> QED
      BY <3>1, <3>2, PassataFatti
  <2>3. ASSUME NEW a \in Ascoltatore \ perse'
        PROVE  Continuo(a)'
    <3>1. viste'[a] = <<>> /\ socket'[a] = <<>> /\ a \notin gruppo'
      BY <1>0, <1>1 DEF MulticastServer, MulticastTipi
    <3>2. Ricevute(a)' = <<>>
      BY <3>1, Niente DEF Ricevute
    <3>3. Tratto(Ricevute(a), 0)'
      BY <3>2 DEF Tratto
    <3> QED
      BY <2>2, <3>1, <3>2, <3>3 DEF Continuo
  <2> QED
    BY <2>1, <2>3 DEF MulticastInv
<1>2. ASSUME UNCHANGED <<file, socket, viste, gruppo, perse>>, Posto' = Posto, MulticastTipi'
      PROVE  MulticastInv'
  <2>1. Passata' = Passata
    BY <1>2 DEF Passata
  <2>2. ASSUME NEW a \in Ascoltatore \ perse'
        PROVE  Continuo(a)'
    <3>1. Continuo(a) /\ Ricevute(a)' = Ricevute(a)
      BY <1>0, <1>2 DEF Ricevute
    <3> QED
      BY <1>2, <2>1, <3>1 DEF Continuo, Tratto
  <2> QED
    BY <1>2, <2>2 DEF MulticastInv
<1>3. CASE FileReader
  <2>1. MulticastTipi'
    BY <1>0, <1>3 DEF FileReader, MulticastTipi
  <2>2. Posto' = Posto
    BY <1>3, <1>a DEF FileReader, Posto, Passata
  <2> QED
    BY <1>2, <1>3, <2>1, <2>2 DEF FileReader
<1>4. CASE FinePassata
  <2>1. MulticastTipi'
    BY <1>0, <1>4 DEF FinePassata, MulticastTipi
  <2>2. lettore = Len(Passata)
    BY <1>0, <1>4, LettoreDentro DEF FinePassata
  <2>3. Posto' = Posto
    BY <1>4, <2>2 DEF FinePassata, Posto
  <2> QED
    BY <1>2, <1>4, <2>1, <2>3 DEF FinePassata
<1>5. CASE send
  <2> DEFINE riga == getNextLine
  <2>0. PICK persi \in SUBSET gruppo :
          /\ socket' = [a \in Ascoltatore |-> IF a \in gruppo \ persi THEN Append(socket[a], riga)
                                              ELSE socket[a]]
          /\ perse' = perse \cup persi
    BY <1>5 DEF send
  <2>1. lettore # -1 /\ riga # Fine /\ lettore' = lettore + 1
        /\ UNCHANGED <<file, gruppo, resta, viste>>
    BY <1>5 DEF send
  <2>2. lettore < Len(Passata) /\ riga = Passata[lettore + 1]
    BY <1>0, <2>1, LettoreDentro
  <2> HIDE DEF riga
  <2>3. lettore \in 0 .. Len(Passata) - 1 /\ riga \in Linee /\ Passata' = Passata
    <3>1. lettore \in 0 .. Len(Passata) - 1
      BY <1>0, <1>a, <2>1, <2>2 DEF MulticastTipi
    <3>2. lettore + 1 \in 1 .. Len(Passata)
      BY <1>a, <3>1
    <3>3. riga \in Linee
      BY <1>a, <2>2, <3>2
    <3>4. Passata' = Passata
      BY <2>1 DEF Passata
    <3> QED
      BY <3>1, <3>3, <3>4
  <2>4. MulticastTipi'
    <3>1. lettore' \in 0 .. Len(file') /\ \A j \in 1 .. lettore' : file'[j] # Fine
      <4>1. /\ Len(Passata) <= Len(file)
            /\ \A k \in 1 .. Len(Passata) : file[k] # Fine
        BY <1>0, PassataFatti, PassataE DEF MulticastTipi
      <4> QED
        BY <1>a, <2>1, <2>3, <4>1
    <3>2. socket' \in [Ascoltatore -> Seq(Linee)]
      <4>1. \A a \in Ascoltatore : socket[a] \in Seq(Linee) /\ Append(socket[a], riga) \in Seq(Linee)
        BY <1>0, <2>3, AppendProperties DEF MulticastTipi
      <4> QED
        BY <2>0, <4>1
    <3>3. file # <<>>
      BY <1>0, <2>1 DEF MulticastTipi
    <3>4. \A a \in Ascoltatore : resta'[a] = -1 => socket'[a] = <<>> /\ viste'[a] = <<>> /\ a \notin gruppo'
      BY <1>0, <2>0, <2>1 DEF MulticastTipi
    <3> QED
      BY <1>0, <2>1, <3>1, <3>2, <3>3, <3>4 DEF MulticastTipi
  <2>5. Posto' = IF lettore + 1 = Len(Passata) THEN 0 ELSE lettore + 1
    BY <1>a, <2>1, <2>3 DEF Posto
  <2>6. Posto = lettore
    BY <1>a, <2>3 DEF Posto
  <2>7. ASSUME NEW a \in Ascoltatore \ perse'
        PROVE  Continuo(a)'
    <3>0. a \in Ascoltatore \ perse /\ Continuo(a)
      BY <1>0, <2>0, <2>7
    <3>1. viste[a] \in Seq(Linee) /\ socket[a] \in Seq(Linee)
      BY <1>0 DEF MulticastTipi
    <3>2. Ricevute(a) \in Seq(Linee)
      BY <3>1 DEF Ricevute
    <3>3. PICK inizio \in 0 .. Len(Passata) - 1 :
            /\ Tratto(Ricevute(a), inizio)
            /\ a \in gruppo => (inizio + Len(Ricevute(a))) % Len(Passata) = Posto
      BY <1>a, <2>3, <3>0 DEF Continuo
    <3>4. CASE a \in gruppo
      <4>1. socket'[a] = Append(socket[a], riga)
        BY <2>0, <2>7, <3>4
      <4>2. Ricevute(a)' = Append(Ricevute(a), riga)
        <5>1. \A s, t \in Seq(Linee), x \in Linee : s \o Append(t, x) = Append(s \o t, x)
          BY ArrivaInFondo
        <5>2. viste[a] \o Append(socket[a], riga) = Append(viste[a] \o socket[a], riga)
          BY <2>3, <3>1, <5>1
        <5> QED
          BY <2>1, <4>1, <5>2 DEF Ricevute
      <4>3. /\ Tratto(Ricevute(a)', inizio)
            /\ (inizio + Len(Ricevute(a)')) % Len(Passata) = Posto'
        BY <1>a, <2>2, <2>3, <2>5, <2>6, <3>2, <3>3, <3>4, <4>2, TrattoPiu
      <4> QED
        BY <1>a, <2>3, <4>3 DEF Continuo, Tratto
    <3>5. CASE a \notin gruppo
      <4>1. Ricevute(a)' = Ricevute(a)
        BY <2>0, <2>1, <3>5 DEF Ricevute
      <4> QED
        BY <1>a, <2>1, <2>3, <3>3, <3>5, <4>1 DEF Continuo, Tratto
    <3> QED
      BY <3>4, <3>5
  <2> QED
    BY <2>4, <2>7 DEF MulticastInv
<1>6. ASSUME NEW c \in Ascoltatore, joinGroup(c)
      PROVE  MulticastInv'
  <2>1. MulticastTipi'
    BY <1>0, <1>6, MulticastAssumption DEF joinGroup, MulticastTipi
  <2>2. Passata' = Passata /\ Posto' = Posto
    BY <1>6 DEF joinGroup, Passata, Posto
  <2>3. ASSUME NEW a \in Ascoltatore \ perse'
        PROVE  Continuo(a)'
    <3>0. Continuo(a) /\ Ricevute(a)' = Ricevute(a)
      BY <1>0, <1>6 DEF joinGroup, Ricevute
    <3>1. CASE a # c
      BY <1>6, <2>2, <3>0, <3>1 DEF joinGroup, Continuo, Tratto
    <3>2. CASE a = c
      <4>1. viste[a] = <<>> /\ socket[a] = <<>>
        BY <1>0, <1>6, <3>2 DEF joinGroup, MulticastTipi
      <4>2. Ricevute(a) = <<>>
        BY <4>1, Niente DEF Ricevute
      <4>3. CASE Len(Passata) = 0
        BY <2>2, <3>0, <4>2, <4>3 DEF Continuo
      <4>4. CASE Len(Passata) # 0
        <5>1. Posto \in 0 .. Len(Passata) - 1
          BY <1>0, <1>a, <4>4, LettoreDentro DEF MulticastTipi, Posto
        <5>2. Posto % Len(Passata) = Posto
          BY <1>a, <4>4, <5>1, ModPiccolo
        <5>3. (Posto + Len(Ricevute(a)')) % Len(Passata) = Posto
          BY <3>0, <4>2, <5>1, <5>2
        <5>4. Tratto(Ricevute(a)', Posto)
          BY <3>0, <4>2 DEF Tratto
        <5> QED
          BY <2>2, <4>4, <5>1, <5>3, <5>4 DEF Continuo, Tratto
      <4> QED
        BY <4>3, <4>4
    <3> QED
      BY <3>1, <3>2
  <2> QED
    BY <2>1, <2>3 DEF MulticastInv
<1>7. ASSUME NEW c \in Ascoltatore, receive(c)
      PROVE  MulticastInv'
  <2>0. socket[c] \in Seq(Linee) /\ viste[c] \in Seq(Linee) /\ socket[c] # <<>>
    BY <1>0, <1>7 DEF receive, MulticastTipi
  <2>1. MulticastTipi'
    <3>1. socket' \in [Ascoltatore -> Seq(Linee)] /\ viste' \in [Ascoltatore -> Seq(Linee)]
      BY <1>0, <1>7, <2>0 DEF receive, MulticastTipi
    <3>2. resta' \in [Ascoltatore -> Int]
      BY <1>0, <1>7 DEF receive, MulticastTipi
    <3>3. \A a \in Ascoltatore : resta'[a] = -1 => socket'[a] = <<>> /\ viste'[a] = <<>> /\ a \notin gruppo'
      BY <1>0, <1>7 DEF receive, MulticastTipi
    <3>4. file # <<>>
      BY <1>0, <1>7 DEF receive, MulticastTipi
    <3> QED
      BY <1>0, <1>7, <3>1, <3>2, <3>3, <3>4 DEF receive, MulticastTipi
  <2>2. Passata' = Passata /\ Posto' = Posto
    BY <1>7 DEF receive, Passata, Posto
  <2>3. ASSUME NEW a \in Ascoltatore \ perse'
        PROVE  Continuo(a)'
    <3>1. Continuo(a)
      BY <1>0, <1>7 DEF receive
    <3>2. Ricevute(a)' = Ricevute(a)
      <4>1. CASE a # c
        BY <1>0, <1>7, <4>1 DEF receive, Ricevute, MulticastTipi
      <4>2. CASE a = c
        <5>1. viste'[c] = Append(viste[c], Head(socket[c])) /\ socket'[c] = Tail(socket[c])
          BY <1>0, <1>7 DEF receive, MulticastTipi
        <5>2. Append(viste[c], Head(socket[c])) \o Tail(socket[c]) = viste[c] \o socket[c]
          BY <2>0, PassaAvanti
        <5> QED
          BY <4>2, <5>1, <5>2 DEF Ricevute
      <4> QED
        BY <4>1, <4>2
    <3> QED
      BY <1>7, <2>2, <3>1, <3>2 DEF receive, Continuo, Tratto
  <2> QED
    BY <2>1, <2>3 DEF MulticastInv
<1>8. ASSUME NEW c \in Ascoltatore, leaveGroup(c)
      PROVE  MulticastInv'
  <2>1. MulticastTipi'
    BY <1>0, <1>8 DEF leaveGroup, MulticastTipi
  <2>2. Passata' = Passata /\ Posto' = Posto
    BY <1>8 DEF leaveGroup, Passata, Posto
  <2>3. ASSUME NEW a \in Ascoltatore \ perse'
        PROVE  Continuo(a)'
    <3>1. Continuo(a)
      BY <1>0, <1>8 DEF leaveGroup
    <3>2. CASE a # c
      <4>1. Ricevute(a)' = Ricevute(a) /\ (a \in gruppo' <=> a \in gruppo)
        BY <1>0, <1>8, <3>2 DEF leaveGroup, Ricevute, MulticastTipi
      <4> QED
        BY <2>2, <3>1, <4>1 DEF Continuo, Tratto
    <3>3. CASE a = c
      <4>1. viste[a] \in Seq(Linee) /\ socket[a] \in Seq(Linee)
        BY <1>0 DEF MulticastTipi
      <4>2. Ricevute(a)' = viste[a] \o <<>> /\ a \notin gruppo'
        BY <1>0, <1>8, <3>3 DEF leaveGroup, Ricevute, MulticastTipi
      <4>3. Ricevute(a)' = viste[a]
        BY <4>1, <4>2
      <4>4. CASE Len(Passata) = 0
        <5>1. viste[a] \o socket[a] = <<>>
          BY <3>1, <4>4 DEF Continuo, Ricevute
        <5>2. viste[a] = <<>>
          BY <4>1, <5>1
        <5> QED
          BY <2>2, <4>3, <4>4, <5>2 DEF Continuo
      <4>5. CASE Len(Passata) # 0
        <5>1. PICK inizio \in 0 .. Len(Passata) - 1 : Tratto(viste[a] \o socket[a], inizio)
          BY <3>1, <4>5 DEF Continuo, Ricevute
        <5>2. Tratto(viste[a], inizio)
          BY <4>1, <5>1, TrattoMeno
        <5> QED
          BY <2>2, <4>2, <4>3, <4>5, <5>2 DEF Continuo, Tratto
      <4> QED
        BY <4>4, <4>5
    <3> QED
      BY <3>2, <3>3
  <2> QED
    BY <2>1, <2>3 DEF MulticastInv
<1>9. CASE UNCHANGED multicastVars
  <2>1. MulticastTipi' /\ Posto' = Posto
    BY <1>0, <1>9 DEF multicastVars, MulticastTipi, Posto, Passata
  <2> QED
    BY <1>2, <1>9, <2>1 DEF multicastVars
<1> QED
  BY <1>1, <1>3, <1>4, <1>5, <1>6, <1>7, <1>8, <1>9 DEF MulticastNext

\* What is shown begins the stretch that was received.
LEMMA AscoltoSegue == MulticastInv => AscoltoContinuo
<1> SUFFICES ASSUME MulticastInv, NEW a \in Ascoltatore \ perse, viste[a] # <<>>
             PROVE  \E inizio \in 0 .. Len(Passata) - 1 : \A k \in DOMAIN viste[a] :
                      viste[a][k] = Passata[((inizio + k - 1) % Len(Passata)) + 1]
  BY DEF AscoltoContinuo
<1>1. viste[a] \in Seq(Linee) /\ socket[a] \in Seq(Linee) /\ Continuo(a)
  BY DEF MulticastInv, MulticastTipi
<1>2. Ricevute(a) # <<>>
  BY <1>1 DEF Ricevute
<1>3. PICK inizio \in 0 .. Len(Passata) - 1 : Tratto(viste[a] \o socket[a], inizio)
  BY <1>1, <1>2 DEF Continuo, Ricevute
<1>4. Tratto(viste[a], inizio)
  BY <1>1, <1>3, TrattoMeno
<1>5. DOMAIN viste[a] = 1 .. Len(viste[a])
  BY <1>1
<1> QED
  BY <1>4, <1>5 DEF Tratto

\* The other systems leave the group alone.
LEMMA MulticastSolo == [Next]_interrogazioniVars => [MulticastNext]_multicastVars
BY DEF Next, Sceglie, interrogazioniVars

\* A listener that lost nothing misses no line and sees none twice where one
\* pass over the file ends and the next begins, for any file, any number of
\* listeners and of lines sent.
THEOREM AscoltoContinuoSempre == Spec => []AscoltoContinuo
<1>1. Init => MulticastInv
  BY MulticastInizio DEF Init
<1>2. MulticastInv /\ [Next]_interrogazioniVars => MulticastInv'
  BY MulticastSolo, MulticastPasso
<1> QED
  BY <1>1, <1>2, AscoltoSegue, PTL DEF Spec

-----------------------------------------------------------------------------
(* Lists. *)

LEMMA ListaDi ==
  ASSUME NEW S, NEW s \in Seq(S)
  PROVE  Lista(s) /\ Len(s) \in Nat /\ DOMAIN s = 1 .. Len(s)
<1>1. Len(s) \in Nat /\ DOMAIN s = 1 .. Len(s) /\ s \in [1 .. Len(s) -> S]
  BY LenProperties
<1>2. s \in [1 .. Len(s) -> {s[i] : i \in DOMAIN s}]
  BY <1>1
<1>3. s \in Seq({s[i] : i \in DOMAIN s})
  BY <1>1, <1>2, IsASeq, SMTT(30)
<1> QED
  BY <1>1, <1>3 DEF Lista

LEMMA ListaTipo ==
  ASSUME NEW s, Lista(s)
  PROVE  Len(s) \in Nat /\ DOMAIN s = 1 .. Len(s)
BY LenProperties DEF Lista

LEMMA ListaFunzione ==
  ASSUME NEW n \in Nat, NEW s, DOMAIN s = 1 .. n, s = [i \in 1 .. n |-> s[i]]
  PROVE  Lista(s) /\ Len(s) = n
<1>1. s \in [1 .. n -> {s[i] : i \in 1 .. n}]
  OBVIOUS
<1>2. s \in Seq({s[i] : i \in 1 .. n}) 
  BY <1>1, IsASeq
<1> QED
  BY <1>2, LenProperties DEF Lista

LEMMA ListaVuota == Lista(<<>>) /\ Len(<<>>) = 0
BY EmptySeq DEF Lista

LEMMA ListaAppend ==
  ASSUME NEW s, Lista(s), NEW x
  PROVE  /\ Lista(Append(s, x)) /\ Len(Append(s, x)) = Len(s) + 1
         /\ Append(s, x)[Len(s) + 1] = x
         /\ \A i \in 1 .. Len(s) : Append(s, x)[i] = s[i]
<1> DEFINE S == {s[i] : i \in DOMAIN s} \cup {x}
<1>1. s \in Seq(S) /\ x \in S
  <2>1. s \in Seq({s[i] : i \in DOMAIN s})
    BY DEF Lista
  <2>2. Seq({s[i] : i \in DOMAIN s}) \subseteq Seq(S)
    BY SeqMonotonic
  <2> QED
    BY <2>1, <2>2
<1> HIDE DEF S
<1>2. /\ Append(s, x) \in Seq(S) /\ Len(Append(s, x)) = Len(s) + 1
      /\ \A i \in 1 .. Len(s) : Append(s, x)[i] = s[i]
      /\ Append(s, x)[Len(s) + 1] = x
  BY <1>1, AppendProperties
<1>3. Lista(Append(s, x))
  BY <1>2, ListaDi
<1> QED
  BY <1>2, <1>3

-----------------------------------------------------------------------------
(* Loops over a text or a list.*)

\* Induction, with a set for the predicate.
LEMMA Induzione ==
  ASSUME NEW n \in Nat, NEW G, 0 \in G, \A k \in 1 .. n : k - 1 \in G => k \in G
  PROVE  \A k \in 0 .. n : k \in G
<1> DEFINE S == {k \in 0 .. n : k \notin G}
<1> SUFFICES ASSUME S # {} PROVE FALSE
  OBVIOUS
<1>1. S \subseteq Nat
  OBVIOUS
<1>2. PICK k \in S : \A j \in S : k <= j
  BY <1>1, MinimoEsiste
<1>3. k \in 1 .. n /\ k - 1 \in 0 .. n /\ k - 1 < k
  BY <1>2
<1> QED
  BY <1>2, <1>3

\* A set of numbers up to n has a greatest one, and the greatest of a prefix is
\* its last.
LEMMA MassimoDi ==
  ASSUME NEW n \in Nat, NEW s, s \subseteq 1 .. n, s # {}
  PROVE  Max(s) \in s /\ \A j \in s : Max(s) >= j
<1> DEFINE R == {n - k : k \in s}
<1>1. R \subseteq Nat /\ R # {}
  <2>1. \A k \in s : n - k \in Nat
    OBVIOUS
  <2> QED
    BY <2>1
<1>2. PICK d \in R : \A e \in R : d <= e
  BY <1>1, MinimoEsiste
<1>3. PICK k \in s : d = n - k
  BY <1>2
<1>4. \A j \in s : k >= j
  <2> SUFFICES ASSUME NEW j \in s PROVE k >= j
    OBVIOUS
  <2>1. n - j \in R
    OBVIOUS
  <2>2. n - k <= n - j
    BY <2>1, <1>2, <1>3
  <2> QED
    BY <2>2
<1> QED
  BY <1>4 DEF Max

LEMMA PrefissoDi ==
  ASSUME NEW n \in Nat, NEW k \in 1 .. n
  PROVE  /\ 1 .. k \in SUBSET (1 .. n) /\ 1 .. k # {}
         /\ Max(1 .. k) = k /\ (1 .. k) \ {k} = 1 .. (k - 1)
<1>1. 1 .. k \subseteq 1 .. n /\ k \in 1 .. k
  OBVIOUS
<1>2. Max(1 .. k) \in 1 .. k /\ Max(1 .. k) >= k
  BY <1>1, MassimoDi
<1> QED
  BY <1>1, <1>2

\* it folds g over the numbers up to n, and over every set of them.
Piega(it, A, base, n, g) ==
  /\ it[{}] = base
  /\ \A s \in SUBSET (1 .. n) : s # {} /\ it[s \ {Max(s)}] \in A =>
       it[s] = g[<<it[s \ {Max(s)}], Max(s)>>]

\* p is what the loop goes through, up to the value of the fold.
Passi(p, it, A, base, n, g) ==
  /\ p \in [0 .. n -> A] /\ p[0] = base /\ p[n] = it[1 .. n]
  /\ \A k \in 1 .. n : p[k] = g[<<p[k - 1], k>>]

\* A fold is defined: the function over the sets of indices that its
\* definition chooses exists.
LEMMA PiegaEsiste ==
  ASSUME NEW A, NEW base \in A, NEW n \in Nat, NEW g, g \in [A \X (1 .. n) -> A]
  PROVE  \E it \in [SUBSET (1 .. n) -> A] : Piega(it, A, base, n, g)
<1> DEFINE Vale(m) == \E it \in [SUBSET (1 .. m) -> A] : \A s \in SUBSET (1 .. m) :
                        it[s] = IF s = {} THEN base ELSE g[<<it[s \ {Max(s)}], Max(s)>>]
           G == {m \in 0 .. n : Vale(m)}
<1>1. Vale(0)
  <2> DEFINE it == [s \in SUBSET (1 .. 0) |-> base]
  <2>1. it \in [SUBSET (1 .. 0) -> A] /\ \A s \in SUBSET (1 .. 0) : s = {} /\ it[s] = base
    OBVIOUS
  <2> HIDE DEF it
  <2> QED
    BY <2>1
<1>2. ASSUME NEW m \in 0 .. n, m < n, Vale(m) PROVE Vale(m + 1)
  <2>1. PICK h \in [SUBSET (1 .. m) -> A] : \A s \in SUBSET (1 .. m) :
               h[s] = IF s = {} THEN base ELSE g[<<h[s \ {Max(s)}], Max(s)>>]
    BY <1>2
  <2> DEFINE it == [s \in SUBSET (1 .. (m + 1)) |->
                      IF m + 1 \in s THEN g[<<h[s \ {m + 1}], m + 1>>] ELSE h[s]]
  <2>2. \A s \in SUBSET (1 .. (m + 1)) : s \ {m + 1} \in SUBSET (1 .. m)
    BY <1>2
  <2>3. it \in [SUBSET (1 .. (m + 1)) -> A]
    <3>1. m + 1 \in 1 .. n
      BY <1>2
    <3>2. \A s \in SUBSET (1 .. (m + 1)) : m + 1 \notin s => s \in SUBSET (1 .. m)
      BY <1>2
    <3>3. \A s \in SUBSET (1 .. (m + 1)) : m + 1 \in s => g[<<h[s \ {m + 1}], m + 1>>] \in A
      BY <2>1, <2>2, <3>1
    <3> QED
      BY <2>1, <3>2, <3>3
  <2>4. ASSUME NEW s \in SUBSET (1 .. (m + 1))
        PROVE  it[s] = IF s = {} THEN base ELSE g[<<it[s \ {Max(s)}], Max(s)>>]
    <3>1. CASE m + 1 \in s
      <4>1. m + 1 \in Nat /\ s \subseteq 1 .. (m + 1)
        BY <1>2
      <4>2. Max(s) \in 1 .. (m + 1) /\ Max(s) >= m + 1
        BY <3>1, <4>1, MassimoDi
      <4>5. Max(s) = m + 1
        BY <4>1, <4>2
      <4>3. s \ {m + 1} \in SUBSET (1 .. (m + 1)) /\ m + 1 \notin s \ {m + 1}
        OBVIOUS
      <4>4. it[s \ {m + 1}] = h[s \ {m + 1}]
        BY <4>3
      <4> QED
        BY <3>1, <4>4, <4>5
    <3>2. CASE m + 1 \notin s
      <4>1. s \in SUBSET (1 .. m) /\ it[s] = h[s]
        BY <3>2, <1>2
      <4>2. s # {} => /\ s \ {Max(s)} \in SUBSET (1 .. (m + 1)) /\ m + 1 \notin s \ {Max(s)}
                      /\ it[s \ {Max(s)}] = h[s \ {Max(s)}]
        BY <3>2
      <4> HIDE DEF it
      <4> QED
        BY <2>1, <4>1, <4>2
    <3> QED
      BY <3>1, <3>2
  <2> HIDE DEF it
  <2> QED
    BY <2>3, <2>4
<1>3. \A k \in 1 .. n : k - 1 \in G => k \in G
  <2> HIDE DEF Vale
  <2> SUFFICES ASSUME NEW k \in 1 .. n, k - 1 \in G PROVE k \in G
    OBVIOUS
  <2>1. k - 1 \in 0 .. n /\ k - 1 < n /\ (k - 1) + 1 = k /\ Vale(k - 1)
    OBVIOUS
  <2>2. Vale((k - 1) + 1)
    BY <2>1, <1>2
  <2> QED
    BY <2>1, <2>2
<1> HIDE DEF Vale
<1>4. Vale(n)
  <2>1. 0 \in G
    BY <1>1
  <2> HIDE DEF G
  <2>2. n \in G
    BY <1>3, <2>1, Induzione
  <2> QED
    BY <2>2 DEF G
<1> QED
  BY <1>4 DEF Vale, Piega

\* Such a function goes through the prefixes step by step, and stays in A.
LEMMA PiegaPassi ==
  ASSUME NEW A, NEW base \in A, NEW n \in Nat, NEW g, g \in [A \X (1 .. n) -> A],
         NEW it, Piega(it, A, base, n, g)
  PROVE  \E p : Passi(p, it, A, base, n, g)
<1> DEFINE p == [k \in 0 .. n |-> it[1 .. k]]
           G == {k \in 0 .. n : p[k] \in A}
<1>1. p[0] = base
  <2>1. 1 .. 0 = {}
    OBVIOUS
  <2> QED
    BY <2>1 DEF Piega
<1>2. ASSUME NEW k \in 1 .. n, p[k - 1] \in A
      PROVE  p[k] = g[<<p[k - 1], k>>] /\ p[k] \in A
  <2>1. /\ 1 .. k \in SUBSET (1 .. n) /\ 1 .. k # {}
        /\ Max(1 .. k) = k /\ (1 .. k) \ {k} = 1 .. (k - 1)
    BY PrefissoDi
  <2>2. p[k - 1] = it[1 .. (k - 1)] /\ p[k] = it[1 .. k]
    OBVIOUS
  <2>3. p[k] = g[<<p[k - 1], k>>]
    <3> HIDE DEF p
    <3> QED
      BY <1>2, <2>1, <2>2 DEF Piega
  <2> QED
    BY <1>2, <2>3
<1>3. p[n] = it[1 .. n]
  OBVIOUS
<1> HIDE DEF p
<1>4. ASSUME NEW k \in 1 .. n, k - 1 \in G PROVE k \in G
  <2>1. p[k - 1] \in A /\ k \in 0 .. n
    BY <1>4
  <2>2. p[k] \in A
    BY <1>2, <2>1
  <2> QED
    BY <2>1, <2>2
<1>5. \A k \in 0 .. n : p[k] \in A
  <2>1. 0 \in G
    BY <1>1
  <2> HIDE DEF G
  <2>2. \A k \in 0 .. n : k \in G
    BY <1>4, <2>1, Induzione
  <2> QED
    BY <2>2 DEF G
<1>6. \A k \in 1 .. n : k - 1 \in 0 .. n
  OBVIOUS
<1>7. \A k \in 1 .. n : p[k] = g[<<p[k - 1], k>>]
  BY <1>2, <1>5, <1>6
<1>8. p \in [0 .. n -> A]
  BY <1>5 DEF p
<1> QED
  BY <1>1, <1>3, <1>7, <1>8 DEF Passi


\* p is what the loop of file_scan goes through.
CicloConta(p, A, base, n, t) ==
  /\ p \in [0 .. n -> A] /\ p[0] = base /\ p[n] = FoldLeft(ContaCarattere, base, t)
  /\ \A k \in 1 .. n : p[k] = ContaCarattere(p[k - 1], t[k])

LEMMA PassiConta ==
  ASSUME NEW A, NEW base \in A, NEW n \in Nat, NEW t, DOMAIN t = 1 .. n,
         \A a \in A, k \in 1 .. n : ContaCarattere(a, t[k]) \in A
  PROVE  \E p : CicloConta(p, A, base, n, t)
<1> DEFINE g == [x \in A \X (1 .. n) |-> ContaCarattere(x[1], t[x[2]])]
           D(f) == [s \in SUBSET (1 .. n) |->
                      IF s = {} THEN base ELSE ContaCarattere(f[s \ {Max(s)}], t[Max(s)])]
           it == CHOOSE f : f = D(f)
<1>1. \A a \in A, k \in 1 .. n : g[<<a, k>>] = ContaCarattere(a, t[k])
  OBVIOUS
<1>2. g \in [A \X (1 .. n) -> A]
  OBVIOUS
<1> HIDE DEF g
<1>3. \A s \in SUBSET (1 .. n) : s # {} =>
        Max(s) \in 1 .. n /\ s \ {Max(s)} \in SUBSET (1 .. n)
  BY MassimoDi
<1>4. PICK h \in [SUBSET (1 .. n) -> A] : Piega(h, A, base, n, g)
  BY <1>2, PiegaEsiste
<1>5. h = D(h)
  BY <1>1, <1>3, <1>4 DEF Piega
<1>6. it = D(it)
  <2> HIDE DEF D
  <2> QED
    BY <1>5
<1>7. FoldLeft(ContaCarattere, base, t) = it[1 .. n]
  BY Zenon DEF FoldLeft, MapThenFoldSet
<1> HIDE DEF it
<1>8. Piega(it, A, base, n, g)
  BY <1>1, <1>3, <1>6 DEF Piega
<1> HIDE DEF D
<1>9. PICK p : Passi(p, it, A, base, n, g)
  BY <1>2, <1>8, PiegaPassi
<1>10. ASSUME NEW k \in 1 .. n PROVE p[k] = ContaCarattere(p[k - 1], t[k])
  <2>1. k - 1 \in 0 .. n
    OBVIOUS
  <2>2. p[k] = g[<<p[k - 1], k>>] /\ p[k - 1] \in A
    BY <1>9, <2>1 DEF Passi
  <2> QED
    BY <1>1, <2>2
<1> QED
  BY <1>7, <1>9, <1>10 DEF Passi, CicloConta

\* What the loop of dir_scan goes through.
CicloVoci(p, A, base, n, t, soglia) ==
  /\ p \in [0 .. n -> A] /\ p[0] = base /\ p[n] = FoldLeft(LAMBDA a, e : Voce(a, e, soglia), base, t)
  /\ \A k \in 1 .. n : p[k] = Voce(p[k - 1], t[k], soglia)

LEMMA PassiVoci ==
  ASSUME NEW A, NEW base \in A, NEW n \in Nat, NEW t, DOMAIN t = 1 .. n, NEW soglia,
         \A a \in A, k \in 1 .. n : Voce(a, t[k], soglia) \in A
  PROVE  \E p : CicloVoci(p, A, base, n, t, soglia)
<1> DEFINE g == [x \in A \X (1 .. n) |-> Voce(x[1], t[x[2]], soglia)]
           D(f) == [s \in SUBSET (1 .. n) |->
                      IF s = {} THEN base ELSE Voce(f[s \ {Max(s)}], t[Max(s)], soglia)]
           it == CHOOSE f : f = D(f)
<1>1. \A a \in A, k \in 1 .. n : g[<<a, k>>] = Voce(a, t[k], soglia)
  OBVIOUS
<1>2. g \in [A \X (1 .. n) -> A]
  OBVIOUS
<1> HIDE DEF g
<1>3. \A s \in SUBSET (1 .. n) : s # {} =>
        Max(s) \in 1 .. n /\ s \ {Max(s)} \in SUBSET (1 .. n)
  BY MassimoDi
<1>4. PICK h \in [SUBSET (1 .. n) -> A] : Piega(h, A, base, n, g)
  BY <1>2, PiegaEsiste
<1>5. h = D(h)
  BY <1>1, <1>3, <1>4 DEF Piega
<1>6. it = D(it)
  <2> HIDE DEF D
  <2> QED
    BY <1>5
<1>7. FoldLeft(LAMBDA a, e : Voce(a, e, soglia), base, t) = it[1 .. n]
  BY Zenon DEF FoldLeft, MapThenFoldSet
<1> HIDE DEF it
<1>8. Piega(it, A, base, n, g)
  BY <1>1, <1>3, <1>6 DEF Piega
<1> HIDE DEF D
<1>9. PICK p : Passi(p, it, A, base, n, g)
  BY <1>2, <1>8, PiegaPassi
<1>10. ASSUME NEW k \in 1 .. n PROVE p[k] = Voce(p[k - 1], t[k], soglia)
  <2>1. k - 1 \in 0 .. n
    OBVIOUS
  <2>2. p[k] = g[<<p[k - 1], k>>] /\ p[k - 1] \in A
    BY <1>9, <2>1 DEF Passi
  <2> QED
    BY <1>1, <2>2
<1> QED
  BY <1>7, <1>9, <1>10 DEF Passi, CicloVoci

-----------------------------------------------------------------------------
(* What file_scan and dir_scan compute. *)

\* The members of P among the first k numbers.
Fino(P, k) == {j \in P : j \in 1 .. k}

LEMMA FinoFinito ==
  ASSUME NEW P, NEW k \in Nat
  PROVE  IsFiniteSet(Fino(P, k)) /\ Cardinality(Fino(P, k)) \in Nat
<1>1. IsFiniteSet(1 .. k) /\ Fino(P, k) \in SUBSET (1 .. k)
  BY FS_Interval DEF Fino
<1> QED
  BY <1>1, FS_Subset, FS_CardinalityType

LEMMA FinoAvanti ==
  ASSUME NEW P, NEW k \in Nat
  PROVE  /\ Cardinality(Fino(P, 0)) = 0
         /\ Cardinality(Fino(P, k + 1)) = Cardinality(Fino(P, k)) + (IF k + 1 \in P THEN 1 ELSE 0)
<1>1. Fino(P, 0) = {}
  BY DEF Fino
<1>2. Cardinality(Fino(P, 0)) = 0
  BY <1>1, FS_EmptySet
<1>3. IsFiniteSet(Fino(P, k)) /\ Cardinality(Fino(P, k)) \in Nat
  BY FinoFinito
<1>4. k + 1 \notin Fino(P, k)
  BY DEF Fino
<1>5. CASE k + 1 \in P
  <2>1. Fino(P, k + 1) = Fino(P, k) \cup {k + 1}
    BY <1>5 DEF Fino
  <2>2. Cardinality(Fino(P, k) \cup {k + 1}) = Cardinality(Fino(P, k)) + 1
    BY <1>3, <1>4, FS_AddElement
  <2>3. Cardinality(Fino(P, k + 1)) = Cardinality(Fino(P, k)) + 1
    BY <2>1, <2>2
  <2> QED
    BY <1>2, <1>5, <2>3
<1>6. CASE k + 1 \notin P
  <2>1. Fino(P, k + 1) = Fino(P, k)
    BY <1>6 DEF Fino
  <2>2. Cardinality(Fino(P, k + 1)) = Cardinality(Fino(P, k)) + 0
    BY <1>3, <2>1
  <2> QED
    BY <1>2, <1>6, <2>2
<1> QED
  BY <1>5, <1>6

LEMMA FinoTutto ==
  ASSUME NEW n \in Nat, NEW P, P \subseteq 1 .. n
  PROVE  Fino(P, n) = P
BY DEF Fino

\* Where a character of S ends a word, and where a line ends.
FiniParola(t, S) == {j \in DOMAIN t : j > 1 /\ t[j] \in S /\ t[j - 1] \notin S}
FiniLinea(t) == {i \in DOMAIN t : t[i] = "n"}

\* file_scan counts them.
LEMMA TestoContato ==
  ASSUME NEW t, Lista(t)
  PROVE  ContaTesto(t) = [caratteri |-> Len(t), parole |-> Cardinality(FiniParola(t, Bianchi)),
                          linee |-> Cardinality(FiniLinea(t))]
<1> DEFINE n == Len(t)
           C == {t[i] : i \in DOMAIN t} \cup {Spazio}
           A == [prev : C, caratteri : Nat, linee : Nat, parole : Nat]
           base == [prev |-> Spazio, caratteri |-> 0, linee |-> 0, parole |-> 0]
           F == FiniParola(t, Bianchi)
           L == FiniLinea(t)
<1>1. n \in Nat /\ DOMAIN t = 1 .. n
  BY ListaTipo
<1>2. base \in A
  OBVIOUS
<1>3. ASSUME NEW a \in A, NEW k \in 1 .. n PROVE ContaCarattere(a, t[k]) \in A
  <2> DEFINE l == a.linee + (IF t[k] = "n" THEN 1 ELSE 0)
             w == a.parole + (IF t[k] \in Bianchi /\ a.prev \notin Bianchi THEN 1 ELSE 0)
  <2>1. l \in Nat /\ w \in Nat /\ t[k] \in C /\ a.caratteri + 1 \in Nat
    BY <1>1
  <2>2. ContaCarattere(a, t[k]) = [prev |-> t[k], caratteri |-> a.caratteri + 1, linee |-> l, parole |-> w]
    BY DEF ContaCarattere
  <2> HIDE DEF l, w, C
  <2> QED
    BY <2>1, <2>2
<1> HIDE DEF A, base, n
<1>4. PICK p : CicloConta(p, A, base, n, t)
  BY <1>1, <1>2, <1>3, PassiConta
<1>5. /\ p[0] = base /\ p[n] = FoldLeft(ContaCarattere, base, t)
      /\ \A k \in 1 .. n : p[k] = ContaCarattere(p[k - 1], t[k])
  BY <1>4 DEF CicloConta
<1> DEFINE Fatti(k) == /\ p[k].prev = IF k = 0 THEN Spazio ELSE t[k]
                       /\ p[k].caratteri = k
                       /\ p[k].linee = Cardinality(Fino(L, k))
                       /\ p[k].parole = Cardinality(Fino(F, k))
           G == {k \in 0 .. n : Fatti(k)}
<1>6. Fatti(0)
  BY <1>5, FinoAvanti DEF base
<1>7. ASSUME NEW k \in 1 .. n, k - 1 \in G PROVE k \in G
  <2> DEFINE h == k - 1
  <2>1. h \in Nat /\ h + 1 = k /\ k \in 0 .. n /\ k # 0 /\ Fatti(h) /\ k \in DOMAIN t
    BY <1>1, <1>7
  <2>2. /\ Cardinality(Fino(L, h + 1)) = Cardinality(Fino(L, h)) + (IF h + 1 \in L THEN 1 ELSE 0)
        /\ Cardinality(Fino(F, h + 1)) = Cardinality(Fino(F, h)) + (IF h + 1 \in F THEN 1 ELSE 0)
    BY <2>1, FinoAvanti
  <2>3. k \in L <=> t[k] = "n"
    BY <2>1 DEF FiniLinea
  <2>4. k \in F <=> t[k] \in Bianchi /\ p[h].prev \notin Bianchi
    <3>1. CASE h = 0
      <4>1. p[h].prev \in Bianchi
        BY <2>1, <3>1 DEF Bianchi
      <4> QED
        BY <2>1, <3>1, <4>1 DEF FiniParola
    <3>2. CASE h # 0
      <4>1. p[h].prev = t[k - 1] /\ k > 1
        BY <2>1, <3>2
      <4> QED
        BY <2>1, <4>1 DEF FiniParola
    <3> QED
      BY <3>1, <3>2
  <2> HIDE DEF L, F
  <2> DEFINE l == p[h].linee + (IF t[k] = "n" THEN 1 ELSE 0)
             w == p[h].parole + (IF t[k] \in Bianchi /\ p[h].prev \notin Bianchi THEN 1 ELSE 0)
             c == p[h].caratteri + 1
  <2>5. l = Cardinality(Fino(L, k)) /\ w = Cardinality(Fino(F, k)) /\ c = k
    BY <2>1, <2>2, <2>3, <2>4
  <2>6. p[k] = [prev |-> t[k], caratteri |-> c, linee |-> l, parole |-> w]
    BY <1>5 DEF ContaCarattere
  <2> HIDE DEF l, w, c
  <2>7. p[k].prev = t[k] /\ p[k].caratteri = c /\ p[k].linee = l /\ p[k].parole = w
    BY <2>6
  <2> QED
    BY <2>1, <2>5, <2>7
<1>8. Fatti(n)
  <2>1. 0 \in G
    BY <1>1, <1>6
  <2> HIDE DEF G
  <2>2. \A k \in 0 .. n : k \in G
    BY <1>1, <1>7, <2>1, Induzione
  <2> QED
    BY <1>1, <2>2 DEF G
<1>9. Fino(L, n) = L /\ Fino(F, n) = F
  <2>1. L \subseteq 1 .. n /\ F \subseteq 1 .. n
    BY <1>1 DEF FiniLinea, FiniParola
  <2> QED
    BY <1>1, <2>1, FinoTutto
<1>10. ContaTesto(t) = [caratteri |-> p[n].caratteri, parole |-> p[n].parole, linee |-> p[n].linee]
  BY <1>5 DEF ContaTesto, base
<1> QED
  BY <1>8, <1>9, <1>10 DEF n

\* As many as the words of Intervalli: each of these ends where the other says,
\* and has one start.
LEMMA ParoleIntervalli ==
  ASSUME NEW t, Lista(t), NEW S
  PROVE  Cardinality({ij \in Intervalli(t, S) : ij[1] < ij[2]}) = Cardinality(FiniParola(t, S))
<1> DEFINE n == Len(t)
           W == {ij \in Intervalli(t, S) : ij[1] < ij[2]}
           F == FiniParola(t, S)
           f == [ij \in W |-> ij[2]]
<1>1. n \in Nat /\ DOMAIN t = 1 .. n
  BY ListaTipo
<1>2. ASSUME NEW ij \in W
      PROVE  /\ ij[1] \in 1 .. n /\ ij[2] \in 1 .. n /\ ij = <<ij[1], ij[2]>> /\ ij[1] < ij[2] /\ t[ij[2]] \in S
             /\ ij[1] = 1 \/ t[ij[1] - 1] \in S
             /\ \A k \in ij[1] .. ij[2] - 1 : t[k] \notin S
  BY <1>2 DEF Intervalli
<1>3. ASSUME NEW ij \in W PROVE ij[2] \in F
  <2>1. ij[2] - 1 \in ij[1] .. ij[2] - 1 /\ ij[2] > 1 /\ ij[2] \in DOMAIN t
    BY <1>1, <1>2
  <2> QED
    BY <1>2, <2>1 DEF FiniParola
<1>4. ASSUME NEW x \in W, NEW y \in W, x[2] = y[2] PROVE x = y
  <2>1. ASSUME NEW u \in W, NEW v \in W, u[2] = v[2], u[1] < v[1] PROVE FALSE
    <3>1. v[1] - 1 \in u[1] .. u[2] - 1 /\ v[1] # 1
      BY <1>2, <2>1
    <3>2. t[v[1] - 1] \in S
      BY <1>2, <3>1
    <3> QED
      BY <1>2, <3>1, <3>2
  <2>2. x[1] = y[1]
    BY <1>2, <1>4, <2>1
  <2> QED
    BY <1>2, <1>4, <2>2
<1>5. ASSUME NEW j \in F PROVE \E ij \in W : ij[2] = j
  <2>1. j \in 1 .. n /\ j > 1 /\ t[j] \in S /\ t[j - 1] \notin S /\ j - 1 \in 1 .. n
    BY <1>1 DEF FiniParola
  <2> DEFINE I == {i \in 1 .. j - 1 : \A k \in i .. j - 1 : t[k] \notin S}
  <2>2. I \subseteq Nat /\ j - 1 \in I
    BY <2>1
  <2>3. PICK i \in I : \A k \in I : i <= k
    BY <2>2, MinimoEsiste
  <2>4. i \in 1 .. j - 1 /\ \A k \in i .. j - 1 : t[k] \notin S
    OBVIOUS
  <2>5. i = 1 \/ t[i - 1] \in S
    <3> SUFFICES ASSUME i # 1, t[i - 1] \notin S PROVE FALSE
      OBVIOUS
    <3>1. i - 1 \in 1 .. j - 1 /\ \A k \in i - 1 .. j - 1 : k = i - 1 \/ k \in i .. j - 1
      BY <2>1, <2>4
    <3>2. i - 1 \in I
      BY <2>4, <3>1
    <3> HIDE DEF I
    <3> QED
      BY <2>1, <2>3, <2>4, <3>2
  <2>6. <<i, j>> \in Intervalli(t, S)
    BY <2>1, <2>4, <2>5 DEF Intervalli
  <2>7. <<i, j>> \in W
    BY <2>1, <2>4, <2>6
  <2> QED
    BY <2>7
<1> HIDE DEF W, F
<1>6. IsFiniteSet(F)
  <2>1. F \in SUBSET (1 .. n) /\ IsFiniteSet(1 .. n)
    BY <1>1, FS_Interval DEF F, FiniParola
  <2> QED
    BY <2>1, FS_Subset
<1>7. f \in Bijection(W, F)
  <2>1. f \in [W -> F] /\ \A x, y \in W : f[x] = f[y] => x = y
    BY <1>3, <1>4
  <2>2. \A j \in F : \E ij \in W : f[ij] = j
    BY <1>5
  <2> HIDE DEF f
  <2> QED
    BY <2>1, <2>2 DEF Bijection, Injection, Surjection, IsInjective
<1>8. ExistsBijection(F, W)
  <2>1. ExistsBijection(W, F)
    BY <1>7 DEF ExistsBijection
  <2> QED
    BY <2>1, Fun_ExistsBijSymmetric
<1> QED
  BY <1>6, <1>8, FS_Bijection DEF W, F

\* The entries of a directory that dir_scan is asked for, and the place of one
\* among them.
Buone(d, soglia) == {i \in DOMAIN d : d[i].reg /\ d[i].dim >= soglia}
Rango(d, soglia, i) == Cardinality(Fino(Buone(d, soglia), i))

\* What dir_scan answers with fd descriptors open in the end: the names, or an
\* error when there are no descriptors left or an entry may not be read.
VociGiuste(d, soglia, k, prima, a) ==
  /\ a.errore \in {0, -1} /\ a.fd \in Nat /\ a.fd >= prima /\ Lista(a.nomi)
  /\ a.errore = -1 => a.fd >= MaxFd \/ Illeggibile(d)
  /\ a.errore = 0 =>
       /\ Len(a.nomi) = IF Rango(d, soglia, k) <= MaxNomi THEN Rango(d, soglia, k) ELSE MaxNomi
       /\ \A i \in Buone(d, soglia) : i <= k /\ Rango(d, soglia, i) <= MaxNomi =>
            a.nomi[Rango(d, soglia, i)] = d[i].nome

LEMMA VocePasso ==
  ASSUME NEW d, Lista(d), NEW soglia, NEW k \in 1 .. Len(d), NEW prima, prima \in Nat,
         NEW a, a \in [errore : {0, -1}, fd : Nat, nomi : Seq({d[i].nome : i \in DOMAIN d})],
         VociGiuste(d, soglia, k - 1, prima, a)
  PROVE  VociGiuste(d, soglia, k, prima, Voce(a, d[k], soglia))
<1> DEFINE b == Voce(a, d[k], soglia)
           h == k - 1
           G == Buone(d, soglia)
           P(i) == Rango(d, soglia, i)
<1>1. /\ h \in Nat /\ h + 1 = k /\ k \in Nat /\ DOMAIN d = 1 .. Len(d) /\ Len(d) \in Nat
      /\ MaxNomi \in Nat /\ MaxFd \in Nat
  BY ListaTipo, ServiziRpcAssumption
<1>2. /\ a.errore \in {0, -1} /\ a.fd \in Nat /\ a.fd >= prima /\ Lista(a.nomi) /\ Len(a.nomi) \in Nat
      /\ a.errore = -1 => a.fd >= MaxFd \/ Illeggibile(d)
  BY ListaTipo DEF VociGiuste
<1>3. a = [errore |-> a.errore, fd |-> a.fd, nomi |-> a.nomi]
  OBVIOUS
<1>4. /\ P(h) \in Nat /\ P(k) = P(h) + (IF k \in G THEN 1 ELSE 0)
      /\ \A i \in Nat : P(i) \in Nat
  <2>1. Cardinality(Fino(G, h + 1)) = Cardinality(Fino(G, h)) + (IF h + 1 \in G THEN 1 ELSE 0)
    BY <1>1, FinoAvanti
  <2>2. \A i \in Nat : P(i) \in Nat
    BY FinoFinito DEF Rango
  <2> QED
    BY <1>1, <2>1, <2>2 DEF Rango
<1>5. a.errore = 0 =>
        /\ Len(a.nomi) = IF P(h) <= MaxNomi THEN P(h) ELSE MaxNomi
        /\ \A i \in G : i <= h /\ P(i) <= MaxNomi => a.nomi[P(i)] = d[i].nome
  BY DEF VociGiuste
<1>6. \A i \in G : i \in 1 .. Len(d) /\ (i <= k => i <= h \/ i = k)
  BY <1>1 DEF Buone
\* Of the entries up to h, the places are up to P(h).
<1>7. \A i \in G : i <= h => P(i) <= P(h) /\ P(i) \in Nat
  <2> SUFFICES ASSUME NEW i \in G, i <= h PROVE P(i) <= P(h) /\ P(i) \in Nat
    OBVIOUS
  <2>1. i \in Nat
    BY <1>6
  <2>2. \A j \in 1 .. i : j \in 1 .. h
    BY <1>1, <2>1
  <2> HIDE DEF G, h
  <2>3. Fino(G, i) \in SUBSET Fino(G, h)
    BY <2>2 DEF Fino
  <2>4. IsFiniteSet(Fino(G, h))
    BY <1>1, FinoFinito
  <2>5. Cardinality(Fino(G, i)) <= Cardinality(Fino(G, h))
    BY <2>3, <2>4, FS_Subset
  <2> QED
    BY <1>4, <2>1, <2>5 DEF Rango, G
<1> HIDE DEF h, G, P
<1>20. h \in Nat /\ k \in Nat /\ MaxNomi \in Nat /\ MaxFd \in Nat /\ P(h) \in Nat /\ P(k) \in Nat
      /\ P(k) = P(h) + (IF k \in G THEN 1 ELSE 0)
  BY <1>1, <1>4
<1>21. ASSUME NEW c,
              c.errore \in {0, -1} /\ c.fd \in Nat /\ c.fd >= prima /\ Lista(c.nomi),
              c.errore = -1 => c.fd >= MaxFd \/ Illeggibile(d),
              c.errore = 0 =>
                /\ Len(c.nomi) = IF P(k) <= MaxNomi THEN P(k) ELSE MaxNomi
                /\ \A i \in G : i <= k /\ P(i) <= MaxNomi => c.nomi[P(i)] = d[i].nome
       PROVE  VociGiuste(d, soglia, k, prima, c)
  BY <1>21 DEF VociGiuste, G, P
<1>8. CASE a.errore = -1
  <2>1. b = a
    BY <1>8 DEF Voce
  <2>2. VociGiuste(d, soglia, k, prima, a)
    BY <1>2, <1>8, <1>21, SMTT(30)
  <2> QED
    BY <2>1, <2>2
<1>9. CASE a.errore = 0 /\ Len(a.nomi) = MaxNomi
  <2>1. b = a
    BY <1>9 DEF Voce
  <2>0. MaxNomi = IF P(h) <= MaxNomi THEN P(h) ELSE MaxNomi
    BY <1>5, <1>9
  <2>2. P(h) >= MaxNomi
    BY <1>20, <2>0
  <2>3. MaxNomi = IF P(k) <= MaxNomi THEN P(k) ELSE MaxNomi
    BY <1>20, <2>2
  <2>4. \A i \in G : i <= k /\ P(i) <= MaxNomi => a.nomi[P(i)] = d[i].nome
    <3> SUFFICES ASSUME NEW i \in G, i <= k, P(i) <= MaxNomi PROVE a.nomi[P(i)] = d[i].nome
      OBVIOUS
    <3>1. i # k
      <4>1. k \in G => P(k) > MaxNomi
        BY <1>20, <2>2
      <4> QED
        BY <1>20, <4>1
    <3> QED
      BY <1>5, <1>6, <1>9, <3>1
  <2> HIDE DEF b
  <2>5. VociGiuste(d, soglia, k, prima, a)
    BY <1>2, <1>9, <1>21, <2>3, <2>4
  <2> QED
    BY <2>1, <2>5 DEF b
<1>10. CASE a.errore = 0 /\ Len(a.nomi) # MaxNomi /\ (a.fd >= MaxFd \/ ~d[k].legge)
  <2>1. b = [errore |-> -1, fd |-> a.fd, nomi |-> a.nomi]
    BY <1>3, <1>10 DEF Voce
  <2>2. b.errore = -1 /\ b.fd = a.fd /\ b.nomi = a.nomi
    BY <2>1
  <2>3. a.fd >= MaxFd \/ Illeggibile(d)
    BY <1>1, <1>10 DEF Illeggibile
  <2> HIDE DEF b
  <2>4. VociGiuste(d, soglia, k, prima, b)
    BY <1>2, <1>21, <2>2, <2>3
  <2> QED
    BY <2>4 DEF b
<1>11. CASE a.errore = 0 /\ Len(a.nomi) # MaxNomi /\ ~(a.fd >= MaxFd \/ ~d[k].legge)
  <2> DEFINE nn == IF d[k].reg /\ d[k].dim >= soglia THEN Append(a.nomi, d[k].nome) ELSE a.nomi
  <2>0. a.errore # -1
    BY <1>11
  <2>1. b = [errore |-> a.errore, fd |-> a.fd + 1, nomi |-> nn]
    <3>1. b = [[a EXCEPT !.fd = a.fd + 1] EXCEPT !.nomi = nn]
      BY <1>11, <2>0 DEF Voce
    <3> HIDE DEF b, nn
    <3> QED
      BY <1>3, <3>1
  <2>2. k \in G <=> d[k].reg /\ d[k].dim >= soglia
    BY <1>1 DEF Buone, G
  <2>3. nn = IF k \in G THEN Append(a.nomi, d[k].nome) ELSE a.nomi
    BY <2>2
  <2> HIDE DEF nn, b
  <2>4. P(h) < MaxNomi /\ Len(a.nomi) = P(h)
    <3>1. Len(a.nomi) = IF P(h) <= MaxNomi THEN P(h) ELSE MaxNomi
      BY <1>5, <1>11
    <3> QED
      BY <1>20, <1>11, <3>1
  <2>5. /\ Lista(Append(a.nomi, d[k].nome)) /\ Len(Append(a.nomi, d[k].nome)) = Len(a.nomi) + 1
        /\ Append(a.nomi, d[k].nome)[Len(a.nomi) + 1] = d[k].nome
        /\ \A i \in 1 .. Len(a.nomi) : Append(a.nomi, d[k].nome)[i] = a.nomi[i]
    BY <1>2, ListaAppend
  <2>6. Lista(nn) /\ Len(nn) = P(k) /\ P(k) <= MaxNomi
    <3>1. CASE k \in G
      BY <1>20, <2>3, <2>4, <2>5, <3>1
    <3>2. CASE k \notin G
      BY <1>20, <1>2, <2>3, <2>4, <3>2
    <3> QED
      BY <3>1, <3>2
  <2>7. \A i \in G : i <= k => nn[P(i)] = d[i].nome
    <3> SUFFICES ASSUME NEW i \in G, i <= k PROVE nn[P(i)] = d[i].nome
      OBVIOUS
    <3>1. CASE i = k
      BY <1>20, <2>3, <2>4, <2>5, <3>1
    <3>2. CASE i # k
      <4>1. i <= h /\ P(i) <= P(h) /\ P(i) \in Nat
        BY <1>6, <1>7, <3>2
      <4>2. P(i) >= 1
        <5>1. i \in Fino(Buone(d, soglia), i) /\ i \in Nat
          BY <1>6 DEF Fino, G
        <5>2. IsFiniteSet(Fino(Buone(d, soglia), i)) /\ Cardinality(Fino(Buone(d, soglia), i)) # 0
          BY <5>1, FinoFinito, FS_EmptySet
        <5> QED
          BY <4>1, <5>2 DEF P, Rango
      <4>3. a.nomi[P(i)] = d[i].nome
        <5>1. P(i) <= MaxNomi
          BY <1>20, <2>4, <4>1
        <5> QED
          BY <1>5, <1>11, <4>1, <5>1
      <4>4. P(i) \in 1 .. Len(a.nomi)
        BY <1>20, <2>4, <4>1, <4>2
      <4> QED
        BY <2>3, <2>5, <4>3, <4>4
    <3> QED
      BY <3>1, <3>2
  <2>8. b.errore = 0 /\ b.fd = a.fd + 1 /\ b.nomi = nn
    BY <1>11, <2>1
  <2>10. b.fd \in Nat /\ b.fd >= prima
    BY <1>2, <2>8
  <2>11. Len(b.nomi) = IF P(k) <= MaxNomi THEN P(k) ELSE MaxNomi
    BY <2>6, <2>8
  <2>9. VociGiuste(d, soglia, k, prima, b)
    BY <1>21, <2>6, <2>7, <2>8, <2>10, <2>11, SMTT(30)
  <2> QED
    BY <2>9 DEF b
<1> QED
  BY <1>2, <1>8, <1>9, <1>10, <1>11

LEMMA VoceTipo ==
  ASSUME NEW N, NEW a, a \in [errore : {0, -1}, fd : Nat, nomi : Seq(N)],
         NEW e, e.nome \in N, NEW soglia
  PROVE  Voce(a, e, soglia) \in [errore : {0, -1}, fd : Nat, nomi : Seq(N)]
<1> DEFINE nn == IF e.reg /\ e.dim >= soglia THEN Append(a.nomi, e.nome) ELSE a.nomi
<1>1. nn \in Seq(N)
  BY AppendProperties
<1>2. a = [errore |-> a.errore, fd |-> a.fd, nomi |-> a.nomi]
  OBVIOUS
<1>3. \/ Voce(a, e, soglia) = a
      \/ Voce(a, e, soglia) = [errore |-> -1, fd |-> a.fd, nomi |-> a.nomi]
      \/ Voce(a, e, soglia) = [errore |-> a.errore, fd |-> a.fd + 1, nomi |-> nn]
  BY <1>2 DEF Voce
<1> HIDE DEF nn
<1> QED
  BY <1>1, <1>3

\* dir_scan, when it opens the directory.
Scansione(d, soglia, prima) ==
  FoldLeft(LAMBDA a, e : Voce(a, e, soglia), [errore |-> 0, fd |-> prima + 1, nomi |-> <<>>], d)

LEMMA VociLette ==
  ASSUME NEW d, Lista(d), NEW soglia, NEW prima \in Nat
  PROVE  VociGiuste(d, soglia, Len(d), prima, Scansione(d, soglia, prima))
<1> DEFINE n == Len(d)
           N == {d[i].nome : i \in DOMAIN d}
           A == [errore : {0, -1}, fd : Nat, nomi : Seq(N)]
           base == [errore |-> 0, fd |-> prima + 1, nomi |-> <<>>]
<1>1. n \in Nat /\ DOMAIN d = 1 .. n
  BY ListaTipo
<1>2. base \in A
  <2>1. <<>> \in Seq(N)
    BY EmptySeq
  <2> QED
    BY <2>1
<1>3. \A a \in A, k \in 1 .. n : Voce(a, d[k], soglia) \in A
  <2>1. \A k \in 1 .. n : d[k].nome \in N
    BY <1>1
  <2> HIDE DEF N
  <2> QED
    BY <2>1, VoceTipo
<1>4. VociGiuste(d, soglia, 0, prima, base)
  <2>1. Rango(d, soglia, 0) = 0 /\ MaxNomi \in Nat
    BY FinoAvanti, ServiziRpcAssumption DEF Rango
  <2>2. \A i \in Buone(d, soglia) : ~(i <= 0)
    BY <1>1 DEF Buone
  <2>3. Lista(<<>>) /\ Len(<<>>) = 0
    BY ListaVuota
  <2> QED
    BY <2>1, <2>2, <2>3 DEF VociGiuste
<1> DEFINE f == FoldLeft(LAMBDA a, e : Voce(a, e, soglia), base, d)
<1>5. \E p : CicloVoci(p, A, base, n, d, soglia)
  <2> HIDE DEF A, base, n
  <2> QED
    BY <1>1, <1>2, <1>3, PassiVoci
<1>6. PICK p : CicloVoci(p, A, base, n, d, soglia)
  BY <1>5
<1>7. /\ p \in [0 .. n -> A] /\ p[0] = base /\ p[n] = f
      /\ \A k \in 1 .. n : p[k] = Voce(p[k - 1], d[k], soglia)
  <2> HIDE DEF A, base, n
  <2> QED
    BY <1>6 DEF CicloVoci
<1> HIDE DEF f, base
<1> DEFINE G == {k \in 0 .. n : VociGiuste(d, soglia, k, prima, p[k])}
<1>8. ASSUME NEW k \in 1 .. n, k - 1 \in G PROVE k \in G
  <2>1. k - 1 \in 0 .. n /\ k \in 0 .. n
    BY <1>1
  <2>2. p[k - 1] \in A /\ VociGiuste(d, soglia, k - 1, prima, p[k - 1])
    BY <1>7, <1>8, <2>1
  <2>3. VociGiuste(d, soglia, k, prima, Voce(p[k - 1], d[k], soglia))
    BY <2>2, VocePasso
  <2> QED
    BY <1>7, <2>1, <2>3
<1>9. n \in G
  <2>1. 0 \in G
    BY <1>1, <1>4, <1>7
  <2> HIDE DEF G, n
  <2>2. \A k \in 0 .. n : k \in G
    BY <1>1, <1>8, <2>1, Induzione
  <2> QED
    BY <1>1, <2>2
<1>10. VociGiuste(d, soglia, n, prima, f)
  BY <1>7, <1>9
<1> QED
  BY <1>10 DEF f, base, Scansione

\* An int differs from what it was made of by a multiple of 2 * MetaInt.
LEMMA IntGiusto ==
  ASSUME NEW z \in Int
  PROVE  IntDovuto(z, int(z))
<1> DEFINE m == 2 * MetaInt
           x == z + MetaInt
<1>1. MetaInt \in Nat \ {0} /\ m \in Nat \ {0} /\ x \in Int
  BY ServiziRpcAssumption
<1>2. /\ x = m * (x \div m) + (x % m)
      /\ x % m \in 0 .. m - 1 /\ x \div m \in Int
  <2> HIDE DEF m, x
  <2> QED
    BY <1>1
<1> DEFINE q == x \div m
           r == x % m
<1>3. int(z) = r - MetaInt
  BY DEF int
<1>4. q \in Int /\ r \in 0 .. m - 1 /\ x = m * q + r
  BY <1>2
<1> HIDE DEF q, r
<1>5. int(z) - z = r - x
  BY <1>1, <1>3, <1>4
<1>6. int(z) - z = m * (-q) + 0
  <2> HIDE DEF m, x
  <2>1. r - x = -(m * q)
    BY <1>1, <1>4
  <2>2. m * (-q) = -(m * q)
    BY <1>1, <1>4
  <2> QED
    BY <1>1, <1>4, <1>5, <2>1, <2>2
<1>7. (m * (-q) + 0) % m = 0
  <2> HIDE DEF m
  <2>1. -q \in Int /\ 0 \in 0 .. m - 1
    BY <1>1, <1>4
  <2> QED
    BY <1>1, <2>1, ModUnico
<1>8. int(z) \in -MetaInt .. MetaInt - 1
  BY <1>1, <1>3, <1>4
<1>9. (int(z) - z) % m = 0
  BY <1>6, <1>7
<1> QED
  BY <1>8, <1>9 DEF IntDovuto

-----------------------------------------------------------------------------
(* The RPC services. *)

Domanda(m) ==
  /\ m.client \in Client /\ m.xid \in Nat /\ m.xid <= xid[m.client]
  /\ fase[m.client] = "attesa" /\ m.xid = xid[m.client] => m.arg = arg[m.client]

Chieste == UNION {Chiamate[s] : s \in DOMAIN Chiamate}

\* What is due stays due while descriptors are left open, so that an answer on
\* its way is right by when it is read.  It answers what its client asked: a
\* client that waits has sent only that with its last xid.
RpcInv ==
  /\ xid \in [Client -> Nat] /\ DOMAIN fase = Client /\ DOMAIN arg = Client /\ DOMAIN copie = Client
  /\ aperti \in Nat /\ servizioRpc \in DOMAIN Chiamate \cup {"spento"}
  /\ \A m \in richieste : Domanda(m) /\ m.arg \in Chieste
  /\ \A c \in Client : fase[c] = "attesa" => arg[c] \in Chieste
  /\ \A r \in risposte : Domanda(r.req) /\ r.req.arg \in Chieste /\ RispostaDovuta(r.req.arg, r.ris, aperti)
  /\ \A s \in stampate : s.arg \in Chieste /\ RispostaDovuta(s.arg, s.ris, aperti)

LEMMA RpcInizio == RpcServiziInit => RpcInv
BY DEF RpcServiziInit, RpcInit, RpcInv

\* What is due, entry by entry.
LEMMA VociDovute ==
  ASSUME NEW nome, Lista(DirConta[nome]), NEW soglia, NEW prima, NEW a,
         VociGiuste(DirConta[nome], soglia, Len(DirConta[nome]), prima, a), a.errore = 0,
         NEW ris, ris.errore # -1, ris.nomi = a.nomi, NEW fd
  PROVE  NomiDovuti(nome, soglia, ris, fd)
<1> DEFINE d == DirConta[nome]
           n == Len(d)
           B0 == {i \in DOMAIN d : d[i].reg /\ d[i].dim >= soglia}
           P(i) == Cardinality({j \in B0 : j <= i})
<1>1. n \in Nat /\ DOMAIN d = 1 .. n /\ MaxNomi \in Nat
  BY ListaTipo, ServiziRpcAssumption
<1>2. B0 = Buone(d, soglia) /\ B0 \subseteq 1 .. n
  BY <1>1 DEF Buone
<1>3. /\ Len(a.nomi) = IF Rango(d, soglia, n) <= MaxNomi THEN Rango(d, soglia, n) ELSE MaxNomi
      /\ \A i \in Buone(d, soglia) : i <= n /\ Rango(d, soglia, i) <= MaxNomi =>
           a.nomi[Rango(d, soglia, i)] = d[i].nome
  BY DEF VociGiuste
<1> HIDE DEF B0, n, d
<1>4. Fino(B0, n) = B0
  BY <1>1, <1>2, FinoTutto
<1>5. Rango(d, soglia, n) = Cardinality(B0) /\ Cardinality(B0) \in Nat
  BY <1>1, <1>2, <1>4, FinoFinito DEF Rango
<1>6. ASSUME NEW i \in B0 PROVE P(i) = Rango(d, soglia, i) /\ i <= n
  <2>1. {j \in B0 : j <= i} = Fino(B0, i) /\ i <= n
    BY <1>1, <1>2 DEF Fino
  <2>2. Rango(d, soglia, i) = Cardinality(Fino(B0, i))
    BY <1>2 DEF Rango
  <2> QED
    BY <2>1, <2>2
<1>7. Len(a.nomi) = Min({MaxNomi, Cardinality(B0)})
  <2> DEFINE c == Cardinality(B0)
             l == IF c <= MaxNomi THEN c ELSE MaxNomi
  <2>1. Len(a.nomi) = l
    BY <1>3, <1>5
  <2>2. l \in {MaxNomi, c} /\ \A y \in {MaxNomi, c} : l <= y
    BY <1>1, <1>5
  <2>3. \A x \in {MaxNomi, c} : (\A y \in {MaxNomi, c} : x <= y) => x = l
    BY <1>1, <1>5
  <2> HIDE DEF c, l
  <2>4. Min({MaxNomi, c}) = l
    BY <2>2, <2>3 DEF Min
  <2> QED
    BY <2>1, <2>4 DEF c
<1> HIDE DEF P
<1>8. ASSUME NEW i \in B0, P(i) <= MaxNomi PROVE ris.nomi[P(i)] = d[i].nome
  BY <1>2, <1>3, <1>6, <1>8
<1>9. Len(ris.nomi) = Min({MaxNomi, Cardinality(B0)})
  BY <1>7
<1> QED
  BY <1>8, <1>9 DEF NomiDovuti, B0, P, d

\* More descriptors excuse more errors.
LEMMA DovutaResta ==
  ASSUME NEW a \in Chieste, NEW ris, NEW fd \in Nat, NEW gd \in Nat, fd <= gd, RispostaDovuta(a, ris, fd)
  PROVE  RispostaDovuta(a, ris, gd)
<1>1. a.proc \in {"FILE_SCAN", "DIR_SCAN", "SOMMA", "MOLTIPLICAZIONE", "ECHO"} /\ MaxFd \in Nat
  BY ServiziRpcAssumption DEF Chieste
<1>2. CASE a.proc = "FILE_SCAN"
  <2>1. ContoDovuto(a.nome, ris, fd)
    BY <1>2 DEF RispostaDovuta
  <2>2. fd >= MaxFd => gd >= MaxFd
    BY <1>1
  <2>3. ContoDovuto(a.nome, ris, gd)
    BY <2>1, <2>2 DEF ContoDovuto
  <2> QED
    BY <1>2, <2>3 DEF RispostaDovuta
<1>3. CASE a.proc = "DIR_SCAN"
  <2>1. NomiDovuti(a.nome, a.soglia, ris, fd)
    BY <1>3 DEF RispostaDovuta
  <2>2. a.nome \in DOMAIN DirConta => Len(DirConta[a.nome]) \in Nat
    BY ServiziRpcAssumption, ListaTipo
  <2>3. a.nome \in DOMAIN DirConta /\ fd + Len(DirConta[a.nome]) >= MaxFd => gd + Len(DirConta[a.nome]) >= MaxFd
    BY <1>1, <2>2
  <2>4. NomiDovuti(a.nome, a.soglia, ris, gd)
    BY <2>1, <2>3 DEF NomiDovuti
  <2> QED
    BY <1>3, <2>4 DEF RispostaDovuta
<1>4. CASE a.proc \in {"SOMMA", "MOLTIPLICAZIONE", "ECHO"}
  BY <1>4 DEF RispostaDovuta
<1> QED
  BY <1>1, <1>2, <1>3, <1>4

\* The procedures.
LEMMA ContoGiusto ==
  ASSUME NEW nome, aperti \in Nat
  PROVE  ContoDovuto(nome, file_scan(nome), aperti)
<1> DEFINE e == file_scan(nome)
<1>1. CASE nome \notin DOMAIN FileConta \/ aperti >= MaxFd
  <2>1. e.errore = -1
    BY <1>1 DEF file_scan, Errore
  <2> HIDE DEF e
  <2>2. ContoDovuto(nome, e, aperti)
    BY <1>1, <2>1 DEF ContoDovuto
  <2> QED
    BY <2>2 DEF e
<1>2. CASE ~(nome \notin DOMAIN FileConta \/ aperti >= MaxFd)
  <2> DEFINE t == FileConta[nome]
  <2>1. Lista(t)
    BY <1>2, ServiziRpcAssumption
  <2>2. e = [errore |-> 0, conto |-> ContaTesto(t)]
    BY <1>2 DEF file_scan
  <2>3. e.errore # -1 /\ e.conto = ContaTesto(t)
    BY <2>2
  <2> HIDE DEF t, e
  <2>4. ContaTesto(t) = [caratteri |-> Len(t), parole |-> Cardinality(FiniParola(t, Bianchi)),
                         linee |-> Cardinality(FiniLinea(t))]
    BY <2>1, TestoContato
  <2>5. Cardinality({ij \in Intervalli(t, Bianchi) : ij[1] < ij[2]}) = Cardinality(FiniParola(t, Bianchi))
    BY <2>1, ParoleIntervalli
  <2>6. FiniLinea(t) = {i \in DOMAIN t : t[i] = "n"}
    BY DEF FiniLinea
  <2>7. e.conto = [caratteri |-> Len(t), linee |-> Cardinality({i \in DOMAIN t : t[i] = "n"}),
                   parole |-> Cardinality({ij \in Intervalli(t, Bianchi) : ij[1] < ij[2]})]
    BY <2>3, <2>4, <2>5, <2>6
  <2>8. ContoDovuto(nome, e, aperti)
    BY <2>3, <2>7 DEF ContoDovuto, t
  <2> QED
    BY <2>8 DEF e
<1> QED
  BY <1>1, <1>2

\* What dir_scan leaves open, and what it answers.
LEMMA NomiGiusti ==
  ASSUME NEW nome, NEW soglia, aperti \in Nat, NEW ris,
         ris = LET d == dir_scan(nome, soglia) IN IF d.errore = -1 THEN Errore ELSE [errore |-> 0, nomi |-> d.nomi]
  PROVE  LET fd == dir_scan(nome, soglia).fd
         IN  fd \in Nat /\ aperti <= fd /\ NomiDovuti(nome, soglia, ris, fd)
<1> DEFINE s == dir_scan(nome, soglia)
           d == DirConta[nome]
<1>1. MaxFd \in Nat
  BY ServiziRpcAssumption
<1>2. ris = IF s.errore = -1 THEN Errore ELSE [errore |-> 0, nomi |-> s.nomi]
  OBVIOUS
<1>3. nome \in DOMAIN DirConta => Lista(d) /\ Len(d) \in Nat
  BY ServiziRpcAssumption, ListaTipo
<1>4. CASE nome \notin DOMAIN DirConta \/ aperti >= MaxFd
  <2>1. s = [errore |-> -1, fd |-> aperti, nomi |-> <<>>]
    BY <1>4 DEF dir_scan
  <2>2. s.errore = -1 /\ s.fd = aperti
    BY <2>1
  <2> HIDE DEF s
  <2>3. ris.errore = -1
    BY <1>2, <2>2 DEF Errore
  <2>4. nome \in DOMAIN DirConta => s.fd + Len(d) >= MaxFd
    BY <1>1, <1>3, <1>4, <2>2
  <2>5. NomiDovuti(nome, soglia, ris, s.fd)
    BY <2>3, <2>4 DEF NomiDovuti
  <2> QED
    BY <2>2, <2>5 DEF s
<1>5. CASE ~(nome \notin DOMAIN DirConta \/ aperti >= MaxFd)
  <2>1. s = Scansione(d, soglia, aperti)
    BY <1>5 DEF dir_scan, Scansione
  <2> HIDE DEF s, d
  <2>2. VociGiuste(d, soglia, Len(d), aperti, Scansione(d, soglia, aperti))
    BY <1>3, <1>5, VociLette
  <2>3. VociGiuste(d, soglia, Len(d), aperti, s)
    BY <2>1, <2>2
  <2>4. /\ s.errore \in {0, -1} /\ s.fd \in Nat /\ s.fd >= aperti
        /\ s.errore = -1 => s.fd >= MaxFd \/ Illeggibile(d)
    BY <2>3 DEF VociGiuste
  <2>5. CASE s.errore = -1
    <3>1. ris.errore = -1
      BY <1>2, <2>5 DEF Errore
    <3>2. nome \in DOMAIN DirConta => s.fd + Len(d) >= MaxFd \/ Illeggibile(d)
      BY <1>1, <1>3, <2>4, <2>5
    <3>3. NomiDovuti(nome, soglia, ris, s.fd)
      BY <3>1, <3>2 DEF NomiDovuti, d
    <3> QED
      BY <2>4, <3>3 DEF s
  <2>6. CASE s.errore = 0
    <3>1. ris.errore # -1 /\ ris.nomi = s.nomi
      BY <1>2, <2>6
    <3> DEFINE fd == s.fd
    <3> HIDE DEF fd
    <3>2. NomiDovuti(nome, soglia, ris, fd)
      BY <1>3, <1>5, <2>3, <2>6, <3>1, VociDovute DEF d
    <3> QED
      BY <2>4, <3>2 DEF s, fd
  <2> QED
    BY <2>4, <2>5, <2>6
<1> QED
  BY <1>4, <1>5

\* A request is answered as it should be.
LEMMA EseguitaGiusta ==
  ASSUME NEW a \in Chieste, aperti \in Nat, NEW fd,
         fd = IF a.proc = "DIR_SCAN" THEN dir_scan(a.nome, a.soglia).fd ELSE aperti,
         NEW ris, ris = Esegue(a)
  PROVE  RispostaDovuta(a, ris, fd) /\ fd \in Nat /\ aperti <= fd
<1>1. /\ a.proc \in {"FILE_SCAN", "DIR_SCAN", "SOMMA", "MOLTIPLICAZIONE", "ECHO"}
      /\ a.proc \in {"SOMMA", "MOLTIPLICAZIONE"} => a.op1 \in Int /\ a.op2 \in Int
  BY ServiziRpcAssumption DEF Chieste
<1>2. CASE a.proc = "FILE_SCAN"
  <2>1. ris = file_scan(a.nome) /\ fd = aperti
    BY <1>2 DEF Esegue
  <2>2. ContoDovuto(a.nome, ris, fd)
    BY <2>1, ContoGiusto
  <2> QED
    BY <1>2, <2>1, <2>2 DEF RispostaDovuta
<1>3. CASE a.proc = "DIR_SCAN"
  <2> DEFINE nome == a.nome
             soglia == a.soglia
             s == dir_scan(nome, soglia)
  <2>1. fd = s.fd /\ ris = IF s.errore = -1 THEN Errore ELSE [errore |-> 0, nomi |-> s.nomi]
    BY <1>3 DEF Esegue
  <2>2. ris = LET d == dir_scan(nome, soglia) IN IF d.errore = -1 THEN Errore ELSE [errore |-> 0, nomi |-> d.nomi]
    BY <2>1
  <2> HIDE DEF nome, soglia
  <2>3. LET gd == dir_scan(nome, soglia).fd
        IN  gd \in Nat /\ aperti <= gd /\ NomiDovuti(nome, soglia, ris, gd)
    BY <2>2, NomiGiusti
  <2>4. fd \in Nat /\ aperti <= fd /\ NomiDovuti(nome, soglia, ris, fd)
    BY <2>1, <2>3
  <2> QED
    BY <1>3, <2>4 DEF RispostaDovuta, nome, soglia
<1>4. CASE a.proc = "SOMMA"
  <2>1. a.op1 + a.op2 \in Int /\ fd = aperti
    BY <1>1, <1>4
  <2>2. ris = [errore |-> 0, ris |-> int(a.op1 + a.op2)]
    BY <1>4 DEF Esegue, somma
  <2>3. ris.ris = int(a.op1 + a.op2)
    BY <2>2
  <2>4. IntDovuto(a.op1 + a.op2, ris.ris)
    BY <2>1, <2>3, IntGiusto
  <2> QED
    BY <1>4, <2>1, <2>4 DEF RispostaDovuta
<1>5. CASE a.proc = "MOLTIPLICAZIONE"
  <2>1. a.op1 * a.op2 \in Int /\ fd = aperti
    BY <1>1, <1>5
  <2>2. ris = [errore |-> 0, ris |-> int(a.op1 * a.op2)]
    BY <1>5 DEF Esegue, moltiplicazione
  <2>3. ris.ris = int(a.op1 * a.op2)
    BY <2>2
  <2>4. IntDovuto(a.op1 * a.op2, ris.ris)
    BY <2>1, <2>3, IntGiusto
  <2> QED
    BY <1>5, <2>1, <2>4 DEF RispostaDovuta
<1>6. CASE a.proc = "ECHO"
  <2>1. ris = [errore |-> 0, msg |-> echo(a.msg)] /\ fd = aperti
    BY <1>6 DEF Esegue
  <2>2. ris.msg = a.msg
    BY <2>1 DEF echo
  <2> QED
    BY <1>6, <2>1, <2>2 DEF RispostaDovuta
<1> QED
  BY <1>1, <1>2, <1>3, <1>4, <1>5, <1>6

\* A client's step: no new answers, and no call but with a new xid.
LEMMA PassoClienteRpc ==
  ASSUME RpcInv, NEW c \in Client,
         xid' \in [Client -> Nat], DOMAIN fase' = Client, DOMAIN arg' = Client, DOMAIN copie' = Client,
         \A k \in Client \ {c} : xid'[k] = xid[k] /\ fase'[k] = fase[k] /\ arg'[k] = arg[k],
         \/ xid'[c] = xid[c] /\ arg'[c] = arg[c] /\ (fase'[c] = "attesa" => fase[c] = "attesa")
         \/ xid'[c] = xid[c] + 1 /\ arg'[c] \in Chieste,
         \A m \in richieste' \ richieste :
            fase'[c] = "attesa" /\ m.client = c /\ m.xid = xid'[c] /\ m.arg = arg'[c],
         risposte' \subseteq risposte, stampate' = stampate, UNCHANGED <<servizioRpc, aperti>>
  PROVE  RpcInv'
<1>1. ASSUME NEW m, Domanda(m) PROVE Domanda(m)'
  BY <1>1 DEF Domanda, RpcInv
<1>2. \A k \in Client : fase'[k] = "attesa" => arg'[k] \in Chieste'
  BY DEF RpcInv, Chieste
<1>3. ASSUME NEW m \in richieste' PROVE Domanda(m)' /\ m.arg \in Chieste'
  <2>1. CASE m \in richieste
    BY <1>1, <2>1 DEF RpcInv, Chieste
  <2>2. CASE m \notin richieste
    <3>1. fase'[c] = "attesa" /\ m.client = c /\ m.xid = xid'[c] /\ m.arg = arg'[c]
      BY <2>2
    <3>2. xid'[c] \in Nat
      OBVIOUS
    <3> QED
      BY <1>2, <3>1, <3>2 DEF Domanda
  <2> QED
    BY <2>1, <2>2
<1>4. \A a, ris : RispostaDovuta(a, ris, aperti) => RispostaDovuta(a, ris, aperti')
  OBVIOUS
<1>5. \A r \in risposte' : Domanda(r.req)' /\ r.req.arg \in Chieste' /\ RispostaDovuta(r.req.arg, r.ris, aperti)'
  BY <1>1, <1>4 DEF RpcInv, Chieste
<1>6. \A s \in stampate' : s.arg \in Chieste' /\ RispostaDovuta(s.arg, s.ris, aperti)'
  BY <1>4 DEF RpcInv, Chieste
<1> QED
  BY <1>2, <1>3, <1>5, <1>6 DEF RpcInv

LEMMA RpcPasso == RpcInv /\ [RpcServiziNext]_serviziRpcVars => RpcInv'
<1> SUFFICES ASSUME RpcInv, [RpcServiziNext]_serviziRpcVars PROVE RpcInv'
  OBVIOUS
<1>1. CASE UNCHANGED <<rpcVars, aperti, stampate>> /\ servizioRpc' \in DOMAIN Chiamate \cup {servizioRpc}
  <2>1. aperti' = aperti
    BY <1>1
  <2>2. \A m : Domanda(m)' <=> Domanda(m)
    BY <1>1 DEF Domanda, rpcVars
  <2> QED
    BY <1>1, <2>1, <2>2 DEF RpcInv, rpcVars, Chieste
<1>2. ASSUME NEW m \in richieste, svc_run(m) PROVE RpcInv'
  <2>1. /\ UNCHANGED <<fase, xid, copie, arg, servizioRpc, stampate>>
        /\ richieste' = richieste \ {m} /\ risposte' = risposte \cup {[req |-> m, ris |-> Esegue(m.arg)]}
        /\ aperti' = IF m.arg.proc = "DIR_SCAN" THEN dir_scan(m.arg.nome, m.arg.soglia).fd ELSE aperti
    BY <1>2 DEF svc_run, svc_sendreply
  <2>2. aperti \in Nat /\ Domanda(m) /\ m.arg \in Chieste
    BY DEF RpcInv
  <2> DEFINE a0 == m.arg
             e == Esegue(a0)
             gd == aperti'
  <2>3. RispostaDovuta(a0, e, gd) /\ gd \in Nat /\ aperti <= gd
    <3>1. a0 \in Chieste /\ gd = IF a0.proc = "DIR_SCAN" THEN dir_scan(a0.nome, a0.soglia).fd ELSE aperti
      BY <2>1, <2>2
    <3> HIDE DEF a0, gd
    <3> QED
      BY <2>2, <3>1, EseguitaGiusta
  <2>4. \A d : Domanda(d)' <=> Domanda(d)
    BY <2>1 DEF Domanda
  <2>5. \A a \in Chieste : \A ris : RispostaDovuta(a, ris, aperti) => RispostaDovuta(a, ris, gd)
    <3> HIDE DEF gd
    <3> QED
      BY <2>2, <2>3, DovutaResta
  <2>6. ASSUME NEW r \in risposte'
        PROVE  Domanda(r.req)' /\ r.req.arg \in Chieste' /\ RispostaDovuta(r.req.arg, r.ris, aperti)'
    <3>1. CASE r \in risposte
      BY <2>4, <2>5, <3>1 DEF RpcInv, Chieste
    <3>2. CASE r = [req |-> m, ris |-> e]
      <4>1. r.req = m /\ r.ris = e
        BY <3>2
      <4> HIDE DEF e
      <4> QED
        BY <2>2, <2>3, <2>4, <4>1 DEF Chieste
    <3> QED
      BY <2>1, <3>1, <3>2
  <2>7. \A s \in stampate' : s.arg \in Chieste' /\ RispostaDovuta(s.arg, s.ris, aperti)'
    BY <2>1, <2>5 DEF RpcInv, Chieste
  <2> QED
    BY <2>1, <2>3, <2>4, <2>6, <2>7 DEF RpcInv, Chieste
<1>3. ASSUME NEW c \in Client, chiama(c) PROVE RpcInv'
  <2>1. PICK a \in Chiamate[servizioRpc] : clnt_call(c, a)
    BY <1>3 DEF chiama
  <2>2. servizioRpc \in DOMAIN Chiamate
    BY <1>3 DEF RpcInv, chiama
  <2>3. a \in Chieste
    BY <2>2 DEF Chieste
  <2>4. /\ fase' = [fase EXCEPT ![c] = "attesa"] /\ xid' = [xid EXCEPT ![c] = @ + 1]
        /\ copie' = [copie EXCEPT ![c] = 1] /\ arg' = [arg EXCEPT ![c] = a]
        /\ richieste' = richieste \cup {Richiesta(c, xid[c] + 1, 1, a)} /\ risposte' = risposte
        /\ UNCHANGED <<servizioRpc, aperti, stampate>>
    BY <1>3, <2>1 DEF chiama, clnt_call
  <2>5. /\ xid' \in [Client -> Nat] /\ DOMAIN fase' = Client /\ DOMAIN arg' = Client /\ DOMAIN copie' = Client
        /\ fase'[c] = "attesa" /\ xid'[c] = xid[c] + 1 /\ arg'[c] = a
        /\ \A k \in Client \ {c} : xid'[k] = xid[k] /\ fase'[k] = fase[k] /\ arg'[k] = arg[k]
    BY <2>4 DEF RpcInv
  <2>6. \A m \in richieste' \ richieste : m.client = c /\ m.xid = xid'[c] /\ m.arg = arg'[c]
    BY <2>4, <2>5 DEF Richiesta
  <2> QED
    BY <2>3, <2>4, <2>5, <2>6, PassoClienteRpc
<1>4. ASSUME NEW c \in Client, Ripete(c) PROVE RpcInv'
  <2>1. /\ fase[c] = "attesa" /\ copie' = [copie EXCEPT ![c] = @ + 1] /\ UNCHANGED <<fase, xid, arg, risposte>>
        /\ richieste' = richieste \cup {Richiesta(c, xid[c], copie[c] + 1, arg[c])}
        /\ UNCHANGED <<servizioRpc, aperti, stampate>>
    BY <1>4 DEF Ripete, Ritrasmetti
  <2>2. \A m \in richieste' \ richieste : fase'[c] = "attesa" /\ m.client = c /\ m.xid = xid'[c] /\ m.arg = arg'[c]
    BY <2>1 DEF Richiesta
  <2>3. /\ xid' \in [Client -> Nat] /\ DOMAIN fase' = Client /\ DOMAIN arg' = Client /\ DOMAIN copie' = Client
    BY <2>1 DEF RpcInv
  <2> QED
    BY <2>1, <2>2, <2>3, PassoClienteRpc
<1>5. ASSUME NEW c \in Client, stampa(c) PROVE RpcInv'
  <2>1. PICK r \in risposte : /\ Restituisci(c, r) /\ stampate' = stampate \cup {[arg |-> arg[c], ris |-> r.ris]}
                             /\ UNCHANGED <<servizioRpc, aperti>>
    BY <1>5 DEF stampa
  <2>2. /\ r.req.client = c /\ fase[c] = "attesa" /\ r.req.xid = xid[c]
        /\ fase' = [fase EXCEPT ![c] = "menu"] /\ risposte' = risposte \ {r}
        /\ UNCHANGED <<xid, copie, arg, richieste>>
    BY <2>1 DEF Restituisci
  <2>3. Domanda(r.req) /\ r.req.arg \in Chieste /\ RispostaDovuta(r.req.arg, r.ris, aperti)
    BY DEF RpcInv
  <2>4. r.req.arg = arg[c]
    BY <2>2, <2>3 DEF Domanda
  <2>5. aperti' = aperti
    BY <2>1
  <2>6. ASSUME NEW d, Domanda(d) PROVE Domanda(d)'
    BY <2>2, <2>6 DEF Domanda, RpcInv
  <2>7. \A s \in stampate' : s.arg \in Chieste' /\ RispostaDovuta(s.arg, s.ris, aperti)'
    BY <2>1, <2>3, <2>4, <2>5 DEF RpcInv, Chieste
  <2>8. \A d \in risposte' : Domanda(d.req)' /\ d.req.arg \in Chieste' /\ RispostaDovuta(d.req.arg, d.ris, aperti)'
    BY <2>2, <2>5, <2>6 DEF RpcInv, Chieste
  <2>9. \A m \in richieste' : Domanda(m)' /\ m.arg \in Chieste'
    BY <2>2, <2>6 DEF RpcInv, Chieste
  <2>10. \A k \in Client : fase'[k] = "attesa" => arg'[k] \in Chieste'
    BY <2>2 DEF RpcInv, Chieste
  <2> QED
    BY <2>1, <2>2, <2>7, <2>8, <2>9, <2>10 DEF RpcInv
<1>6. ASSUME NEW c \in Client, fallisce(c) \/ esce(c) PROVE RpcInv'
  <2>1. /\ \/ fase' = [fase EXCEPT ![c] = "menu"]
           \/ fase' = [fase EXCEPT ![c] = "fine"]
        /\ UNCHANGED <<xid, copie, arg, richieste, risposte, servizioRpc, aperti, stampate>>
    BY <1>6 DEF fallisce, esce, Scaduto, clnt_destroy
  <2>2. /\ xid' \in [Client -> Nat] /\ DOMAIN fase' = Client /\ DOMAIN arg' = Client /\ DOMAIN copie' = Client
        /\ fase'[c] # "attesa" /\ \A k \in Client \ {c} : fase'[k] = fase[k]
    BY <2>1 DEF RpcInv
  <2> QED
    BY <2>1, <2>2, PassoClienteRpc
<1> QED
  BY <1>1, <1>2, <1>3, <1>4, <1>5, <1>6 DEF RpcServiziNext, registra_servizio, serviziRpcVars

LEMMA RpcSolo == [Next]_interrogazioniVars => [RpcServiziNext]_serviziRpcVars
BY DEF Next, Sceglie, interrogazioniVars, serviziRpcVars

\* RispostaRpcGiusta: an answer shown is what the procedure asked for should
\* say, whatever copies of requests and answers the network still holds; and
\* "Non esiste" of what exists only when dir_scan has used up the descriptors.
THEOREM RispostaRpcGiustaSempre == Spec => []RispostaRpcGiusta
<1>1. RpcInv => RispostaRpcGiusta
  BY DEF RpcInv, RispostaRpcGiusta
<1>2. Init => RpcInv
  BY RpcInizio DEF Init
<1>3. RpcInv /\ [Next]_interrogazioniVars => RpcInv'
  BY RpcSolo, RpcPasso
<1> QED
  BY <1>1, <1>2, <1>3, PTL DEF Spec

-----------------------------------------------------------------------------
(* Lines and words of a text. *)

\* e lists the members of I by their first components.
InFila(e, I) ==
  /\ Lista(e) /\ {e[k] : k \in DOMAIN e} = I
  /\ \A k \in DOMAIN e : e[k][1] \in Int
  /\ \A k, j \in DOMAIN e : k < j => e[k][1] < e[j][1]

LEMMA FilaUnica ==
  ASSUME NEW I, NEW e, InFila(e, I)
  PROVE  InOrdine(I) = e
<1> DEFINE n == Len(e)
           Prima(x) == {y \in I : y[1] < x[1]}
<1>1. n \in Nat /\ DOMAIN e = 1 .. n /\ I = {e[k] : k \in 1 .. n}
  BY ListaTipo DEF InFila
<1>2. \A k, j \in 1 .. n : (k < j => e[k][1] < e[j][1]) /\ e[k][1] \in Int
  BY <1>1 DEF InFila
<1>3. \A k, j \in 1 .. n : e[j][1] < e[k][1] <=> j < k
  BY <1>1, <1>2
<1>4. \A k, j \in 1 .. n : e[k] = e[j] => k = j
  BY <1>1, <1>2
<1> HIDE DEF n
<1>5. ASSUME NEW m \in 0 .. n PROVE Cardinality({e[j] : j \in 1 .. m}) = m
  <2> DEFINE f == [j \in 1 .. m |-> e[j]]
             T == {e[j] : j \in 1 .. m}
  <2>1. m \in Nat /\ \A j \in 1 .. m : j \in 1 .. n
    BY <1>1
  <2>2. f \in [1 .. m -> T] /\ (\A x, y \in 1 .. m : f[x] = f[y] => x = y)
        /\ \A z \in T : \E j \in 1 .. m : f[j] = z
    BY <1>4, <2>1
  <2> HIDE DEF f, T
  <2>3. f \in Bijection(1 .. m, T)
    BY <2>2 DEF Bijection, Injection, Surjection, IsInjective
  <2>4. ExistsBijection(1 .. m, T)
    BY <2>3 DEF ExistsBijection
  <2>5. IsFiniteSet(1 .. m) /\ Cardinality(1 .. m) = m
    BY <2>1, FS_Interval
  <2>6. Cardinality(T) = m
    BY <2>4, <2>5, FS_Bijection
  <2> QED
    BY <2>6 DEF T
<1>6. Cardinality(I) = n
  <2>1. n \in 0 .. n
    BY <1>1
  <2> QED
    BY <1>1, <1>5, <2>1
<1>7. ASSUME NEW k \in 1 .. n PROVE Cardinality(Prima(e[k])) = k - 1
  <2>1. Prima(e[k]) = {e[j] : j \in 1 .. k - 1}
    <3>1. \A j \in 1 .. n : j < k <=> j \in 1 .. k - 1
      BY <1>1
    <3>2. \A j \in 1 .. k - 1 : j \in 1 .. n
      BY <1>1
    <3> QED
      BY <1>1, <1>3, <3>1, <3>2
  <2>2. k - 1 \in 0 .. n
    BY <1>1
  <2> HIDE DEF Prima
  <2> QED
    BY <1>5, <2>1, <2>2
<1>8. ASSUME NEW k \in 1 .. n
      PROVE  (CHOOSE x \in I : Cardinality(Prima(x)) = k - 1) = e[k]
  <2> HIDE DEF Prima
  <2>1. e[k] \in I /\ Cardinality(Prima(e[k])) = k - 1
    BY <1>1, <1>7
  <2>2. ASSUME NEW x \in I, Cardinality(Prima(x)) = k - 1 PROVE x = e[k]
    <3>1. PICK j \in 1 .. n : x = e[j]
      BY <1>1
    <3>2. j - 1 = k - 1
      BY <1>7, <2>2, <3>1
    <3>3. j = k
      BY <1>1, <3>2
    <3> QED
      BY <3>1, <3>3
  <2> QED
    BY <2>1, <2>2
<1>9. InOrdine(I) = [k \in 1 .. n |-> e[k]]
  BY <1>6, <1>8 DEF InOrdine
<1>10. e = [k \in 1 .. n |-> e[k]]
  <2>1. e \in [1 .. n -> {e[i] : i \in DOMAIN e}]
    BY LenProperties DEF InFila, Lista, n
  <2> QED
    BY <2>1
<1> QED
  BY <1>9, <1>10

\* A member after all others.
LEMMA FilaAppend ==
  ASSUME NEW I, NEW e, InFila(e, I), NEW x, x[1] \in Int, \A y \in I : y[1] < x[1]
  PROVE  InFila(Append(e, x), I \cup {x}) /\ Len(Append(e, x)) = Len(e) + 1
<1> DEFINE g == Append(e, x)
           n == Len(e)
<1>1. /\ n \in Nat /\ DOMAIN e = 1 .. n /\ I = {e[k] : k \in 1 .. n}
      /\ \A k \in 1 .. n : e[k][1] \in Int
      /\ \A k, j \in 1 .. n : k < j => e[k][1] < e[j][1]
  BY ListaTipo DEF InFila
<1>2. Lista(g) /\ Len(g) = n + 1 /\ g[n + 1] = x /\ \A i \in 1 .. n : g[i] = e[i]
  BY ListaAppend DEF InFila
<1>3. DOMAIN g = 1 .. (n + 1) /\ \A k \in 1 .. (n + 1) : k \in 1 .. n \/ k = n + 1
  BY <1>1, <1>2, ListaTipo
<1> HIDE DEF g, n
<1>4. {g[k] : k \in DOMAIN g} = I \cup {x}
  <2>1. n + 1 \in 1 .. (n + 1) /\ \A k \in 1 .. n : k \in 1 .. (n + 1)
    BY <1>1
  <2>2. \A y \in I : \E k \in DOMAIN g : y = g[k]
    BY <1>1, <1>2, <1>3, <2>1
  <2>3. \A k \in DOMAIN g : g[k] \in I \cup {x}
    BY <1>1, <1>2, <1>3
  <2> QED
    BY <1>2, <1>3, <2>1, <2>2, <2>3
<1>5. \A k \in DOMAIN g : g[k][1] \in Int
  BY <1>1, <1>2, <1>3
<1>6. ASSUME NEW k \in DOMAIN g, NEW j \in DOMAIN g, k < j PROVE g[k][1] < g[j][1]
  <2>1. k \in 1 .. n
    BY <1>1, <1>3, <1>6
  <2>2. CASE j \in 1 .. n
    BY <1>1, <1>2, <1>6, <2>1, <2>2
  <2>3. CASE j = n + 1
    BY <1>1, <1>2, <2>1, <2>3
  <2> QED
    BY <1>3, <2>2, <2>3
<1> QED
  BY <1>2, <1>4, <1>5, <1>6 DEF InFila, g, n

\* What the characters of S close in the first k of t, and where what follows begins.
Chiusi(t, S, k) == {ij \in Intervalli(t, S) : ij[2] <= k}
Inizio(t, S, k, i) ==
  /\ i \in 1 .. k + 1 /\ (i = 1 \/ t[i - 1] \in S)
  /\ \A j \in i .. k : t[j] \notin S

LEMMA ChiusiPasso ==
  ASSUME NEW t, Lista(t), NEW S, NEW k \in 1 .. Len(t), NEW i, Inizio(t, S, k - 1, i)
  PROVE  /\ t[k] \notin S => Chiusi(t, S, k) = Chiusi(t, S, k - 1) /\ Inizio(t, S, k, i)
         /\ t[k] \in S => Chiusi(t, S, k) = Chiusi(t, S, k - 1) \cup {<<i, k>>} /\ Inizio(t, S, k, k + 1)
         /\ \A x \in Chiusi(t, S, k - 1) : x[1] \in 1 .. i - 1 /\ x[2] \in x[1] .. i - 1 /\ x = <<x[1], x[2]>>
         /\ i \in 1 .. k
<1>1. Len(t) \in Nat /\ k \in Nat /\ k - 1 \in Nat /\ i \in 1 .. (k - 1) + 1
  BY ListaTipo DEF Inizio
<1>2. (i = 1 \/ t[i - 1] \in S) /\ \A j \in i .. k - 1 : t[j] \notin S
  BY DEF Inizio
<1>3. ASSUME NEW x \in Intervalli(t, S)
      PROVE  /\ x[1] \in 1 .. Len(t) /\ x[2] \in 1 .. Len(t) /\ x[1] <= x[2] /\ x = <<x[1], x[2]>>
             /\ t[x[2]] \in S /\ (x[1] = 1 \/ t[x[1] - 1] \in S)
             /\ \A j \in x[1] .. x[2] - 1 : t[j] \notin S
  BY <1>3 DEF Intervalli
<1>4. ASSUME NEW x \in Intervalli(t, S), x[2] <= k - 1
      PROVE  x[1] \in 1 .. i - 1 /\ x[2] \in x[1] .. i - 1
  <2>1. ~(x[2] \in i .. k - 1)
    BY <1>2, <1>3
  <2> QED
    BY <1>1, <1>3, <1>4, <2>1
<1>5. CASE t[k] \notin S
  <2>1. \A x \in Intervalli(t, S) : x[2] # k /\ (x[2] <= k <=> x[2] <= k - 1)
    BY <1>1, <1>3, <1>5
  <2>2. Chiusi(t, S, k) = Chiusi(t, S, k - 1)
    BY <2>1 DEF Chiusi
  <2>3. \A j \in i .. k : j \in i .. k - 1 \/ j = k
    BY <1>1
  <2>4. Inizio(t, S, k, i)
    BY <1>1, <1>2, <1>5, <2>3 DEF Inizio
  <2> QED
    BY <1>1, <1>3, <1>4, <1>5, <2>2, <2>4 DEF Chiusi
<1>6. CASE t[k] \in S
  <2>1. <<i, k>> \in Intervalli(t, S)
    BY <1>1, <1>2, <1>6 DEF Intervalli
  <2>2. ASSUME NEW x \in Intervalli(t, S), x[2] = k PROVE x = <<i, k>>
    <3>1. ~(x[1] < i)
      <4> SUFFICES ASSUME x[1] < i PROVE FALSE
        OBVIOUS
      <4>1. i - 1 \in x[1] .. x[2] - 1 /\ i # 1
        BY <1>1, <1>3, <2>2
      <4> QED
        BY <1>2, <1>3, <4>1
    <3>2. ~(x[1] > i)
      <4> SUFFICES ASSUME x[1] > i PROVE FALSE
        OBVIOUS
      <4>1. x[1] - 1 \in i .. k - 1 /\ x[1] # 1
        BY <1>1, <1>3, <2>2
      <4> QED
        BY <1>2, <1>3, <4>1
    <3>3. x[1] = i
      BY <1>1, <1>3, <3>1, <3>2
    <3> QED
      BY <1>3, <2>2, <3>3
  <2>3. \A x \in Intervalli(t, S) : x[2] <= k <=> x[2] <= k - 1 \/ x[2] = k
    BY <1>1, <1>3
  <2>4. <<i, k>>[2] = k
    OBVIOUS
  <2>5. Chiusi(t, S, k) = Chiusi(t, S, k - 1) \cup {<<i, k>>}
    BY <2>1, <2>2, <2>3, <2>4 DEF Chiusi
  <2>6. Inizio(t, S, k, k + 1)
    BY <1>1, <1>6 DEF Inizio
  <2> QED
    BY <1>1, <1>3, <1>4, <1>6, <2>5, <2>6 DEF Chiusi
<1> QED
  BY <1>5, <1>6

LEMMA ChiusiZero ==
  ASSUME NEW t, Lista(t), NEW S
  PROVE  Chiusi(t, S, 0) = {} /\ Inizio(t, S, 0, 1) /\ Chiusi(t, S, Len(t)) = Intervalli(t, S)
<1>1. Len(t) \in Nat /\ \A x \in Intervalli(t, S) : x[2] \in 1 .. Len(t)
  BY ListaTipo DEF Intervalli
<1> QED
  BY <1>1 DEF Chiusi, Inizio

\* The loop of readLine.
CicloRighe(p, A, base, n, t) ==
  /\ p \in [0 .. n -> A] /\ p[0] = base /\ p[n] = FoldLeft(LeggiCarattere, base, t)
  /\ \A k \in 1 .. n : p[k] = LeggiCarattere(p[k - 1], t[k])

LEMMA PassiRighe ==
  ASSUME NEW A, NEW base \in A, NEW n \in Nat, NEW t, DOMAIN t = 1 .. n,
         \A a \in A, k \in 1 .. n : LeggiCarattere(a, t[k]) \in A
  PROVE  \E p : CicloRighe(p, A, base, n, t)
<1> DEFINE g == [x \in A \X (1 .. n) |-> LeggiCarattere(x[1], t[x[2]])]
           D(f) == [s \in SUBSET (1 .. n) |->
                      IF s = {} THEN base ELSE LeggiCarattere(f[s \ {Max(s)}], t[Max(s)])]
           it == CHOOSE f : f = D(f)
<1>1. \A a \in A, k \in 1 .. n : g[<<a, k>>] = LeggiCarattere(a, t[k])
  OBVIOUS
<1>2. g \in [A \X (1 .. n) -> A]
  OBVIOUS
<1> HIDE DEF g
<1>3. \A s \in SUBSET (1 .. n) : s # {} =>
        Max(s) \in 1 .. n /\ s \ {Max(s)} \in SUBSET (1 .. n)
  BY MassimoDi
<1>4. PICK h \in [SUBSET (1 .. n) -> A] : Piega(h, A, base, n, g)
  BY <1>2, PiegaEsiste
<1>5. h = D(h)
  BY <1>1, <1>3, <1>4 DEF Piega
<1>6. it = D(it)
  <2> HIDE DEF D
  <2> QED
    BY <1>5
<1>7. FoldLeft(LeggiCarattere, base, t) = it[1 .. n]
  BY Zenon DEF FoldLeft, MapThenFoldSet
<1> HIDE DEF it
<1>8. Piega(it, A, base, n, g)
  BY <1>1, <1>3, <1>6 DEF Piega
<1> HIDE DEF D
<1>9. PICK p : Passi(p, it, A, base, n, g)
  BY <1>2, <1>8, PiegaPassi
<1>10. ASSUME NEW k \in 1 .. n PROVE p[k] = LeggiCarattere(p[k - 1], t[k])
  <2>1. k - 1 \in 0 .. n
    OBVIOUS
  <2>2. p[k] = g[<<p[k - 1], k>>] /\ p[k - 1] \in A
    BY <1>9, <2>1 DEF Passi
  <2> QED
    BY <1>1, <2>2
<1> QED
  BY <1>7, <1>9, <1>10 DEF Passi, CicloRighe

\* The loop of the longest word.
CicloMisura(p, A, base, n, t) ==
  /\ p \in [0 .. n -> A] /\ p[0] = base /\ p[n] = FoldLeft(MisuraParola, base, t)
  /\ \A k \in 1 .. n : p[k] = MisuraParola(p[k - 1], t[k])

LEMMA PassiMisura ==
  ASSUME NEW A, NEW base \in A, NEW n \in Nat, NEW t, DOMAIN t = 1 .. n,
         \A a \in A, k \in 1 .. n : MisuraParola(a, t[k]) \in A
  PROVE  \E p : CicloMisura(p, A, base, n, t)
<1> DEFINE g == [x \in A \X (1 .. n) |-> MisuraParola(x[1], t[x[2]])]
           D(f) == [s \in SUBSET (1 .. n) |->
                      IF s = {} THEN base ELSE MisuraParola(f[s \ {Max(s)}], t[Max(s)])]
           it == CHOOSE f : f = D(f)
<1>1. \A a \in A, k \in 1 .. n : g[<<a, k>>] = MisuraParola(a, t[k])
  OBVIOUS
<1>2. g \in [A \X (1 .. n) -> A]
  OBVIOUS
<1> HIDE DEF g
<1>3. \A s \in SUBSET (1 .. n) : s # {} =>
        Max(s) \in 1 .. n /\ s \ {Max(s)} \in SUBSET (1 .. n)
  BY MassimoDi
<1>4. PICK h \in [SUBSET (1 .. n) -> A] : Piega(h, A, base, n, g)
  BY <1>2, PiegaEsiste
<1>5. h = D(h)
  BY <1>1, <1>3, <1>4 DEF Piega
<1>6. it = D(it)
  <2> HIDE DEF D
  <2> QED
    BY <1>5
<1>7. FoldLeft(MisuraParola, base, t) = it[1 .. n]
  BY Zenon DEF FoldLeft, MapThenFoldSet
<1> HIDE DEF it
<1>8. Piega(it, A, base, n, g)
  BY <1>1, <1>3, <1>6 DEF Piega
<1> HIDE DEF D
<1>9. PICK p : Passi(p, it, A, base, n, g)
  BY <1>2, <1>8, PiegaPassi
<1>10. ASSUME NEW k \in 1 .. n PROVE p[k] = MisuraParola(p[k - 1], t[k])
  <2>1. k - 1 \in 0 .. n
    OBVIOUS
  <2>2. p[k] = g[<<p[k - 1], k>>] /\ p[k - 1] \in A
    BY <1>9, <2>1 DEF Passi
  <2> QED
    BY <1>1, <2>2
<1> QED
  BY <1>7, <1>9, <1>10 DEF Passi, CicloMisura

\* The loop that takes a word away.
CicloTogli(p, A, base, n, t, parola) ==
  /\ p \in [0 .. n -> A] /\ p[0] = base /\ p[n] = FoldLeft(LAMBDA a, ch : TogliCarattere(a, ch, parola), base, t)
  /\ \A k \in 1 .. n : p[k] = TogliCarattere(p[k - 1], t[k], parola)

LEMMA PassiTogli ==
  ASSUME NEW A, NEW base \in A, NEW n \in Nat, NEW t, DOMAIN t = 1 .. n, NEW parola,
         \A a \in A, k \in 1 .. n : TogliCarattere(a, t[k], parola) \in A
  PROVE  \E p : CicloTogli(p, A, base, n, t, parola)
<1> DEFINE g == [x \in A \X (1 .. n) |-> TogliCarattere(x[1], t[x[2]], parola)]
           D(f) == [s \in SUBSET (1 .. n) |->
                      IF s = {} THEN base ELSE TogliCarattere(f[s \ {Max(s)}], t[Max(s)], parola)]
           it == CHOOSE f : f = D(f)
<1>1. \A a \in A, k \in 1 .. n : g[<<a, k>>] = TogliCarattere(a, t[k], parola)
  OBVIOUS
<1>2. g \in [A \X (1 .. n) -> A]
  OBVIOUS
<1> HIDE DEF g
<1>3. \A s \in SUBSET (1 .. n) : s # {} =>
        Max(s) \in 1 .. n /\ s \ {Max(s)} \in SUBSET (1 .. n)
  BY MassimoDi
<1>4. PICK h \in [SUBSET (1 .. n) -> A] : Piega(h, A, base, n, g)
  BY <1>2, PiegaEsiste
<1>5. h = D(h)
  BY <1>1, <1>3, <1>4 DEF Piega
<1>6. it = D(it)
  <2> HIDE DEF D
  <2> QED
    BY <1>5
<1>7. FoldLeft(LAMBDA a, ch : TogliCarattere(a, ch, parola), base, t) = it[1 .. n]
  BY Zenon DEF FoldLeft, MapThenFoldSet
<1> HIDE DEF it
<1>8. Piega(it, A, base, n, g)
  BY <1>1, <1>3, <1>6 DEF Piega
<1> HIDE DEF D
<1>9. PICK p : Passi(p, it, A, base, n, g)
  BY <1>2, <1>8, PiegaPassi
<1>10. ASSUME NEW k \in 1 .. n PROVE p[k] = TogliCarattere(p[k - 1], t[k], parola)
  <2>1. k - 1 \in 0 .. n
    OBVIOUS
  <2>2. p[k] = g[<<p[k - 1], k>>] /\ p[k - 1] \in A
    BY <1>9, <2>1 DEF Passi
  <2> QED
    BY <1>1, <2>2
<1> QED
  BY <1>7, <1>9, <1>10 DEF Passi, CicloTogli

\* Equal lengths and equal elements.
LEMMA ListeUguali ==
  ASSUME NEW s, NEW t, Lista(s), Lista(t), Len(s) = Len(t),
         \A i \in 1 .. Len(s) : s[i] = t[i]
  PROVE  s = t
<1>1. s = [i \in DOMAIN s |-> s[i]] /\ t = [i \in DOMAIN t |-> t[i]]
  <2>1. s \in [1 .. Len(s) -> {s[i] : i \in DOMAIN s}] /\ t \in [1 .. Len(t) -> {t[i] : i \in DOMAIN t}]
    BY LenProperties DEF Lista
  <2> QED
    BY <2>1
<1>2. DOMAIN s = 1 .. Len(s) /\ DOMAIN t = 1 .. Len(s)
  BY ListaTipo
<1> QED
  BY <1>1, <1>2

\* A part of a text.
LEMMA Parte ==
  ASSUME NEW t, Lista(t), NEW i \in Int, NEW k \in Int, i >= 1, k <= Len(t), i <= k + 1
  PROVE  /\ Lista(SubSeq(t, i, k)) /\ Len(SubSeq(t, i, k)) = k - i + 1
         /\ \A j \in 1 .. k - i + 1 : SubSeq(t, i, k)[j] = t[i + j - 1]
<1> DEFINE S == {t[j] : j \in DOMAIN t}
<1>1. Len(t) \in Nat /\ DOMAIN t = 1 .. Len(t)
  BY ListaTipo
<1>2. \A j \in i .. k : t[j] \in S
  BY <1>1
<1> HIDE DEF S
<1>3. /\ SubSeq(t, i, k) \in Seq(S)
      /\ Len(SubSeq(t, i, k)) = IF i <= k THEN k - i + 1 ELSE 0
      /\ \A j \in 1 .. k - i + 1 : SubSeq(t, i, k)[j] = t[j + i - 1]
  BY <1>2, SubSeqProperties
<1>4. Lista(SubSeq(t, i, k))
  BY <1>3, ListaDi
<1>5. Len(SubSeq(t, i, k)) = k - i + 1
  BY <1>3
<1>6. ASSUME NEW j \in 1 .. k - i + 1 PROVE SubSeq(t, i, k)[j] = t[i + j - 1]
  <2>1. j + i - 1 = i + j - 1
    OBVIOUS
  <2> QED
    BY <1>3, <2>1
<1> QED
  BY <1>4, <1>5, <1>6

LEMMA ParteAvanti ==
  ASSUME NEW t, Lista(t), NEW k \in 1 .. Len(t), NEW i \in 1 .. k
  PROVE  SubSeq(t, i, k) = Append(SubSeq(t, i, k - 1), t[k])
<1> DEFINE a == SubSeq(t, i, k - 1)
           b == SubSeq(t, i, k)
           c == Append(a, t[k])
<1>1. Len(t) \in Nat /\ k \in Int /\ k - 1 \in Int /\ i \in Int
  BY ListaTipo
<1>2. Lista(a) /\ Len(a) = k - i /\ \A j \in 1 .. k - i : a[j] = t[i + j - 1]
  <2>1. /\ Lista(a) /\ Len(a) = (k - 1) - i + 1
        /\ \A j \in 1 .. (k - 1) - i + 1 : a[j] = t[i + j - 1]
    BY <1>1, Parte
  <2>2. (k - 1) - i + 1 = k - i
    BY <1>1
  <2> QED
    BY <2>1, <2>2
<1>3. Lista(b) /\ Len(b) = k - i + 1 /\ \A j \in 1 .. k - i + 1 : b[j] = t[i + j - 1]
  BY <1>1, Parte
<1> HIDE DEF a, b
<1>4. /\ Lista(c) /\ Len(c) = k - i + 1 /\ c[k - i + 1] = t[k]
      /\ \A j \in 1 .. k - i : c[j] = a[j]
  BY <1>2, ListaAppend
<1> HIDE DEF c
<1>5. ASSUME NEW j \in 1 .. Len(b) PROVE b[j] = c[j]
  <2>1. CASE j = k - i + 1
    BY <1>1, <1>3, <1>4, <2>1
  <2>2. CASE j # k - i + 1
    BY <1>1, <1>2, <1>3, <1>4, <2>2
  <2> QED
    BY <2>1, <2>2
<1>6. b = c
  BY <1>3, <1>4, <1>5, ListeUguali
<1> QED
  BY <1>6 DEF a, b, c

\* What readLine has read of the first k characters of t: the lines closed, and
\* the beginning of the next.
Fila(t, k, a, e) ==
  /\ InFila(e, Chiusi(t, {"n"}, k)) /\ Lista(a.linee) /\ Len(a.linee) = Len(e)
  /\ \A j \in 1 .. Len(e) : a.linee[j] = SubSeq(t, e[j][1], e[j][2] - 1)
Righe(t, k, a) ==
  \E e, i : Fila(t, k, a, e) /\ Inizio(t, {"n"}, k, i) /\ a.resto = SubSeq(t, i, k)

LEMMA RighePasso ==
  ASSUME NEW t, Lista(t), NEW k \in 1 .. Len(t), NEW a, Righe(t, k - 1, a)
  PROVE  Righe(t, k, LeggiCarattere(a, t[k]))
<1> DEFINE S == {"n"}
           b == LeggiCarattere(a, t[k])
<1> PICK e, i : Fila(t, k - 1, a, e) /\ Inizio(t, S, k - 1, i) /\ a.resto = SubSeq(t, i, k - 1)
  BY DEF Righe
<1>1. /\ t[k] \notin S => Chiusi(t, S, k) = Chiusi(t, S, k - 1) /\ Inizio(t, S, k, i)
      /\ t[k] \in S => Chiusi(t, S, k) = Chiusi(t, S, k - 1) \cup {<<i, k>>} /\ Inizio(t, S, k, k + 1)
      /\ \A x \in Chiusi(t, S, k - 1) : x[1] \in 1 .. i - 1 /\ x[2] \in x[1] .. i - 1 /\ x = <<x[1], x[2]>>
      /\ i \in 1 .. k
  BY ChiusiPasso
<1>2. /\ InFila(e, Chiusi(t, S, k - 1)) /\ Lista(a.linee) /\ Len(a.linee) = Len(e)
      /\ \A j \in 1 .. Len(e) : a.linee[j] = SubSeq(t, e[j][1], e[j][2] - 1)
      /\ Len(t) \in Nat /\ k \in Int
  BY ListaTipo DEF Fila
<1>3. CASE t[k] # "n"
  <2>1. b.linee = a.linee /\ b.resto = Append(a.resto, t[k])
    BY <1>3 DEF LeggiCarattere
  <2>2. b.resto = SubSeq(t, i, k)
    BY <1>1, <2>1, ParteAvanti
  <2> HIDE DEF b
  <2>3. Chiusi(t, S, k) = Chiusi(t, S, k - 1) /\ Inizio(t, S, k, i)
    BY <1>1, <1>3
  <2>4. Fila(t, k, b, e)
    BY <1>2, <2>1, <2>3 DEF Fila
  <2>5. Righe(t, k, b)
    BY <2>2, <2>3, <2>4 DEF Righe
  <2> QED
    BY <2>5 DEF b
<1>4. CASE t[k] = "n"
  <2> DEFINE x == <<i, k>>
             g == Append(e, x)
  <2>1. b.linee = Append(a.linee, SubSeq(t, i, k - 1)) /\ b.resto = <<>>
    BY <1>4 DEF LeggiCarattere
  <2> HIDE DEF b
  <2>2. Chiusi(t, S, k) = Chiusi(t, S, k - 1) \cup {x} /\ Inizio(t, S, k, k + 1)
    BY <1>1, <1>4
  <2>3. x[1] = i /\ x[2] = k /\ i \in Int /\ \A y \in Chiusi(t, S, k - 1) : y[1] < i
    BY <1>1, <1>2
  <2> HIDE DEF x
  <2>4. InFila(g, Chiusi(t, S, k)) /\ Len(g) = Len(e) + 1
    BY <1>2, <2>2, <2>3, FilaAppend
  <2>5. /\ Lista(e) /\ Len(e) \in Nat
        /\ g[Len(e) + 1] = x /\ \A j \in 1 .. Len(e) : g[j] = e[j]
    BY <1>2, ListaTipo, ListaAppend DEF InFila
  <2>6. /\ Lista(b.linee) /\ Len(b.linee) = Len(e) + 1
        /\ b.linee[Len(e) + 1] = SubSeq(t, i, k - 1)
        /\ \A j \in 1 .. Len(e) : b.linee[j] = a.linee[j]
    <3> DEFINE l == a.linee
               p == SubSeq(t, i, k - 1)
    <3>1. Lista(l) /\ Len(l) = Len(e) /\ b.linee = Append(l, p)
      BY <1>2, <2>1
    <3> HIDE DEF l, p
    <3>2. /\ Lista(Append(l, p)) /\ Len(Append(l, p)) = Len(l) + 1
          /\ Append(l, p)[Len(l) + 1] = p
          /\ \A j \in 1 .. Len(l) : Append(l, p)[j] = l[j]
      BY <3>1, ListaAppend
    <3>3. /\ Lista(b.linee) /\ Len(b.linee) = Len(e) + 1 /\ b.linee[Len(e) + 1] = p
          /\ \A j \in 1 .. Len(e) : b.linee[j] = l[j]
      BY <3>1, <3>2
    <3> QED
      BY <3>3 DEF l, p
  <2> HIDE DEF g
  <2>7. ASSUME NEW j \in 1 .. Len(g) PROVE b.linee[j] = SubSeq(t, g[j][1], g[j][2] - 1)
    <3>1. CASE j = Len(e) + 1
      BY <2>3, <2>5, <2>6, <3>1
    <3>2. CASE j \in 1 .. Len(e)
      BY <1>2, <2>5, <2>6, <3>2
    <3> QED
      BY <2>4, <2>5, <3>1, <3>2
  <2>8. Fila(t, k, b, g)
    BY <2>4, <2>6, <2>7 DEF Fila
  <2>9. b.resto = SubSeq(t, k + 1, k)
    BY <1>2, <2>1, SubSeqEmpty
  <2>10. Righe(t, k, b)
    BY <2>2, <2>8, <2>9 DEF Righe
  <2> QED
    BY <2>10 DEF b
<1> QED
  BY <1>3, <1>4

\* t is testo, maybe with more characters.
LEMMA RigheTutte ==
  ASSUME NEW testo, Lista(testo), NEW t, Lista(t), Len(testo) <= Len(t),
         \A k \in 1 .. Len(testo) : t[k] = testo[k]
  PROVE  Righe(t, Len(testo), FoldLeft(LeggiCarattere, [linee |-> <<>>, resto |-> <<>>], testo))
<1> DEFINE n == Len(testo)
           C == {testo[i] : i \in DOMAIN testo}
           A == [linee : Seq(Seq(C)), resto : Seq(C)]
           base == [linee |-> <<>>, resto |-> <<>>]
<1>1. n \in Nat /\ DOMAIN testo = 1 .. n /\ Len(t) \in Nat
  BY ListaTipo
<1>2. base \in A
  <2>1. <<>> \in Seq(C) /\ <<>> \in Seq(Seq(C))
    BY EmptySeq
  <2> QED
    BY <2>1
<1>3. ASSUME NEW a \in A, NEW k \in 1 .. n PROVE LeggiCarattere(a, testo[k]) \in A
  <2>1. a.linee \in Seq(Seq(C)) /\ a.resto \in Seq(C) /\ testo[k] \in C /\ <<>> \in Seq(C)
    BY <1>1, EmptySeq
  <2> HIDE DEF C, A
  <2>2. Append(a.linee, a.resto) \in Seq(Seq(C)) /\ Append(a.resto, testo[k]) \in Seq(C)
    BY <2>1, AppendProperties
  <2> QED
    BY <2>1, <2>2 DEF LeggiCarattere, A
<1>4. base.linee = <<>> /\ base.resto = <<>>
  OBVIOUS
<1> HIDE DEF A, base
<1>5. PICK p : CicloRighe(p, A, base, n, testo)
  BY <1>1, <1>2, <1>3, PassiRighe
<1> DEFINE G == {k \in 0 .. n : Righe(t, k, p[k])}
<1>6. p[0] = base /\ p[n] = FoldLeft(LeggiCarattere, base, testo)
  BY <1>5 DEF CicloRighe
<1>7. 0 \in G
  <2>1. Chiusi(t, {"n"}, 0) = {} /\ Inizio(t, {"n"}, 0, 1)
    BY ChiusiZero
  <2>2. InFila(<<>>, {}) /\ Len(<<>>) = 0
    <3>1. Lista(<<>>) /\ DOMAIN <<>> = {} /\ Len(<<>>) = 0
      BY ListaVuota, ListaTipo
    <3> QED
      BY <3>1 DEF InFila
  <2>3. Fila(t, 0, base, <<>>)
    BY <1>4, <2>1, <2>2, ListaVuota DEF Fila
  <2>4. base.resto = SubSeq(t, 1, 0)
    BY <1>4, SubSeqEmpty
  <2>5. Righe(t, 0, base)
    BY <2>1, <2>3, <2>4 DEF Righe
  <2> QED
    BY <1>1, <1>6, <2>5
<1>8. ASSUME NEW k \in 1 .. n, k - 1 \in G PROVE k \in G
  <2>1. Righe(t, k - 1, p[k - 1]) /\ k \in 1 .. Len(t) /\ k \in 0 .. n
    BY <1>1, <1>8
  <2>2. p[k] = LeggiCarattere(p[k - 1], t[k])
    BY <1>5 DEF CicloRighe
  <2>3. Righe(t, k, p[k])
    BY <2>1, <2>2, RighePasso
  <2> QED
    BY <2>1, <2>3
<1>9. n \in G
  <2> HIDE DEF G, n
  <2>1. \A k \in 0 .. n : k \in G
    BY <1>1, <1>7, <1>8, Induzione
  <2> QED
    BY <1>1, <2>1
<1> QED
  BY <1>6, <1>9 DEF base

\* The reference, by the places of the ends of lines.
LEMMA RigaUnica ==
  ASSUME NEW t, Lista(t), NEW a, Righe(t, Len(t), a), NEW n \in Int
  PROVE  LET I == InOrdine(Intervalli(t, {"n"}))
         IN  /\ DOMAIN I = 1 .. Len(a.linee) /\ DOMAIN a.linee = 1 .. Len(a.linee) /\ Len(a.linee) \in Nat
             /\ n \in DOMAIN I => SubSeq(t, I[n][1], I[n][2] - 1) = a.linee[n]
<1> PICK e, i : Fila(t, Len(t), a, e) /\ Inizio(t, {"n"}, Len(t), i)
  BY DEF Righe
<1>1. InFila(e, Intervalli(t, {"n"}))
  BY ChiusiZero DEF Fila
<1>2. InOrdine(Intervalli(t, {"n"})) = e
  BY <1>1, FilaUnica
<1>3. DOMAIN e = 1 .. Len(e) /\ Len(e) = Len(a.linee) /\ DOMAIN a.linee = 1 .. Len(a.linee)
      /\ Len(a.linee) \in Nat
  BY <1>1, ListaTipo DEF InFila, Fila
<1> QED
  BY <1>2, <1>3 DEF Fila

\* LineServer's line is the line.
LEMMA LineaGiusta ==
  ASSUME NEW testo, Lista(testo), NEW n \in Int
  PROVE  getLine(testo, n) = Linea(testo, n)
<1> DEFINE m == Len(testo)
           f == FoldLeft(LeggiCarattere, [linee |-> <<>>, resto |-> <<>>], testo)
           t == IF testo # <<>> /\ Last(testo) # "n" THEN Append(testo, "n") ELSE testo
           I == InOrdine(Intervalli(t, {"n"}))
           L == LeggiLinee(testo)
<1>1. m \in Nat /\ DOMAIN testo = 1 .. m /\ (testo = <<>> <=> m = 0)
  <2>1. testo = <<>> <=> Len(testo) = 0
    BY EmptySeq DEF Lista
  <2> QED
    BY <2>1, ListaTipo
<1>2. getLine(testo, n) = IF n <= 0 \/ n > Len(L) THEN NonTrovata ELSE L[n]
  BY DEF getLine
<1>3. Linea(testo, n) = IF n \in DOMAIN I THEN SubSeq(t, I[n][1], I[n][2] - 1) ELSE NonTrovata
  BY DEF Linea
<1>4. L = IF f.resto = <<>> THEN f.linee ELSE Append(f.linee, f.resto)
  BY DEF LeggiLinee
<1>5. \E a : Lista(t) /\ Righe(t, Len(t), a) /\ L = a.linee
  <2>1. CASE ~(testo # <<>> /\ Last(testo) # "n")
    <3>1. t = testo
      BY <2>1
    <3>2. Righe(testo, m, f)
      BY <1>1, RigheTutte
    <3> HIDE DEF f
    <3>3. PICK i : Inizio(testo, {"n"}, m, i) /\ f.resto = SubSeq(testo, i, m)
      BY <3>2 DEF Righe
    <3>4. i = m + 1
      <4>1. m # 0 => testo[m] = "n"
        BY <1>1, <2>1 DEF Last
      <4> QED
        BY <1>1, <3>3, <4>1 DEF Inizio
    <3>5. f.resto = <<>>
      BY <1>1, <3>3, <3>4, SubSeqEmpty
    <3> QED
      BY <1>4, <3>1, <3>2, <3>5
  <2>2. CASE testo # <<>> /\ Last(testo) # "n"
    <3>1. t = Append(testo, "n")
      BY <2>2
    <3>2. /\ Lista(t) /\ Len(t) = m + 1 /\ t[m + 1] = "n"
          /\ \A k \in 1 .. m : t[k] = testo[k]
      BY <3>1, ListaAppend
    <3>3. Righe(t, m, f)
      <4> HIDE DEF t
      <4>1. Len(testo) <= Len(t)
        BY <1>1, <3>2
      <4> QED
        BY <1>1, <3>2, <4>1, RigheTutte
    <3> HIDE DEF t, f
    <3>4. PICK i : Inizio(t, {"n"}, m, i) /\ f.resto = SubSeq(t, i, m)
      BY <3>3 DEF Righe
    <3>5. t[m] # "n" /\ m \in 1 .. m
      BY <1>1, <2>2, <3>2 DEF Last
    <3>6. i \in 1 .. m
      BY <1>1, <3>4, <3>5 DEF Inizio
    <3>7. Len(f.resto) = m - i + 1
      BY <1>1, <3>2, <3>4, <3>6, Parte
    <3>8. f.resto # <<>>
      BY <1>1, <3>6, <3>7, ListaVuota
    <3>9. (m + 1) - 1 = m /\ m + 1 \in 1 .. Len(t)
      BY <1>1, <3>2
    <3>10. Righe(t, m + 1, LeggiCarattere(f, t[m + 1]))
      BY <3>2, <3>3, <3>9, RighePasso
    <3>11. LeggiCarattere(f, t[m + 1]).linee = Append(f.linee, f.resto)
      BY <3>2 DEF LeggiCarattere
    <3> QED
      BY <1>4, <3>2, <3>8, <3>10, <3>11
  <2> QED
    BY <2>1, <2>2
<1> HIDE DEF t, f
<1>6. PICK a : Lista(t) /\ Righe(t, Len(t), a) /\ L = a.linee
  BY <1>5
<1>7. /\ DOMAIN I = 1 .. Len(L) /\ DOMAIN L = 1 .. Len(L) /\ Len(L) \in Nat
      /\ n \in DOMAIN I => SubSeq(t, I[n][1], I[n][2] - 1) = L[n]
  BY <1>6, RigaUnica
<1> HIDE DEF I, L
<1>8. CASE n \in 1 .. Len(L)
  <2>1. n \in DOMAIN I /\ ~(n <= 0 \/ n > Len(L))
    BY <1>7, <1>8
  <2> QED
    BY <1>2, <1>3, <1>7, <2>1
<1>9. CASE n \notin 1 .. Len(L)
  <2>1. n \notin DOMAIN I /\ (n <= 0 \/ n > Len(L))
    BY <1>7, <1>9
  <2> QED
    BY <1>2, <1>3, <2>1
<1> QED
  BY <1>8, <1>9

-----------------------------------------------------------------------------
(* The longest word. *)

\* The words over, of the first k characters of t.
Misure(t, S, k) == {x[2] - x[1] : x \in Chiusi(t, S, k)}

\* What longest-word-server has measured so far.
Misurata(t, k, a) ==
  /\ \E i : Inizio(t, Separatori, k, i) /\ a.corrente = k - i + 1
  /\ a.massimo \in Int /\ a.massimo >= -1
  /\ \A m \in Misure(t, Separatori, k) : m <= a.massimo
  /\ a.massimo \in Misure(t, Separatori, k) \/ (a.massimo = -1 /\ Chiusi(t, Separatori, k) = {})

LEMMA MisuraPasso ==
  ASSUME NEW t, Lista(t), NEW k \in 1 .. Len(t), NEW a, Misurata(t, k - 1, a)
  PROVE  Misurata(t, k, MisuraParola(a, t[k]))
<1> DEFINE S == Separatori
           b == MisuraParola(a, t[k])
<1> PICK i : Inizio(t, S, k - 1, i) /\ a.corrente = (k - 1) - i + 1
  BY DEF Misurata
<1>1. /\ t[k] \notin S => Chiusi(t, S, k) = Chiusi(t, S, k - 1) /\ Inizio(t, S, k, i)
      /\ t[k] \in S => Chiusi(t, S, k) = Chiusi(t, S, k - 1) \cup {<<i, k>>} /\ Inizio(t, S, k, k + 1)
      /\ \A x \in Chiusi(t, S, k - 1) : x[1] \in 1 .. i - 1 /\ x[2] \in x[1] .. i - 1 /\ x = <<x[1], x[2]>>
      /\ i \in 1 .. k
  BY ChiusiPasso
<1>2. Len(t) \in Nat /\ k \in Int /\ i \in Int /\ a.corrente = k - i /\ k - i >= 0
  BY <1>1, ListaTipo
<1>3. /\ a.massimo \in Int /\ a.massimo >= -1
      /\ \A m \in Misure(t, S, k - 1) : m <= a.massimo
      /\ a.massimo \in Misure(t, S, k - 1) \/ (a.massimo = -1 /\ Chiusi(t, S, k - 1) = {})
  BY DEF Misurata
<1>4. CASE t[k] \notin S
  <2>1. b.massimo = a.massimo /\ b.corrente = k - i + 1
    BY <1>2, <1>4 DEF MisuraParola
  <2>2. Chiusi(t, S, k) = Chiusi(t, S, k - 1) /\ Inizio(t, S, k, i)
    BY <1>1, <1>4
  <2>3. Misure(t, S, k) = Misure(t, S, k - 1)
    BY <2>2 DEF Misure
  <2> HIDE DEF b
  <2>4. Misurata(t, k, b)
    BY <1>3, <2>1, <2>2, <2>3 DEF Misurata
  <2> QED
    BY <2>4 DEF b
<1>5. CASE t[k] \in S
  <2>1. b.massimo = (IF k - i > a.massimo THEN k - i ELSE a.massimo) /\ b.corrente = 0
    BY <1>2, <1>5 DEF MisuraParola
  <2> HIDE DEF b
  <2>2. Chiusi(t, S, k) = Chiusi(t, S, k - 1) \cup {<<i, k>>} /\ Inizio(t, S, k, k + 1)
    BY <1>1, <1>5
  <2>3. Misure(t, S, k) = Misure(t, S, k - 1) \cup {k - i}
    <3>1. <<i, k>>[1] = i /\ <<i, k>>[2] = k
      OBVIOUS
    <3> QED
      BY <2>2, <3>1 DEF Misure
  <2>4. b.massimo \in Int /\ b.massimo >= -1
    BY <1>2, <1>3, <2>1
  <2>5. ASSUME NEW m \in Misure(t, S, k) PROVE m <= b.massimo
    <3>1. CASE m = k - i
      BY <1>2, <1>3, <2>1, <3>1
    <3>2. CASE m \in Misure(t, S, k - 1)
      <4>1. m <= a.massimo /\ m \in Int
        <5>1. \A x \in Chiusi(t, S, k - 1) : x[2] - x[1] \in Int
          BY <1>1, <1>2
        <5> QED
          BY <1>3, <3>2, <5>1 DEF Misure
      <4> QED
        BY <1>2, <1>3, <2>1, <4>1
    <3> QED
      BY <2>3, <3>1, <3>2
  <2>6. b.massimo \in Misure(t, S, k)
    <3>1. CASE k - i > a.massimo
      BY <2>1, <2>3, <3>1
    <3>2. CASE ~(k - i > a.massimo)
      BY <1>2, <1>3, <2>1, <2>3, <3>2
    <3> QED
      BY <3>1, <3>2
  <2>7. b.corrente = k - (k + 1) + 1
    BY <1>2, <2>1
  <2>8. Misurata(t, k, b)
    BY <2>2, <2>4, <2>5, <2>6, <2>7 DEF Misurata
  <2> QED
    BY <2>8 DEF b
<1> QED
  BY <1>4, <1>5

LEMMA MisuraTutta ==
  ASSUME NEW t, Lista(t)
  PROVE  Misurata(t, Len(t), FoldLeft(MisuraParola, [massimo |-> -1, corrente |-> 0], t))
<1> DEFINE n == Len(t)
           A == [massimo : Int, corrente : Int]
           base == [massimo |-> -1, corrente |-> 0]
<1>1. n \in Nat /\ DOMAIN t = 1 .. n
  BY ListaTipo
<1>2. base \in A /\ base.massimo = -1 /\ base.corrente = 0
  OBVIOUS
<1>3. ASSUME NEW a \in A, NEW k \in 1 .. n PROVE MisuraParola(a, t[k]) \in A
  BY DEF MisuraParola
<1> HIDE DEF A, base
<1>4. PICK p : CicloMisura(p, A, base, n, t)
  BY <1>1, <1>2, <1>3, PassiMisura
<1> DEFINE G == {k \in 0 .. n : Misurata(t, k, p[k])}
<1>5. p[0] = base /\ p[n] = FoldLeft(MisuraParola, base, t)
  BY <1>4 DEF CicloMisura
<1>6. 0 \in G
  <2>1. Chiusi(t, Separatori, 0) = {} /\ Inizio(t, Separatori, 0, 1)
    BY ChiusiZero
  <2>2. Misure(t, Separatori, 0) = {}
    BY <2>1 DEF Misure
  <2>3. Misurata(t, 0, base)
    BY <1>2, <2>1, <2>2 DEF Misurata
  <2> QED
    BY <1>1, <1>5, <2>3
<1>7. ASSUME NEW k \in 1 .. n, k - 1 \in G PROVE k \in G
  <2>1. Misurata(t, k - 1, p[k - 1]) /\ k \in 0 .. n
    BY <1>1, <1>7
  <2>2. p[k] = MisuraParola(p[k - 1], t[k])
    BY <1>4 DEF CicloMisura
  <2>3. Misurata(t, k, p[k])
    BY <2>1, <2>2, MisuraPasso
  <2> QED
    BY <2>1, <2>3
<1>8. n \in G
  <2> HIDE DEF G, n
  <2>1. \A k \in 0 .. n : k \in G
    BY <1>1, <1>6, <1>7, Induzione
  <2> QED
    BY <1>1, <2>1
<1> QED
  BY <1>5, <1>8 DEF base

LEMMA ParolaGiusta ==
  ASSUME NEW t, Lista(t)
  PROVE  ParolaPiuLunga(t) = IF Intervalli(t, Separatori) = {} THEN -1
                             ELSE Max({ij[2] - ij[1] : ij \in Intervalli(t, Separatori)})
<1> DEFINE f == FoldLeft(MisuraParola, [massimo |-> -1, corrente |-> 0], t)
           I == Intervalli(t, Separatori)
           M == {ij[2] - ij[1] : ij \in I}
<1>1. Misurata(t, Len(t), f) /\ ParolaPiuLunga(t) = f.massimo
  BY MisuraTutta DEF ParolaPiuLunga
<1>2. Chiusi(t, Separatori, Len(t)) = I
  BY ChiusiZero
<1>3. Misure(t, Separatori, Len(t)) = M
  BY <1>2 DEF Misure
<1> HIDE DEF f, M
<1>4. /\ f.massimo \in Int /\ \A m \in M : m <= f.massimo
      /\ f.massimo \in M \/ (f.massimo = -1 /\ I = {})
  BY <1>1, <1>2, <1>3 DEF Misurata
<1>5. I = {} => M = {}
  BY DEF M
<1>6. ASSUME f.massimo \in M PROVE Max(M) = f.massimo
  <2>1. \A m \in M : f.massimo >= m
    <3>1. \A m \in M : m \in Int
      BY <1>4 DEF M, Intervalli
    <3> QED
      BY <1>4, <3>1
  <2>2. ASSUME NEW m \in M, \A y \in M : m >= y PROVE m = f.massimo
    <3>1. \A y \in M : y \in Int
      BY DEF M, Intervalli
    <3>2. m >= f.massimo
      BY <1>6, <2>2
    <3>3. m <= f.massimo /\ m \in Int
      BY <1>4, <3>1
    <3> QED
      BY <1>4, <3>2, <3>3
  <2> QED
    BY <1>6, <2>1, <2>2 DEF Max
<1> QED
  BY <1>1, <1>4, <1>5, <1>6 DEF M

-----------------------------------------------------------------------------
(* A word taken away: how long what is left is, and how many were taken. *)

Tolta(C, k, a) ==
  /\ a.esce \in Seq(C) /\ a.buffer \in Seq(C) /\ a.ris \in 0 .. k
  /\ Len(a.esce) + Len(a.buffer) <= k

LEMMA TogliPasso ==
  ASSUME NEW C, NEW k, k \in Nat \ {0}, NEW ch \in C, NEW parola, NEW a, Tolta(C, k - 1, a)
  PROVE  Tolta(C, k, TogliCarattere(a, ch, parola))
<1> DEFINE b == TogliCarattere(a, ch, parola)
           x == Len(a.esce)
           y == Len(a.buffer)
           z == a.ris
           h == k - 1
<1>1. a.esce \in Seq(C) /\ a.buffer \in Seq(C) /\ x \in Nat /\ y \in Nat
  BY LenProperties DEF Tolta
<1>2. z \in 0 .. h /\ x + y <= h
  BY DEF Tolta
<1>3. h \in Nat /\ k = h + 1
  OBVIOUS
<1>4. <<>> \in Seq(C) /\ Len(<<>>) = 0
  BY EmptySeq
<1>5. CASE ch \notin Bianchi
  <2>1. b.esce = a.esce /\ b.buffer = Append(a.buffer, ch) /\ b.ris = z
    BY <1>5 DEF TogliCarattere
  <2>2. Append(a.buffer, ch) \in Seq(C) /\ Len(Append(a.buffer, ch)) = y + 1
    BY <1>1, AppendProperties
  <2> HIDE DEF b, x, y, z, h
  <2>3. b.esce \in Seq(C) /\ b.buffer \in Seq(C) /\ Len(b.esce) = x /\ Len(b.buffer) = y + 1
    BY <1>1, <2>1, <2>2 DEF x
  <2>4. Len(b.esce) + Len(b.buffer) <= k
    BY <1>1, <1>2, <1>3, <2>3
  <2>5. b.ris \in 0 .. k
    BY <1>2, <1>3, <2>1
  <2>6. Tolta(C, k, b)
    BY <2>3, <2>4, <2>5 DEF Tolta
  <2> QED
    BY <2>6 DEF b
<1>6. CASE ch \in Bianchi /\ a.buffer = parola
  <2>1. b.esce = a.esce /\ b.buffer = <<>> /\ b.ris = z + 1
    BY <1>6 DEF TogliCarattere
  <2> HIDE DEF b, x, y, z, h
  <2>2. b.esce \in Seq(C) /\ b.buffer \in Seq(C) /\ Len(b.esce) = x /\ Len(b.buffer) = 0
    BY <1>1, <1>4, <2>1 DEF x
  <2>3. Len(b.esce) + Len(b.buffer) <= k
    BY <1>1, <1>2, <1>3, <2>2
  <2>4. b.ris \in 0 .. k
    BY <1>2, <1>3, <2>1
  <2>5. Tolta(C, k, b)
    BY <2>2, <2>3, <2>4 DEF Tolta
  <2> QED
    BY <2>5 DEF b
<1>7. CASE ch \in Bianchi /\ a.buffer # parola
  <2> DEFINE c == a.esce \o a.buffer
  <2>1. b.esce = c \o <<ch>> /\ b.buffer = <<>> /\ b.ris = z
    BY <1>7 DEF TogliCarattere
  <2>2. c \in Seq(C) /\ Len(c) = x + y
    BY <1>1, ConcatProperties
  <2> HIDE DEF b, c, x, y, z, h
  <2>3. <<ch>> \in Seq(C) /\ Len(<<ch>>) = 1
    OBVIOUS
  <2>4. c \o <<ch>> \in Seq(C) /\ Len(c \o <<ch>>) = Len(c) + 1
    BY <2>2, <2>3, ConcatProperties
  <2>5. b.esce \in Seq(C) /\ b.buffer \in Seq(C) /\ Len(b.esce) = x + y + 1 /\ Len(b.buffer) = 0
    BY <1>4, <2>1, <2>2, <2>4
  <2>6. Len(b.esce) + Len(b.buffer) <= k
    BY <1>1, <1>2, <1>3, <2>5
  <2>7. b.ris \in 0 .. k
    BY <1>2, <1>3, <2>1
  <2>8. Tolta(C, k, b)
    BY <2>5, <2>6, <2>7 DEF Tolta
  <2> QED
    BY <2>8 DEF b
<1> QED
  BY <1>5, <1>6, <1>7

LEMMA ParolaTolta ==
  ASSUME NEW t, Lista(t), NEW parola
  PROVE  /\ Lista(elimina_parola(t, parola).esce) /\ Len(elimina_parola(t, parola).esce) <= Len(t)
         /\ elimina_parola(t, parola).ris \in 0 .. Len(t) + 1
<1> DEFINE n == Len(t)
           C == {t[i] : i \in DOMAIN t}
           A == [esce : Seq(C), buffer : Seq(C), ris : Nat]
           base == [esce |-> <<>>, buffer |-> <<>>, ris |-> 0]
           f == FoldLeft(LAMBDA a, ch : TogliCarattere(a, ch, parola), base, t)
           e == elimina_parola(t, parola)
<1>1. n \in Nat /\ DOMAIN t = 1 .. n /\ \A k \in 1 .. n : t[k] \in C
  BY ListaTipo
<1>2. <<>> \in Seq(C)
  BY EmptySeq
<1>3. base \in A /\ base.esce = <<>> /\ base.buffer = <<>> /\ base.ris = 0
  <2> HIDE DEF C
  <2> QED
    BY <1>2
<1>4. e = IF f.buffer = parola THEN [esce |-> f.esce, ris |-> f.ris + 1]
          ELSE [esce |-> f.esce \o f.buffer, ris |-> f.ris]
  BY DEF elimina_parola
<1> HIDE DEF C, base, e
<1>5. ASSUME NEW a \in A, NEW k \in 1 .. n PROVE TogliCarattere(a, t[k], parola) \in A
  <2>1. a.esce \in Seq(C) /\ a.buffer \in Seq(C) /\ a.ris \in Nat /\ t[k] \in C /\ <<>> \in Seq(C)
    BY <1>1, <1>2
  <2>2. Append(a.buffer, t[k]) \in Seq(C)
    BY <2>1, AppendProperties
  <2>3. a.esce \o a.buffer \in Seq(C) /\ <<t[k]>> \in Seq(C)
    BY <2>1, ConcatProperties
  <2>4. (a.esce \o a.buffer) \o <<t[k]>> \in Seq(C)
    BY <2>3, ConcatProperties
  <2>5. a.ris + 1 \in Nat
    BY <2>1
  <2> QED
    BY <2>1, <2>2, <2>4, <2>5 DEF TogliCarattere
<1> HIDE DEF A
<1>6. PICK p : CicloTogli(p, A, base, n, t, parola)
  BY <1>1, <1>3, <1>5, PassiTogli
<1>7. p[0] = base /\ p[n] = f /\ \A k \in 1 .. n : p[k] = TogliCarattere(p[k - 1], t[k], parola)
  BY <1>6 DEF CicloTogli
<1> HIDE DEF f
<1> DEFINE G == {k \in 0 .. n : Tolta(C, k, p[k])}
<1>8. 0 \in G
  <2>1. Tolta(C, 0, base)
    BY <1>2, <1>3, EmptySeq DEF Tolta
  <2> QED
    BY <1>1, <1>7, <2>1
<1>9. ASSUME NEW k \in 1 .. n, k - 1 \in G PROVE k \in G
  <2>1. Tolta(C, k - 1, p[k - 1]) /\ k \in Nat \ {0} /\ t[k] \in C /\ k \in 0 .. n
    BY <1>1, <1>9
  <2>2. Tolta(C, k, TogliCarattere(p[k - 1], t[k], parola))
    BY <2>1, TogliPasso
  <2> QED
    BY <1>7, <2>1, <2>2
<1>10. n \in G
  <2> HIDE DEF G, n
  <2>1. \A k \in 0 .. n : k \in G
    BY <1>1, <1>8, <1>9, Induzione
  <2> QED
    BY <1>1, <2>1
<1>11. f.esce \in Seq(C) /\ f.buffer \in Seq(C) /\ f.ris \in 0 .. n /\ Len(f.esce) + Len(f.buffer) <= n
  BY <1>7, <1>10 DEF Tolta
<1>12. Len(f.esce) \in Nat /\ Len(f.buffer) \in Nat
       /\ f.esce \o f.buffer \in Seq(C) /\ Len(f.esce \o f.buffer) = Len(f.esce) + Len(f.buffer)
  BY <1>11, ConcatProperties, LenProperties
<1>13. e.esce \in {f.esce, f.esce \o f.buffer} /\ e.ris \in {f.ris, f.ris + 1}
  BY <1>4
<1>14. e.esce \in Seq(C) /\ Len(e.esce) <= n /\ e.ris \in 0 .. n + 1
  <2> DEFINE u == f.esce
             v == f.esce \o f.buffer
  <2>1. u \in Seq(C) /\ v \in Seq(C) /\ e.esce \in {u, v}
    BY <1>11, <1>12, <1>13
  <2>2. Len(u) <= n /\ Len(v) <= n
    <3> DEFINE x == Len(f.esce)
               y == Len(f.buffer)
    <3>1. x \in Nat /\ y \in Nat /\ x + y <= n /\ Len(u) = x /\ Len(v) = x + y
      BY <1>11, <1>12
    <3> HIDE DEF x, y, u, v, n
    <3> QED
      BY <1>1, <3>1
  <2> HIDE DEF u, v, n
  <2>3. e.esce \in Seq(C) /\ Len(e.esce) <= n
    BY <2>1, <2>2
  <2>4. e.ris \in 0 .. n + 1
    BY <1>1, <1>11, <1>13
  <2> QED
    BY <2>3, <2>4
<1>15. Lista(e.esce)
  BY <1>14, ListaDi
<1> QED
  BY <1>14, <1>15 DEF e

-----------------------------------------------------------------------------
(* The words of a text as characters are added to it. *)

\* v is what follows the last separator.
Sospeso(t, S, v) == \E i : Inizio(t, S, Len(t), i) /\ v = SubSeq(t, i, Len(t))

Pieni(t, S, W) == {ij \in Intervalli(t, S) : ij[1] < ij[2] /\ SubSeq(t, ij[1], ij[2] - 1) \notin W}

LEMMA IntervalliTipo ==
  ASSUME NEW t, Lista(t), NEW S
  PROVE  /\ IsFiniteSet(Intervalli(t, S))
         /\ \A x \in Intervalli(t, S) :
              x[1] \in 1 .. Len(t) /\ x[2] \in 1 .. Len(t) /\ x[1] <= x[2] /\ x = <<x[1], x[2]>>
<1> DEFINE n == Len(t)
<1>1. n \in Nat
  BY ListaTipo
<1> HIDE DEF n
<1>2. IsFiniteSet((1 .. n) \X (1 .. n))
  <2>1. IsFiniteSet(1 .. n)
    BY <1>1, FS_Interval
  <2> DEFINE N == 1 .. n
  <2> HIDE DEF N
  <2>2. IsFiniteSet(N)
    BY <2>1 DEF N
  <2>3. IsFiniteSet(N \X N)
    BY <2>2, FS_Product
  <2> QED
    BY <2>3 DEF N
<1>3. Intervalli(t, S) \subseteq (1 .. n) \X (1 .. n)
  BY DEF Intervalli, n
<1>4. IsFiniteSet(Intervalli(t, S))
  BY <1>2, <1>3, FS_Subset
<1> QED
  BY <1>4 DEF Intervalli

LEMMA FilaEsiste ==
  ASSUME NEW t, Lista(t), NEW S, NEW R
  PROVE  (\E e : InFila(e, Intervalli(t, S) \cap R)) /\ (\E i : Inizio(t, S, Len(t), i))
<1> DEFINE n == Len(t)
           G == {k \in 0 .. n : (\E e : InFila(e, Chiusi(t, S, k) \cap R)) /\ (\E i : Inizio(t, S, k, i))}
<1>1. n \in Nat
  BY ListaTipo
<1>2. 0 \in G
  <2>1. Lista(<<>>) /\ DOMAIN <<>> = {}
    BY ListaVuota
  <2>2. InFila(<<>>, {})
    BY <2>1 DEF InFila
  <2>3. Chiusi(t, S, 0) \cap R = {} /\ Inizio(t, S, 0, 1)
    BY ChiusiZero
  <2>4. InFila(<<>>, Chiusi(t, S, 0) \cap R)
    BY <2>2, <2>3
  <2>5. 0 \in 0 .. n
    BY <1>1
  <2> QED
    BY <2>3, <2>4, <2>5
<1>3. ASSUME NEW k \in 1 .. n, k - 1 \in G PROVE k \in G
  <2>1. PICK e : InFila(e, Chiusi(t, S, k - 1) \cap R)
    BY <1>3
  <2>2. PICK i : Inizio(t, S, k - 1, i)
    BY <1>3
  <2>3. /\ t[k] \notin S => Chiusi(t, S, k) = Chiusi(t, S, k - 1) /\ Inizio(t, S, k, i)
        /\ t[k] \in S => Chiusi(t, S, k) = Chiusi(t, S, k - 1) \cup {<<i, k>>} /\ Inizio(t, S, k, k + 1)
        /\ \A x \in Chiusi(t, S, k - 1) : x[1] \in 1 .. i - 1
        /\ i \in 1 .. k
    BY <2>2, ChiusiPasso
  <2>4. k \in 0 .. n
    BY <1>1
  <2>5. CASE t[k] \in S /\ <<i, k>> \in R
    <3> DEFINE x == <<i, k>>
               I == Chiusi(t, S, k - 1) \cap R
    <3>1. x[1] \in Int /\ \A y \in I : y[1] < x[1]
      BY <1>1, <2>3
    <3>2. Chiusi(t, S, k) \cap R = I \cup {x}
      BY <2>3, <2>5
    <3> HIDE DEF x, I, G
    <3>3. InFila(e, I)
      BY <2>1 DEF I
    <3>4. InFila(Append(e, x), I \cup {x})
      BY <3>1, <3>3, FilaAppend
    <3> QED
      BY <2>3, <2>4, <2>5, <3>2, <3>4 DEF G
  <2>6. CASE t[k] \in S /\ <<i, k>> \notin R
    <3>1. Chiusi(t, S, k) \cap R = Chiusi(t, S, k - 1) \cap R
      BY <2>3, <2>6
    <3> QED
      BY <2>1, <2>3, <2>4, <2>6, <3>1
  <2>7. CASE t[k] \notin S
    BY <2>1, <2>3, <2>4, <2>7
  <2> QED
    BY <2>5, <2>6, <2>7
<1>4. n \in G
  <2> HIDE DEF G, n
  <2>1. \A k \in 0 .. n : k \in G
    BY <1>1, <1>2, <1>3, Induzione
  <2> QED
    BY <1>1, <2>1
<1>5. Chiusi(t, S, n) = Intervalli(t, S)
  BY ChiusiZero
<1> QED
  BY <1>4, <1>5

LEMMA SospesoEsiste ==
  ASSUME NEW t, Lista(t), NEW S
  PROVE  \E v : Sospeso(t, S, v)
BY FilaEsiste DEF Sospeso

\* p is the list of words, read off the intervals in their order.
Lette(t, S, W, e, p) ==
  /\ Lista(e) /\ \A k \in 1 .. Len(e) : e[k] \in Pieni(t, S, W)
  /\ Lista(p) /\ Len(p) = Len(e)
  /\ \A k \in 1 .. Len(e) : p[k] = SubSeq(t, e[k][1], e[k][2] - 1)

LEMMA ParoleFila ==
  ASSUME NEW t, Lista(t), NEW S, NEW W, NEW e, InFila(e, Pieni(t, S, W))
  PROVE  Lette(t, S, W, e, ParoleSenza(t, S, W))
<1> DEFINE p == ParoleSenza(t, S, W)
           n == Len(e)
<1>1. InOrdine(Pieni(t, S, W)) = e
  BY FilaUnica
<1>2. Lista(e) /\ n \in Nat /\ DOMAIN e = 1 .. n
  BY ListaTipo DEF InFila
<1>3. p = [k \in 1 .. n |-> SubSeq(t, e[k][1], e[k][2] - 1)]
  BY <1>1, <1>2 DEF ParoleSenza, Pieni
<1> HIDE DEF p, n
<1>4. DOMAIN p = 1 .. n /\ p = [k \in 1 .. n |-> p[k]] /\ \A k \in 1 .. n : p[k] = SubSeq(t, e[k][1], e[k][2] - 1)
  BY <1>3
<1>5. Lista(p) /\ Len(p) = n
  BY <1>2, <1>4, ListaFunzione
<1>6. \A k \in 1 .. n : e[k] \in Pieni(t, S, W)
  BY <1>2 DEF InFila
<1> QED
  BY <1>2, <1>4, <1>5, <1>6 DEF p, n, Lette

LEMMA ParoleLista ==
  ASSUME NEW t, Lista(t), NEW S, NEW W
  PROVE  /\ Lista(ParoleSenza(t, S, W))
         /\ \E e : InFila(e, Pieni(t, S, W))
<1> DEFINE R == {x \in Intervalli(t, S) : x[1] < x[2] /\ SubSeq(t, x[1], x[2] - 1) \notin W}
<1>1. Intervalli(t, S) \cap R = Pieni(t, S, W)
  BY DEF Pieni
<1> HIDE DEF R
<1>2. \E e : InFila(e, Intervalli(t, S) \cap R)
  BY FilaEsiste
<1>3. PICK e : InFila(e, Pieni(t, S, W))
  BY <1>1, <1>2
<1>4. Lette(t, S, W, e, ParoleSenza(t, S, W))
  BY <1>3, ParoleFila
<1> QED
  BY <1>3, <1>4 DEF Lette

LEMMA ParteUguale ==
  ASSUME NEW t, Lista(t), NEW u, Lista(u), NEW n \in Nat, n <= Len(t), n <= Len(u),
         \A j \in 1 .. n : t[j] = u[j],
         NEW i \in Int, NEW k \in Int, i >= 1, k <= n, i <= k + 1
  PROVE  SubSeq(t, i, k) = SubSeq(u, i, k)
<1>1. Len(t) \in Nat /\ Len(u) \in Nat
  BY ListaTipo
<1>2. k <= Len(t) /\ k <= Len(u)
  BY <1>1
<1>3. /\ Lista(SubSeq(t, i, k)) /\ Len(SubSeq(t, i, k)) = k - i + 1
      /\ \A j \in 1 .. k - i + 1 : SubSeq(t, i, k)[j] = t[i + j - 1]
  BY <1>2, Parte
<1>4. /\ Lista(SubSeq(u, i, k)) /\ Len(SubSeq(u, i, k)) = k - i + 1
      /\ \A j \in 1 .. k - i + 1 : SubSeq(u, i, k)[j] = u[i + j - 1]
  BY <1>2, Parte
<1>5. \A j \in 1 .. k - i + 1 : t[i + j - 1] = u[i + j - 1]
  <2>1. \A j \in 1 .. k - i + 1 : i + j - 1 \in 1 .. n
    OBVIOUS
  <2> QED
    BY <2>1
<1>6. \A j \in 1 .. Len(SubSeq(t, i, k)) : SubSeq(t, i, k)[j] = SubSeq(u, i, k)[j]
  BY <1>3, <1>4, <1>5
<1> QED
  BY <1>3, <1>4, <1>6, ListeUguali

\* One more character leaves all before it as it was.
Aggiunto(t, S, ch, u) ==
  /\ Lista(u) /\ Len(u) = Len(t) + 1 /\ u[Len(u)] = ch
  /\ Chiusi(u, S, Len(t)) = Intervalli(t, S)
  /\ \A i : Inizio(u, S, Len(t), i) <=> Inizio(t, S, Len(t), i)
  /\ \A x \in Intervalli(t, S) : SubSeq(u, x[1], x[2] - 1) = SubSeq(t, x[1], x[2] - 1)
  /\ \A i \in 1 .. Len(t) + 1 : SubSeq(u, i, Len(t)) = SubSeq(t, i, Len(t))

LEMMA TestoAppend ==
  ASSUME NEW t, Lista(t), NEW S, NEW ch, NEW u, u = Append(t, ch)
  PROVE  Aggiunto(t, S, ch, u)
<1> DEFINE n == Len(t)
<1>1. /\ Lista(u) /\ Len(u) = n + 1 /\ u[n + 1] = ch
      /\ \A i \in 1 .. n : u[i] = t[i]
  BY ListaAppend
<1>2. n \in Nat
  BY ListaTipo
<1>3. Chiusi(u, S, n) = Intervalli(t, S)
  <2>1. ASSUME NEW x, x \in Chiusi(u, S, n) PROVE x \in Intervalli(t, S)
    <3>1. /\ x \in (1 .. n + 1) \X (1 .. n + 1) /\ x[1] <= x[2] /\ u[x[2]] \in S
          /\ x[1] = 1 \/ u[x[1] - 1] \in S
          /\ \A k \in x[1] .. x[2] - 1 : u[k] \notin S
          /\ x[2] <= n
      BY <1>1, <2>1 DEF Chiusi, Intervalli
    <3>2. x \in (1 .. n) \X (1 .. n)
      BY <1>2, <3>1
    <3>3. x[2] \in 1 .. n /\ (x[1] # 1 => x[1] - 1 \in 1 .. n) /\ \A k \in x[1] .. x[2] - 1 : k \in 1 .. n
      BY <1>2, <3>1
    <3> QED
      BY <1>1, <3>1, <3>2, <3>3 DEF Intervalli
  <2>2. ASSUME NEW x, x \in Intervalli(t, S) PROVE x \in Chiusi(u, S, n)
    <3>1. /\ x \in (1 .. n) \X (1 .. n) /\ x[1] <= x[2] /\ t[x[2]] \in S
          /\ x[1] = 1 \/ t[x[1] - 1] \in S
          /\ \A k \in x[1] .. x[2] - 1 : t[k] \notin S
      BY <2>2 DEF Intervalli
    <3>2. x \in (1 .. n + 1) \X (1 .. n + 1) /\ x[2] <= n
      BY <1>2, <3>1
    <3>3. x[2] \in 1 .. n /\ (x[1] # 1 => x[1] - 1 \in 1 .. n) /\ \A k \in x[1] .. x[2] - 1 : k \in 1 .. n
      BY <1>2, <3>1
    <3>4. u[x[2]] \in S /\ (x[1] = 1 \/ u[x[1] - 1] \in S) /\ \A k \in x[1] .. x[2] - 1 : u[k] \notin S
      BY <1>1, <3>1, <3>3
    <3> QED
      BY <1>1, <3>1, <3>2, <3>4 DEF Chiusi, Intervalli
  <2> QED
    BY <2>1, <2>2
<1>4. ASSUME NEW i PROVE Inizio(u, S, n, i) <=> Inizio(t, S, n, i)
  <2>1. i \in 1 .. n + 1 => (i # 1 => i - 1 \in 1 .. n) /\ \A j \in i .. n : j \in 1 .. n
    BY <1>2
  <2> HIDE DEF n
  <2> QED
    BY <1>1, <2>1 DEF Inizio
<1>5. ASSUME NEW i \in Int, NEW k \in Int, i >= 1, k <= n, i <= k + 1
      PROVE  SubSeq(u, i, k) = SubSeq(t, i, k)
  <2>1. n <= Len(t) /\ n <= Len(u)
    BY <1>1, <1>2
  <2> HIDE DEF n
  <2> QED
    BY <1>1, <1>2, <1>5, <2>1, ParteUguale
<1>6. ASSUME NEW x \in Intervalli(t, S) PROVE SubSeq(u, x[1], x[2] - 1) = SubSeq(t, x[1], x[2] - 1)
  <2>1. x[1] \in Int /\ x[2] - 1 \in Int /\ x[1] >= 1 /\ x[2] - 1 <= n /\ x[1] <= (x[2] - 1) + 1
    BY <1>2, IntervalliTipo
  <2> QED
    BY <1>5, <2>1
<1>7. ASSUME NEW i \in 1 .. n + 1 PROVE SubSeq(u, i, n) = SubSeq(t, i, n)
  <2>1. i \in Int /\ n \in Int /\ i >= 1 /\ n <= n /\ i <= n + 1
    BY <1>2
  <2> QED
    BY <1>5, <2>1
<1> QED
  BY <1>1, <1>3, <1>4, <1>6, <1>7 DEF Aggiunto

LEMMA TestoVuoto ==
  ASSUME NEW S
  PROVE  /\ Sospeso(<<>>, S, <<>>)
         /\ \A W : ParoleSenza(<<>>, S, W) = <<>>
         /\ \A w : Volte(<<>>, S, w) = 0
<1>1. Lista(<<>>) /\ Len(<<>>) = 0 /\ DOMAIN <<>> = {}
  BY ListaVuota
<1>2. Intervalli(<<>>, S) = {}
  BY <1>1 DEF Intervalli
<1>3. Inizio(<<>>, S, 0, 1)
  BY DEF Inizio
<1>4. SubSeq(<<>>, 1, 0) = <<>>
  BY SubSeqEmpty
<1>5. ASSUME NEW W PROVE ParoleSenza(<<>>, S, W) = <<>>
  <2>1. Pieni(<<>>, S, W) = {}
    BY <1>2 DEF Pieni
  <2>2. InFila(<<>>, {})
    BY <1>1 DEF InFila
  <2>3. InFila(<<>>, Pieni(<<>>, S, W))
    BY <2>1, <2>2
  <2>4. Lista(ParoleSenza(<<>>, S, W)) /\ Len(ParoleSenza(<<>>, S, W)) = 0
    <3>1. Lette(<<>>, S, W, <<>>, ParoleSenza(<<>>, S, W))
      BY <1>1, <2>3, ParoleFila
    <3> QED
      BY <1>1, <3>1 DEF Lette
  <2> QED
    BY <1>1, <2>4, ListeUguali
<1>6. ASSUME NEW w PROVE Volte(<<>>, S, w) = 0
  <2>1. {ij \in Intervalli(<<>>, S) : SubSeq(<<>>, ij[1], ij[2] - 1) = w} = {}
    BY <1>2
  <2> QED
    BY <2>1, FS_EmptySet DEF Volte
<1> QED
  BY <1>1, <1>3, <1>4, <1>5, <1>6 DEF Sospeso

\* The text u has the words of t, and v follows its last separator.
Uguali(S, t, u, v) ==
  /\ Lista(u) /\ Sospeso(u, S, v)
  /\ \A W : ParoleSenza(u, S, W) = ParoleSenza(t, S, W)
  /\ \A w : Volte(u, S, w) = Volte(t, S, w)

LEMMA DopoLettera ==
  ASSUME NEW t, Lista(t), NEW S, NEW v, Sospeso(t, S, v), NEW ch, ch \notin S, NEW u, u = Append(t, ch)
  PROVE  Uguali(S, t, u, Append(v, ch))
<1> DEFINE n == Len(t)
           m == Len(u)
<1>1. PICK i : Inizio(t, S, n, i) /\ v = SubSeq(t, i, n)
  BY DEF Sospeso
<1>2. /\ Lista(u) /\ m = n + 1 /\ u[m] = ch /\ Chiusi(u, S, n) = Intervalli(t, S)
      /\ Inizio(u, S, n, i)
      /\ \A x \in Intervalli(t, S) : SubSeq(u, x[1], x[2] - 1) = SubSeq(t, x[1], x[2] - 1)
      /\ \A j \in 1 .. n + 1 : SubSeq(u, j, n) = SubSeq(t, j, n)
  <2>1. Aggiunto(t, S, ch, u)
    BY TestoAppend
  <2> QED
    BY <1>1, <2>1 DEF Aggiunto
<1>3. n \in Nat /\ m \in 1 .. m /\ m - 1 = n
  BY <1>2, ListaTipo
<1>4. Chiusi(u, S, m) = Chiusi(u, S, n) /\ Inizio(u, S, m, i) /\ i \in 1 .. m
  <2>1. m \in 1 .. Len(u) /\ Inizio(u, S, m - 1, i) /\ u[m] \notin S
    BY <1>2, <1>3
  <2> HIDE DEF m, n
  <2>2. Chiusi(u, S, m) = Chiusi(u, S, m - 1) /\ Inizio(u, S, m, i) /\ i \in 1 .. m
    BY <1>2, <2>1, ChiusiPasso, ZenonT(40)
  <2> QED
    BY <1>3, <2>2
<1>5. Intervalli(u, S) = Intervalli(t, S)
  BY <1>2, <1>4, ChiusiZero
<1>6. SubSeq(u, i, m) = Append(v, ch)
  <2>1. m \in 1 .. Len(u) /\ i \in 1 .. m
    BY <1>3, <1>4
  <2> HIDE DEF m
  <2>2. SubSeq(u, i, m) = Append(SubSeq(u, i, m - 1), u[m])
    BY <1>2, <2>1, ParteAvanti
  <2>3. SubSeq(u, i, m - 1) = v
    BY <1>1, <1>2, <1>3, <1>4
  <2> QED
    BY <1>2, <2>2, <2>3
<1> HIDE DEF n, m
<1>7. ASSUME NEW W PROVE ParoleSenza(u, S, W) = ParoleSenza(t, S, W)
  <2>1. Pieni(u, S, W) = Pieni(t, S, W)
    BY <1>2, <1>5 DEF Pieni
  <2>2. PICK e : InFila(e, Pieni(t, S, W))
    BY ParoleLista
  <2>3. /\ Lista(e) /\ \A k \in 1 .. Len(e) : e[k] \in Pieni(t, S, W)
        /\ Lista(ParoleSenza(t, S, W)) /\ Len(ParoleSenza(t, S, W)) = Len(e)
        /\ \A k \in 1 .. Len(e) : ParoleSenza(t, S, W)[k] = SubSeq(t, e[k][1], e[k][2] - 1)
    <3>1. Lette(t, S, W, e, ParoleSenza(t, S, W))
      BY <2>2, ParoleFila
    <3> QED
      BY <3>1 DEF Lette
  <2>4. /\ Lista(ParoleSenza(u, S, W)) /\ Len(ParoleSenza(u, S, W)) = Len(e)
        /\ \A k \in 1 .. Len(e) : ParoleSenza(u, S, W)[k] = SubSeq(u, e[k][1], e[k][2] - 1)
    <3>1. InFila(e, Pieni(u, S, W)) /\ Lista(u)
      BY <1>2, <2>1, <2>2
    <3>2. Lette(u, S, W, e, ParoleSenza(u, S, W))
      BY <3>1, ParoleFila
    <3> QED
      BY <3>2 DEF Lette
  <2>5. \A k \in 1 .. Len(e) : e[k] \in Intervalli(t, S)
    BY <2>3 DEF Pieni
  <2>6. \A k \in 1 .. Len(e) : ParoleSenza(u, S, W)[k] = ParoleSenza(t, S, W)[k]
    BY <1>2, <2>3, <2>4, <2>5
  <2> QED
    BY <2>3, <2>4, <2>6, ListeUguali
<1>8. ASSUME NEW w PROVE Volte(u, S, w) = Volte(t, S, w)
  <2>1. {ij \in Intervalli(u, S) : SubSeq(u, ij[1], ij[2] - 1) = w}
        = {ij \in Intervalli(t, S) : SubSeq(t, ij[1], ij[2] - 1) = w}
    BY <1>2, <1>5
  <2> QED
    BY <2>1 DEF Volte
<1>9. Sospeso(u, S, Append(v, ch))
  BY <1>4, <1>6 DEF Sospeso, m
<1> QED
  BY <1>2, <1>7, <1>8, <1>9 DEF Uguali

Chiude(t, S, h, k, x) == Chiusi(t, S, k) = Chiusi(t, S, h) \cup {x}

LEMMA SeparatoreChiude ==
  ASSUME NEW t, Lista(t), NEW S, NEW k \in 1 .. Len(t), NEW h, h = k - 1, NEW i, Inizio(t, S, h, i), t[k] \in S,
         NEW x, x = <<i, k>>
  PROVE  Chiude(t, S, h, k, x) /\ Inizio(t, S, k, k + 1) /\ i \in 1 .. k
<1>1. /\ t[k] \in S => Chiusi(t, S, k) = Chiusi(t, S, k - 1) \cup {<<i, k>>} /\ Inizio(t, S, k, k + 1)
      /\ i \in 1 .. k
  BY ChiusiPasso
<1> QED
  BY <1>1 DEF Chiude

\* The text u has the words of t and then v, which is over.
Segue(S, t, v, u) ==
  /\ Lista(u) /\ Sospeso(u, S, <<>>)
  /\ \A W : ParoleSenza(u, S, W) = IF v = <<>> \/ v \in W THEN ParoleSenza(t, S, W)
                                   ELSE Append(ParoleSenza(t, S, W), v)
  /\ \A w : Volte(u, S, w) = Volte(t, S, w) + (IF v = w THEN 1 ELSE 0)

LEMMA DopoSeparatore ==
  ASSUME NEW t, Lista(t), NEW S, NEW v, Sospeso(t, S, v), NEW ch \in S, NEW u, u = Append(t, ch)
  PROVE  Segue(S, t, v, u)
<1> DEFINE n == Len(t)
           m == Len(u)
<1>1. PICK i : Inizio(t, S, n, i) /\ v = SubSeq(t, i, n)
  BY DEF Sospeso
<1>2. /\ Lista(u) /\ m = n + 1 /\ u[m] = ch /\ Chiusi(u, S, n) = Intervalli(t, S)
      /\ Inizio(u, S, n, i)
      /\ \A x \in Intervalli(t, S) : SubSeq(u, x[1], x[2] - 1) = SubSeq(t, x[1], x[2] - 1)
      /\ \A j \in 1 .. n + 1 : SubSeq(u, j, n) = SubSeq(t, j, n)
  <2>1. Aggiunto(t, S, ch, u)
    BY TestoAppend
  <2> QED
    BY <1>1, <2>1 DEF Aggiunto
<1>3. n \in Nat /\ m \in 1 .. m /\ m - 1 = n
  BY <1>2, ListaTipo
<1> DEFINE x == <<i, m>>
<1>4. /\ Chiusi(u, S, m) = Chiusi(u, S, n) \cup {x} /\ Inizio(u, S, m, m + 1) /\ i \in 1 .. m
      /\ \A y \in Chiusi(u, S, n) : y[1] \in 1 .. i - 1
  <2>1. m \in 1 .. Len(u) /\ Inizio(u, S, m - 1, i) /\ u[m] \in S
    BY <1>2, <1>3
  <2> HIDE DEF m, n
  <2>2. Chiusi(u, S, m) = Chiusi(u, S, n) \cup {x} /\ Inizio(u, S, m, m + 1) /\ i \in 1 .. m
    <3>1. n = m - 1 /\ Lista(u) /\ Inizio(u, S, n, i)
      BY <1>2, <1>3
    <3>2. x = <<i, m>>
      OBVIOUS
    <3> HIDE DEF x
    <3>3. Chiude(u, S, n, m, x) /\ Inizio(u, S, m, m + 1) /\ i \in 1 .. m
      BY <2>1, <3>1, <3>2, SeparatoreChiude
    <3> QED
      BY <3>3 DEF Chiude
  <2>3. ASSUME NEW y \in Chiusi(u, S, m - 1) PROVE y[1] \in 1 .. i - 1
    BY <1>2, <2>1, ChiusiPasso
  <2> QED
    BY <1>3, <2>1, <2>2, <2>3
<1>5. Intervalli(u, S) = Intervalli(t, S) \cup {x}
  BY <1>2, <1>4, ChiusiZero
<1>6. x[1] = i /\ x[2] = m /\ i \in Int /\ \A y \in Intervalli(t, S) : y[1] < x[1] /\ y # x
  BY <1>2, <1>3, <1>4
<1>7. SubSeq(u, x[1], x[2] - 1) = v
  <2>1. i \in 1 .. n + 1
    BY <1>2, <1>4
  <2> QED
    BY <1>1, <1>2, <1>3, <1>6, <2>1
<1>8. v # <<>> <=> x[1] < x[2]
  <2>1. i \in Int /\ n \in Int /\ i >= 1 /\ n <= Len(t) /\ i <= n + 1
    BY <1>2, <1>3, <1>4
  <2> HIDE DEF n, x
  <2>2. Lista(v) /\ Len(v) = n - i + 1
    BY <1>1, <2>1, Parte
  <2>3. v = <<>> <=> Len(v) = 0
    BY <2>2, ListaVuota, ListeUguali
  <2> QED
    BY <1>2, <1>3, <1>6, <2>1, <2>2, <2>3
<1>9. Sospeso(u, S, <<>>)
  <2>1. SubSeq(u, m + 1, m) = <<>>
    BY <1>2, <1>3, SubSeqEmpty
  <2> QED
    BY <1>4, <2>1 DEF Sospeso
<1> HIDE DEF n, m, x
<1>10. ASSUME NEW W
       PROVE  ParoleSenza(u, S, W) = IF v = <<>> \/ v \in W THEN ParoleSenza(t, S, W)
                                     ELSE Append(ParoleSenza(t, S, W), v)
  <2> DEFINE p == ParoleSenza(t, S, W)
             q == ParoleSenza(u, S, W)
  <2>1. PICK e : InFila(e, Pieni(t, S, W))
    BY ParoleLista
  <2>2. /\ Lista(e) /\ \A k \in 1 .. Len(e) : e[k] \in Pieni(t, S, W)
        /\ Lista(p) /\ Len(p) = Len(e)
        /\ \A k \in 1 .. Len(e) : p[k] = SubSeq(t, e[k][1], e[k][2] - 1)
    <3>1. Lette(t, S, W, e, ParoleSenza(t, S, W))
      BY <2>1, ParoleFila
    <3> QED
      BY <3>1 DEF Lette
  <2>3. \A k \in 1 .. Len(e) : e[k] \in Intervalli(t, S)
    BY <2>2 DEF Pieni
  <2>4. Len(e) \in Nat
    BY <2>2, ListaTipo
  <2>5. CASE v = <<>> \/ v \in W
    <3>1. Pieni(u, S, W) = Pieni(t, S, W)
      BY <1>2, <1>5, <1>7, <1>8, <2>5 DEF Pieni
    <3>2. /\ Lista(q) /\ Len(q) = Len(e)
          /\ \A k \in 1 .. Len(e) : q[k] = SubSeq(u, e[k][1], e[k][2] - 1)
      <4>1. InFila(e, Pieni(u, S, W)) /\ Lista(u)
        BY <1>2, <2>1, <3>1
      <4>2. Lette(u, S, W, e, ParoleSenza(u, S, W))
        BY <4>1, ParoleFila
      <4> QED
        BY <4>2 DEF Lette
    <3>3. \A k \in 1 .. Len(e) : q[k] = p[k]
      BY <1>2, <2>2, <2>3, <3>2
    <3> HIDE DEF p, q
    <3>4. q = p
      BY <2>2, <3>2, <3>3, ListeUguali
    <3> QED
      BY <2>5, <3>4 DEF p, q
  <2>6. CASE ~(v = <<>> \/ v \in W)
    <3> DEFINE g == Append(e, x)
               r == Append(p, v)
    <3>1. Pieni(u, S, W) = Pieni(t, S, W) \cup {x}
      BY <1>2, <1>5, <1>7, <1>8, <2>6 DEF Pieni
    <3>2. \A y \in Pieni(t, S, W) : y[1] < x[1]
      BY <1>6 DEF Pieni
    <3>3. InFila(g, Pieni(t, S, W) \cup {x}) /\ Len(g) = Len(e) + 1
      BY <1>6, <2>1, <3>2, FilaAppend
    <3>4. g[Len(e) + 1] = x /\ \A k \in 1 .. Len(e) : g[k] = e[k]
      BY <2>2, ListaAppend
    <3> HIDE DEF g
    <3>5. /\ Lista(q) /\ Len(q) = Len(g)
          /\ \A k \in 1 .. Len(g) : q[k] = SubSeq(u, g[k][1], g[k][2] - 1)
      <4>1. InFila(g, Pieni(u, S, W)) /\ Lista(u)
        BY <1>2, <3>1, <3>3
      <4>2. Lette(u, S, W, g, ParoleSenza(u, S, W))
        BY <4>1, ParoleFila
      <4> QED
        BY <4>2 DEF Lette
    <3> HIDE DEF p, q
    <3>6. /\ Lista(r) /\ Len(r) = Len(e) + 1 /\ r[Len(e) + 1] = v
          /\ \A k \in 1 .. Len(e) : r[k] = p[k]
      BY <2>2, ListaAppend
    <3> HIDE DEF r
    <3>7. ASSUME NEW k \in 1 .. Len(q) PROVE q[k] = r[k]
      <4>1. CASE k = Len(e) + 1
        <5>1. k \in 1 .. Len(g)
          BY <3>5
        <5>2. q[k] = SubSeq(u, g[k][1], g[k][2] - 1) /\ g[k] = x /\ r[k] = v
          BY <3>4, <3>5, <3>6, <4>1, <5>1
        <5> QED
          BY <1>7, <5>2
      <4>2. CASE k \in 1 .. Len(e)
        <5>1. k \in 1 .. Len(g) /\ g[k] = e[k] /\ e[k] \in Intervalli(t, S)
          BY <2>3, <3>4, <3>5, <4>2
        <5>2. q[k] = SubSeq(u, e[k][1], e[k][2] - 1) /\ r[k] = SubSeq(t, e[k][1], e[k][2] - 1)
          BY <2>2, <3>5, <3>6, <4>2, <5>1
        <5> QED
          BY <1>2, <5>1, <5>2
      <4> QED
        BY <2>4, <3>3, <3>5, <4>1, <4>2
    <3>8. q = r
      BY <3>3, <3>5, <3>6, <3>7, ListeUguali
    <3> QED
      BY <2>6, <3>8 DEF p, q, r
  <2> QED
    BY <2>5, <2>6
<1>11. ASSUME NEW w PROVE Volte(u, S, w) = Volte(t, S, w) + (IF v = w THEN 1 ELSE 0)
  <2> DEFINE I == {ij \in Intervalli(t, S) : SubSeq(t, ij[1], ij[2] - 1) = w}
             J == {ij \in Intervalli(u, S) : SubSeq(u, ij[1], ij[2] - 1) = w}
  <2>1. IsFiniteSet(I) /\ Cardinality(I) \in Nat
    <3>1. I \subseteq Intervalli(t, S)
      OBVIOUS
    <3> HIDE DEF I
    <3> QED
      BY <3>1, IntervalliTipo, FS_Subset, FS_CardinalityType
  <2>2. x \notin I
    BY <1>6
  <2>3. CASE v = w
    <3>1. J = I \cup {x}
      BY <1>2, <1>5, <1>7, <2>3
    <3> HIDE DEF I, J
    <3>2. Cardinality(I \cup {x}) = Cardinality(I) + 1
      BY <2>1, <2>2, FS_AddElement
    <3> QED
      BY <2>3, <3>1, <3>2 DEF Volte, I, J
  <2>4. CASE v # w
    <3>1. J = I
      BY <1>2, <1>5, <1>7, <2>4
    <3> HIDE DEF I, J
    <3>2. Cardinality(I) = Cardinality(I) + 0
      BY <2>1
    <3> QED
      BY <2>4, <3>1, <3>2 DEF Volte, I, J
  <2> QED
    BY <2>3, <2>4
<1> QED
  BY <1>2, <1>9, <1>10, <1>11 DEF Segue

\* Lists one after the other.
LEMMA ListaInsieme ==
  ASSUME NEW s, Lista(s), NEW t, Lista(t)
  PROVE  \E C : s \in Seq(C) /\ t \in Seq(C)
<1> DEFINE A == {s[i] : i \in DOMAIN s}
           D == {t[i] : i \in DOMAIN t}
           C == A \cup D
<1>1. s \in Seq(A) /\ t \in Seq(D)
  BY DEF Lista
<1> HIDE DEF A, D
<1>2. Seq(A) \subseteq Seq(C) /\ Seq(D) \subseteq Seq(C)
  BY SeqMonotonic
<1> QED
  BY <1>1, <1>2

LEMMA ListaConcat ==
  ASSUME NEW s, Lista(s), NEW t, Lista(t)
  PROVE  /\ Lista(s \o t) /\ s \o <<>> = s
         /\ \A x : s \o Append(t, x) = Append(s \o t, x)
<1>1. PICK C : s \in Seq(C) /\ t \in Seq(C)
  BY ListaInsieme
<1>2. s \o t \in Seq(C) /\ s \o <<>> = s
  BY <1>1, ConcatProperties, ConcatEmptySeq
<1>3. ASSUME NEW x PROVE s \o Append(t, x) = Append(s \o t, x)
  <2> DEFINE D == C \cup {x}
  <2>1. s \in Seq(D) /\ t \in Seq(D) /\ s \o t \in Seq(D) /\ x \in D
    <3>1. Seq(C) \subseteq Seq(D)
      BY SeqMonotonic
    <3> QED
      BY <1>1, <1>2, <3>1
  <2> HIDE DEF D
  <2>2. <<x>> \in Seq(D)
    BY <2>1
  <2>3. Append(t, x) = t \o <<x>>
    BY <2>1, AppendIsConcat
  <2>4. Append(s \o t, x) = (s \o t) \o <<x>>
    BY <2>1, AppendIsConcat
  <2>5. (s \o t) \o <<x>> = s \o (t \o <<x>>)
    BY <2>1, <2>2, ConcatAssociative
  <2> QED
    BY <2>3, <2>4, <2>5
<1> QED
  BY <1>2, <1>3, ListaDi

\* A list from its beginning, one member after the other.
LEMMA Prefissi ==
  ASSUME NEW b, Lista(b)
  PROVE  /\ Len(b) \in Nat /\ SubSeq(b, 1, 0) = <<>> /\ SubSeq(b, 1, Len(b)) = b
         /\ \A k \in 1 .. Len(b) :
              Lista(SubSeq(b, 1, k - 1)) /\ SubSeq(b, 1, k) = Append(SubSeq(b, 1, k - 1), b[k])
<1>1. Len(b) \in Nat
  BY ListaTipo
<1>2. SubSeq(b, 1, 0) = <<>>
  BY SubSeqEmpty
<1>3. SubSeq(b, 1, Len(b)) = b
  <2>1. b \in Seq({b[i] : i \in DOMAIN b})
    BY DEF Lista
  <2> QED
    BY <2>1, SubSeqFull
<1>4. ASSUME NEW k \in 1 .. Len(b)
      PROVE  Lista(SubSeq(b, 1, k - 1)) /\ SubSeq(b, 1, k) = Append(SubSeq(b, 1, k - 1), b[k])
  <2>1. k - 1 \in Int /\ 1 \in Int /\ k - 1 <= Len(b) /\ 1 <= (k - 1) + 1 /\ 1 \in 1 .. k
    BY <1>1
  <2>2. Lista(SubSeq(b, 1, k - 1))
    BY <2>1, Parte
  <2> QED
    BY <2>1, <2>2, ParteAvanti
<1> QED
  BY <1>1, <1>2, <1>3, <1>4

\* A word put at the end, without its separator.
LEMMA DopoParola ==
  ASSUME NEW t, Lista(t), NEW S, Sospeso(t, S, <<>>), NEW b, Lista(b), \A k \in 1 .. Len(b) : b[k] \notin S
  PROVE  Uguali(S, t, t \o b, b)
<1> DEFINE n == Len(b)
           Q(k) == SubSeq(b, 1, k)
           G == {k \in 0 .. n : Uguali(S, t, t \o Q(k), Q(k))}
<1>1. n \in Nat /\ Q(0) = <<>> /\ Q(n) = b
  BY Prefissi
<1>2. 0 \in G
  <2>1. t \o <<>> = t
    BY ListaConcat, ListaVuota
  <2>2. Uguali(S, t, t, <<>>)
    BY DEF Uguali
  <2> HIDE DEF Q
  <2>3. 0 \in 0 .. n
    BY <1>1
  <2>4. Uguali(S, t, t \o Q(0), Q(0))
    BY <1>1, <2>1, <2>2, Zenon
  <2> HIDE DEF n
  <2> QED
    BY <2>3, <2>4
<1>3. ASSUME NEW k \in 1 .. n, k - 1 \in G PROVE k \in G
  <2> DEFINE c == Q(k - 1)
             u == t \o c
             ch == b[k]
  <2>1. Lista(c) /\ Q(k) = Append(c, ch) /\ k \in 0 .. n
    BY <1>1, Prefissi
  <2>2. Uguali(S, t, u, c)
    BY <1>3
  <2>3. ch \notin S
    OBVIOUS
  <2> HIDE DEF c, ch
  <2>4. t \o Append(c, ch) = Append(u, ch)
    BY <2>1, ListaConcat
  <2> HIDE DEF u
  <2>5. Lista(u) /\ Sospeso(u, S, c)
    BY <2>2 DEF Uguali
  <2> DEFINE z == Append(u, ch)
  <2>6. z = Append(u, ch)
    OBVIOUS
  <2>7. Lista(z)
    BY <2>5, ListaAppend
  <2> HIDE DEF z
  <2>8. Uguali(S, u, z, Append(c, ch))
    BY <2>3, <2>5, <2>6, DopoLettera
  <2>9. Uguali(S, t, z, Append(c, ch))
    BY <2>2, <2>7, <2>8 DEF Uguali
  <2> HIDE DEF Q
  <2> QED
    BY <2>1, <2>4, <2>6, <2>9
<1>4. n \in G
  <2> HIDE DEF G, n
  <2>1. \A k \in 0 .. n : k \in G
    BY <1>1, <1>2, <1>3, Induzione
  <2> QED
    BY <1>1, <2>1
<1> QED
  BY <1>1, <1>4

\* Words are only added at the end.
Inizia(p, q) == Lista(p) /\ Lista(q) /\ Len(p) <= Len(q) /\ \A i \in 1 .. Len(p) : p[i] = q[i]

LEMMA IniziaTransitiva ==
  ASSUME NEW p, NEW q, NEW r, Inizia(p, q), Inizia(q, r)
  PROVE  Inizia(p, r)
<1>1. Len(p) \in Nat /\ Len(q) \in Nat /\ Len(r) \in Nat
  BY ListaTipo DEF Inizia
<1> QED
  BY <1>1 DEF Inizia

LEMMA IniziaStessa ==
  ASSUME NEW p, Lista(p)
  PROVE  Inizia(p, p) /\ \A x : Inizia(p, Append(p, x))
<1>1. Len(p) \in Nat
  BY ListaTipo
<1>2. ASSUME NEW x PROVE Inizia(p, Append(p, x))
  <2>1. Lista(Append(p, x)) /\ Len(Append(p, x)) = Len(p) + 1 /\ \A i \in 1 .. Len(p) : Append(p, x)[i] = p[i]
    BY ListaAppend
  <2> QED
    BY <1>1, <2>1 DEF Inizia
<1> QED
  BY <1>1, <1>2 DEF Inizia

LEMMA ParoleCrescono ==
  ASSUME NEW t, Lista(t), NEW S, NEW W, NEW ch
  PROVE  Inizia(ParoleSenza(t, S, W), ParoleSenza(Append(t, ch), S, W))
<1> DEFINE p == ParoleSenza(t, S, W)
<1>1. Lista(p)
  BY ParoleLista
<1>2. Inizia(p, p) /\ \A x : Inizia(p, Append(p, x))
  BY <1>1, IniziaStessa
<1>3. PICK v : Sospeso(t, S, v)
  BY SospesoEsiste
<1>4. PICK u : u = Append(t, ch)
  OBVIOUS
<1>5. CASE ch \in S
  <2>1. Segue(S, t, v, u)
    BY <1>3, <1>4, <1>5, DopoSeparatore
  <2>2. ParoleSenza(u, S, W) \in {p, Append(p, v)}
    BY <2>1 DEF Segue
  <2> QED
    BY <1>2, <1>4, <2>2
<1>6. CASE ch \notin S
  <2>1. Uguali(S, t, u, Append(v, ch))
    BY <1>3, <1>4, <1>6, DopoLettera
  <2> QED
    BY <1>2, <1>4, <2>1 DEF Uguali
<1> QED
  BY <1>5, <1>6

LEMMA ParolePrime ==
  ASSUME NEW t, Lista(t), NEW S, NEW W, NEW b, Lista(b)
  PROVE  Lista(t \o b) /\ Inizia(ParoleSenza(t, S, W), ParoleSenza(t \o b, S, W))
<1> DEFINE n == Len(b)
           Q(k) == SubSeq(b, 1, k)
           p == ParoleSenza(t, S, W)
           G == {k \in 0 .. n : Lista(t \o Q(k)) /\ Inizia(p, ParoleSenza(t \o Q(k), S, W))}
<1>1. n \in Nat /\ Q(0) = <<>> /\ Q(n) = b
  BY Prefissi
<1>2. 0 \in G
  <2>1. t \o <<>> = t
    BY ListaConcat, ListaVuota
  <2>2. Lista(p)
    BY ParoleLista
  <2>3. Inizia(p, p)
    BY <2>2, IniziaStessa
  <2> HIDE DEF Q, p
  <2>4. 0 \in 0 .. n
    BY <1>1
  <2>5. Lista(t \o Q(0)) /\ Inizia(p, ParoleSenza(t \o Q(0), S, W))
    BY <1>1, <2>1, <2>3, Zenon DEF p
  <2> HIDE DEF n
  <2> QED
    BY <2>4, <2>5
<1>3. ASSUME NEW k \in 1 .. n, k - 1 \in G PROVE k \in G
  <2> DEFINE c == Q(k - 1)
             u == t \o c
             ch == b[k]
  <2>1. Lista(c) /\ Q(k) = Append(c, ch) /\ k \in 0 .. n
    BY <1>1, Prefissi
  <2>2. Lista(u) /\ Inizia(p, ParoleSenza(u, S, W))
    BY <1>3
  <2> HIDE DEF c, ch
  <2>3. t \o Append(c, ch) = Append(u, ch)
    BY <2>1, ListaConcat
  <2> HIDE DEF u, p
  <2>4. Lista(Append(u, ch))
    BY <2>2, ListaAppend
  <2>5. Inizia(ParoleSenza(u, S, W), ParoleSenza(Append(u, ch), S, W))
    BY <2>2, ParoleCrescono
  <2>6. Inizia(p, ParoleSenza(Append(u, ch), S, W))
    BY <2>2, <2>5, IniziaTransitiva
  <2> HIDE DEF Q
  <2> QED
    BY <2>1, <2>3, <2>4, <2>6
<1>4. n \in G
  <2> HIDE DEF G, n
  <2>1. \A k \in 0 .. n : k \in G
    BY <1>1, <1>2, <1>3, Induzione
  <2> QED
    BY <1>1, <2>1
<1> QED
  BY <1>1, <1>4

-----------------------------------------------------------------------------
(* A word taken away: the words left, and how often it was there. *)

LEMMA VolteTipo ==
  ASSUME NEW t, Lista(t), NEW S, NEW w
  PROVE  Volte(t, S, w) \in Nat
<1> DEFINE I == {ij \in Intervalli(t, S) : SubSeq(t, ij[1], ij[2] - 1) = w}
<1>1. I \subseteq Intervalli(t, S)
  OBVIOUS
<1> HIDE DEF I
<1>2. IsFiniteSet(I)
  BY <1>1, IntervalliTipo, FS_Subset
<1>3. Cardinality(I) \in Nat
  BY <1>2, FS_CardinalityType
<1> QED
  BY <1>3 DEF Volte, I

\* The text u is t without the word p.
Senza(S, p, t, u) ==
  /\ Lista(u) /\ \A W : ParoleSenza(u, S, W) = ParoleSenza(t, S, W \cup {p})
  /\ \A w : w # <<>> => Volte(u, S, w) = IF w = p THEN 0 ELSE Volte(t, S, w)

\* The loop has gone through t.
Levata(S, p, t, a) ==
  /\ Senza(S, p, t, a.esce) /\ Sospeso(a.esce, S, <<>>) /\ Sospeso(t, S, a.buffer)
  /\ Lista(a.buffer) /\ \A k \in 1 .. Len(a.buffer) : a.buffer[k] \notin S
  /\ a.ris = Volte(t, S, p)

LEMMA SeparatoreInPiu ==
  ASSUME NEW S, NEW p, NEW t, NEW u, Senza(S, p, t, u), Sospeso(u, S, <<>>), NEW ch \in S
  PROVE  Senza(S, p, t, Append(u, ch)) /\ Sospeso(Append(u, ch), S, <<>>)
<1> DEFINE x == Append(u, ch)
<1>1. x = Append(u, ch)
  OBVIOUS
<1> HIDE DEF x
<1>2. Segue(S, u, <<>>, x)
  BY <1>1, DopoSeparatore DEF Senza
<1>3. \A w : w # <<>> => Volte(x, S, w) = Volte(u, S, w)
  <2>1. \A w : Volte(u, S, w) \in Nat
    BY VolteTipo DEF Senza
  <2> QED
    BY <1>2, <2>1 DEF Segue
<1>4. \A W : ParoleSenza(x, S, W) = ParoleSenza(u, S, W)
  BY <1>2 DEF Segue
<1> QED
  BY <1>1, <1>2, <1>3, <1>4 DEF Senza, Segue

\* A character that separates nothing.
LEMMA LevataLettera ==
  ASSUME NEW S, NEW p, NEW t, Lista(t), NEW a, Levata(S, p, t, a), NEW ch, ch \notin S,
         NEW b, b.esce = a.esce, b.buffer = Append(a.buffer, ch), b.ris = a.ris
  PROVE  Levata(S, p, Append(t, ch), b)
<1> DEFINE x == Append(t, ch)
           v == a.buffer
           y == Append(v, ch)
<1>1. x = Append(t, ch) /\ b.buffer = y
  OBVIOUS
<1>2. Lista(v) /\ Sospeso(t, S, v) /\ \A k \in 1 .. Len(v) : v[k] \notin S
  BY DEF Levata
<1>3. Len(v) \in Nat
  BY <1>2, ListaTipo
<1> HIDE DEF v
<1>4. Lista(y) /\ Len(y) = Len(v) + 1 /\ y[Len(v) + 1] = ch /\ \A k \in 1 .. Len(v) : y[k] = v[k]
  BY <1>2, ListaAppend
<1>5. Uguali(S, t, x, y)
  <2> HIDE DEF x
  <2> QED
    BY <1>1, <1>2, DopoLettera
<1> HIDE DEF x, y
<1>6. \A k \in 1 .. Len(y) : y[k] \notin S
  BY <1>2, <1>3, <1>4
<1>7. Senza(S, p, x, b.esce)
  BY <1>5 DEF Senza, Uguali, Levata
<1> QED
  BY <1>1, <1>4, <1>5, <1>6, <1>7 DEF Levata, Uguali

\* The end of the word that goes: what is written is nothing, or the separator.
LEMMA LevataParola ==
  ASSUME NEW S, NEW p, NEW t, Lista(t), NEW a, Levata(S, p, t, a), NEW ch \in S, a.buffer = p,
         NEW b, b.esce \in {a.esce, Append(a.esce, ch)}, b.buffer = <<>>, b.ris = a.ris + 1
  PROVE  Levata(S, p, Append(t, ch), b)
<1> DEFINE x == Append(t, ch)
<1>1. x = Append(t, ch)
  OBVIOUS
<1> HIDE DEF x
<1>2. Segue(S, t, p, x)
  BY <1>1, DopoSeparatore DEF Levata
<1>3. Senza(S, p, t, b.esce) /\ Sospeso(b.esce, S, <<>>)
  BY SeparatoreInPiu DEF Levata
<1>4. \A W : ParoleSenza(x, S, W \cup {p}) = ParoleSenza(t, S, W \cup {p})
  BY <1>2 DEF Segue
<1>5. \A w : w # p => Volte(x, S, w) = Volte(t, S, w)
  <2>1. \A w : Volte(t, S, w) \in Nat
    BY VolteTipo
  <2> QED
    BY <1>2, <2>1 DEF Segue
<1>6. Senza(S, p, x, b.esce)
  BY <1>3, <1>4, <1>5 DEF Senza
<1>7. b.ris = Volte(x, S, p)
  BY <1>2 DEF Segue, Levata
<1>8. Lista(<<>>) /\ Len(<<>>) = 0
  BY ListaVuota
<1> QED
  BY <1>1, <1>2, <1>3, <1>6, <1>7, <1>8 DEF Levata, Segue

\* The end of another word: it is written with the separator, once or twice.
Scritta(a, ch, b) ==
  /\ b.esce \in {Append(a.esce \o a.buffer, ch), Append(Append(a.esce \o a.buffer, ch), ch)}
  /\ b.buffer = <<>> /\ b.ris = a.ris

LEMMA LevataAltra ==
  ASSUME NEW S, NEW p, NEW t, Lista(t), NEW a, Levata(S, p, t, a), NEW ch \in S, a.buffer # p,
         NEW b, Scritta(a, ch, b)
  PROVE  Levata(S, p, Append(t, ch), b)
<1> DEFINE x == Append(t, ch)
           v == a.buffer
           e == a.esce
           d == e \o v
           c == Append(d, ch)
<1>1. /\ x = Append(t, ch) /\ c = Append(d, ch) /\ b.ris = Volte(t, S, p)
      /\ d = e \o v /\ b.esce \in {c, Append(c, ch)} /\ b.buffer = <<>>
  BY DEF Levata, Scritta
<1>2. /\ Senza(S, p, t, e) /\ Lista(e) /\ Sospeso(e, S, <<>>) /\ Sospeso(t, S, v) /\ v # p
      /\ Lista(v) /\ \A k \in 1 .. Len(v) : v[k] \notin S
  BY DEF Levata, Senza
<1> HIDE DEF x, v, e
<1>3. Uguali(S, e, d, v)
  <2>1. Uguali(S, e, e \o v, v)
    BY <1>2, DopoParola
  <2> QED
    BY <1>1, <2>1
<1> HIDE DEF c
<1>4. Segue(S, d, v, c)
  BY <1>1, <1>3, DopoSeparatore DEF Uguali
<1>5. Segue(S, t, v, x)
  BY <1>1, <1>2, DopoSeparatore
<1>6. ASSUME NEW W PROVE ParoleSenza(c, S, W) = ParoleSenza(x, S, W \cup {p})
  <2>1. ParoleSenza(d, S, W) = ParoleSenza(t, S, W \cup {p})
    BY <1>2, <1>3 DEF Uguali, Senza
  <2>2. ParoleSenza(c, S, W) = IF v = <<>> \/ v \in W THEN ParoleSenza(d, S, W) ELSE Append(ParoleSenza(d, S, W), v)
    BY <1>4 DEF Segue
  <2>3. ParoleSenza(x, S, W \cup {p}) = IF v = <<>> \/ v \in W \cup {p} THEN ParoleSenza(t, S, W \cup {p})
                                        ELSE Append(ParoleSenza(t, S, W \cup {p}), v)
    BY <1>5 DEF Segue
  <2> QED
    BY <1>2, <2>1, <2>2, <2>3
<1>7. ASSUME NEW w, w # <<>> PROVE Volte(c, S, w) = IF w = p THEN 0 ELSE Volte(x, S, w)
  <2>1. Volte(d, S, w) = IF w = p THEN 0 ELSE Volte(t, S, w)
    BY <1>2, <1>3, <1>7 DEF Uguali, Senza
  <2>2. Volte(c, S, w) = Volte(d, S, w) + (IF v = w THEN 1 ELSE 0)
    BY <1>4 DEF Segue
  <2>3. Volte(x, S, w) = Volte(t, S, w) + (IF v = w THEN 1 ELSE 0)
    BY <1>5 DEF Segue
  <2>4. CASE w = p
    BY <1>2, <2>1, <2>2, <2>4
  <2>5. CASE w # p
    BY <2>1, <2>2, <2>3, <2>5
  <2> QED
    BY <2>4, <2>5
<1>8. Senza(S, p, x, c) /\ Sospeso(c, S, <<>>)
  BY <1>4, <1>6, <1>7 DEF Senza, Segue
<1>9. Senza(S, p, x, b.esce) /\ Sospeso(b.esce, S, <<>>)
  BY <1>1, <1>8, SeparatoreInPiu
<1>10. b.ris = Volte(x, S, p)
  <2>1. Volte(x, S, p) = Volte(t, S, p) + 0
    BY <1>2, <1>5 DEF Segue
  <2>2. Volte(t, S, p) \in Nat
    BY VolteTipo
  <2> QED
    BY <1>1, <2>1, <2>2
<1>11. Lista(<<>>) /\ Len(<<>>) = 0
  BY ListaVuota
<1> QED
  BY <1>1, <1>5, <1>9, <1>10, <1>11 DEF Levata, Segue

LEMMA LevataInizio ==
  ASSUME NEW S, NEW p, NEW a, a.esce = <<>>, a.buffer = <<>>, a.ris = 0
  PROVE  Levata(S, p, <<>>, a)
<1>1. Lista(<<>>) /\ Len(<<>>) = 0
  BY ListaVuota
<1>2. /\ Sospeso(<<>>, S, <<>>)
      /\ \A W : ParoleSenza(<<>>, S, W) = <<>>
      /\ \A w : Volte(<<>>, S, w) = 0
  BY TestoVuoto
<1>3. Senza(S, p, <<>>, <<>>)
  BY <1>1, <1>2 DEF Senza
<1> QED
  BY <1>1, <1>2, <1>3 DEF Levata

\* The loop of server_select.
CicloElimina(p, A, base, n, t, parola) ==
  /\ p \in [0 .. n -> A] /\ p[0] = base /\ p[n] = FoldLeft(LAMBDA a, ch : EliminaCarattere(a, ch, parola), base, t)
  /\ \A k \in 1 .. n : p[k] = EliminaCarattere(p[k - 1], t[k], parola)

LEMMA PassiElimina ==
  ASSUME NEW A, NEW base \in A, NEW n \in Nat, NEW t, DOMAIN t = 1 .. n, NEW parola,
         \A a \in A, k \in 1 .. n : EliminaCarattere(a, t[k], parola) \in A
  PROVE  \E p : CicloElimina(p, A, base, n, t, parola)
<1> DEFINE g == [x \in A \X (1 .. n) |-> EliminaCarattere(x[1], t[x[2]], parola)]
           D(f) == [s \in SUBSET (1 .. n) |->
                      IF s = {} THEN base ELSE EliminaCarattere(f[s \ {Max(s)}], t[Max(s)], parola)]
           it == CHOOSE f : f = D(f)
<1>1. \A a \in A, k \in 1 .. n : g[<<a, k>>] = EliminaCarattere(a, t[k], parola)
  OBVIOUS
<1>2. g \in [A \X (1 .. n) -> A]
  OBVIOUS
<1> HIDE DEF g
<1>3. \A s \in SUBSET (1 .. n) : s # {} =>
        Max(s) \in 1 .. n /\ s \ {Max(s)} \in SUBSET (1 .. n)
  BY MassimoDi
<1>4. PICK h \in [SUBSET (1 .. n) -> A] : Piega(h, A, base, n, g)
  BY <1>2, PiegaEsiste
<1>5. h = D(h)
  BY <1>1, <1>3, <1>4 DEF Piega
<1>6. it = D(it)
  <2> HIDE DEF D
  <2> QED
    BY <1>5
<1>7. FoldLeft(LAMBDA a, ch : EliminaCarattere(a, ch, parola), base, t) = it[1 .. n]
  BY Zenon DEF FoldLeft, MapThenFoldSet
<1> HIDE DEF it
<1>8. Piega(it, A, base, n, g)
  BY <1>1, <1>3, <1>6 DEF Piega
<1> HIDE DEF D
<1>9. PICK p : Passi(p, it, A, base, n, g)
  BY <1>2, <1>8, PiegaPassi
<1>10. ASSUME NEW k \in 1 .. n PROVE p[k] = EliminaCarattere(p[k - 1], t[k], parola)
  <2>1. k - 1 \in 0 .. n
    OBVIOUS
  <2>2. p[k] = g[<<p[k - 1], k>>] /\ p[k - 1] \in A
    BY <1>9, <2>1 DEF Passi
  <2> QED
    BY <1>1, <2>2
<1> QED
  BY <1>7, <1>9, <1>10 DEF Passi, CicloElimina

LEMMA Caratteri ==
  ASSUME NEW x
  PROVE  Lista(<<x>>) /\ Append(<<>>, x) = <<x>> /\ Append(<<x>>, x) = <<x, x>>
<1> DEFINE s == <<x>>
           d == <<x, x>>
<1>1. s \in Seq({x}) /\ d \in Seq({x}) /\ <<>> \in Seq({x})
  OBVIOUS
<1>2. Len(s) = 1 /\ Len(d) = 2 /\ s[1] = x /\ d[1] = x /\ d[2] = x
  OBVIOUS
<1> HIDE DEF s, d
<1>3. Lista(s) /\ Lista(d) /\ Lista(<<>>) /\ Len(<<>>) = 0
  BY <1>1, ListaDi, ListaVuota
<1>4. Lista(Append(s, x)) /\ Len(Append(s, x)) = 2 /\ Append(s, x)[1] = x /\ Append(s, x)[2] = x
  <2>1. /\ Lista(Append(s, x)) /\ Len(Append(s, x)) = Len(s) + 1 /\ Append(s, x)[Len(s) + 1] = x
        /\ \A i \in 1 .. Len(s) : Append(s, x)[i] = s[i]
    BY <1>3, ListaAppend
  <2> QED
    BY <1>2, <2>1
<1>5. Append(s, x) = d
  <2>1. \A i \in 1 .. 2 : i = 1 \/ i = 2
    OBVIOUS
  <2> QED
    BY <1>2, <1>3, <1>4, <2>1, ListeUguali
<1>6. Append(<<>>, x) = s
  <2> DEFINE z == <<>>
             y == Append(z, x)
  <2>1. Lista(z) /\ Len(z) = 0
    BY <1>3
  <2> HIDE DEF z
  <2>2. Lista(Append(z, x)) /\ Len(Append(z, x)) = Len(z) + 1 /\ Append(z, x)[Len(z) + 1] = x
    BY <2>1, ListaAppend
  <2>3. Lista(y) /\ Len(y) = 1 /\ y[1] = x
    BY <2>1, <2>2
  <2> HIDE DEF y
  <2>4. \A i \in 1 .. 1 : i = 1
    OBVIOUS
  <2>5. y = s
    BY <1>2, <1>3, <2>3, <2>4, ListeUguali
  <2> QED
    BY <2>5 DEF y, z
<1> QED
  BY <1>3, <1>5, <1>6 DEF s, d

LEMMA EliminaPasso ==
  ASSUME NEW p, NEW t, Lista(t), NEW a, Levata(Separatori, p, t, a), NEW ch
  PROVE  Levata(Separatori, p, Append(t, ch), EliminaCarattere(a, ch, p))
<1> DEFINE b == EliminaCarattere(a, ch, p)
<1>1. CASE ch \notin Separatori
  <2>1. b.esce = a.esce /\ b.buffer = Append(a.buffer, ch) /\ b.ris = a.ris
    BY <1>1 DEF EliminaCarattere
  <2> HIDE DEF b
  <2>2. Levata(Separatori, p, Append(t, ch), b)
    BY <1>1, <2>1, LevataLettera
  <2> QED
    BY <2>2 DEF b
<1>2. CASE ch \in Separatori /\ a.buffer = p
  <2>1. b.esce \in {a.esce, Append(a.esce, ch)} /\ b.buffer = <<>> /\ b.ris = a.ris + 1
    BY <1>2 DEF EliminaCarattere
  <2> HIDE DEF b
  <2>2. Levata(Separatori, p, Append(t, ch), b)
    BY <1>2, <2>1, LevataParola
  <2> QED
    BY <2>2 DEF b
<1>3. CASE ch \in Separatori /\ a.buffer # p
  <2> DEFINE e == a.esce \o a.buffer
             c == Append(e, ch)
  <2>1. b.esce = e \o <<ch, ch>> /\ b.buffer = <<>> /\ b.ris = a.ris
    BY <1>3 DEF EliminaCarattere
  <2>2. e \o <<ch, ch>> = Append(c, ch)
    <3>1. Lista(a.esce) /\ Lista(a.buffer)
      BY DEF Levata, Senza
    <3>2. Lista(e) /\ Lista(<<>>) /\ e \o <<>> = e
      BY <3>1, ListaConcat, ListaVuota
    <3> HIDE DEF e
    <3>3. Lista(<<ch>>) /\ <<ch>> = Append(<<>>, ch) /\ <<ch, ch>> = Append(<<ch>>, ch)
      BY Caratteri
    <3>4. e \o Append(<<>>, ch) = Append(e, ch)
      BY <3>2, ListaConcat
    <3>5. e \o Append(<<ch>>, ch) = Append(e \o <<ch>>, ch)
      BY <3>2, <3>3, ListaConcat
    <3> QED
      BY <3>3, <3>4, <3>5
  <2>3. b.esce \in {Append(a.esce \o a.buffer, ch), Append(Append(a.esce \o a.buffer, ch), ch)}
    BY <2>1, <2>2
  <2> HIDE DEF b, c, e
  <2>4. Levata(Separatori, p, Append(t, ch), b)
    <3>1. ch \in Separatori /\ a.buffer # p
      BY <1>3
    <3>2. Scritta(a, ch, b)
      BY <2>1, <2>3 DEF Scritta
    <3> QED
      BY <3>1, <3>2, LevataAltra
  <2> QED
    BY <2>4 DEF b
<1> QED
  BY <1>1, <1>2, <1>3

LEMMA TogliParola ==
  ASSUME NEW p, NEW t, Lista(t), NEW a, Levata(Bianchi, p, t, a), NEW ch
  PROVE  Levata(Bianchi, p, Append(t, ch), TogliCarattere(a, ch, p))
<1> DEFINE b == TogliCarattere(a, ch, p)
<1>1. CASE ch \notin Bianchi
  <2>1. b.esce = a.esce /\ b.buffer = Append(a.buffer, ch) /\ b.ris = a.ris
    BY <1>1 DEF TogliCarattere
  <2> HIDE DEF b
  <2>2. Levata(Bianchi, p, Append(t, ch), b)
    BY <1>1, <2>1, LevataLettera
  <2> QED
    BY <2>2 DEF b
<1>2. CASE ch \in Bianchi /\ a.buffer = p
  <2>1. b.esce \in {a.esce, Append(a.esce, ch)} /\ b.buffer = <<>> /\ b.ris = a.ris + 1
    BY <1>2 DEF TogliCarattere
  <2> HIDE DEF b
  <2>2. Levata(Bianchi, p, Append(t, ch), b)
    BY <1>2, <2>1, LevataParola
  <2> QED
    BY <2>2 DEF b
<1>3. CASE ch \in Bianchi /\ a.buffer # p
  <2> DEFINE c == Append(a.esce \o a.buffer, ch)
  <2>1. b.esce = c /\ b.buffer = <<>> /\ b.ris = a.ris
    <3>1. b.esce = (a.esce \o a.buffer) \o <<ch>> /\ b.buffer = <<>> /\ b.ris = a.ris
      BY <1>3 DEF TogliCarattere
    <3>2. (a.esce \o a.buffer) \o <<ch>> = c
      <4>1. Lista(a.esce \o a.buffer)
        BY ListaConcat DEF Levata, Senza
      <4>2. PICK e : e = a.esce \o a.buffer
        OBVIOUS
      <4>3. <<ch>> = Append(<<>>, ch)
        BY Caratteri
      <4>4. PICK z : z = <<>>
        OBVIOUS
      <4>5. Lista(e) /\ Lista(z) /\ e \o <<>> = e
        BY <4>1, <4>2, <4>4, ListaConcat, ListaVuota
      <4>6. e \o Append(z, ch) = Append(e \o z, ch)
        BY <4>5, ListaConcat
      <4> QED
        BY <4>2, <4>3, <4>4, <4>5, <4>6
    <3> QED
      BY <3>1, <3>2
  <2>2. b.esce \in {Append(a.esce \o a.buffer, ch), Append(Append(a.esce \o a.buffer, ch), ch)}
    BY <2>1
  <2> HIDE DEF b, c
  <2>3. Levata(Bianchi, p, Append(t, ch), b)
    <3>1. ch \in Bianchi /\ a.buffer # p
      BY <1>3
    <3>2. Scritta(a, ch, b)
      BY <2>1, <2>2 DEF Scritta
    <3> QED
      BY <3>1, <3>2, LevataAltra
  <2> QED
    BY <2>3 DEF b
<1> QED
  BY <1>1, <1>2, <1>3

\* server_select leaves the text without the word, of the same characters.
LEMMA EliminaGiusta ==
  ASSUME NEW t, Lista(t), NEW parola
  PROVE  /\ Senza(Separatori, parola, t, EliminaParola(t, parola).esce)
         /\ EliminaParola(t, parola).esce \in Seq({t[i] : i \in DOMAIN t})
         /\ EliminaParola(t, parola).ris = Volte(t, Separatori, parola)
<1> DEFINE n == Len(t)
           C == {t[i] : i \in DOMAIN t}
           A == [esce : Seq(C), buffer : Seq(C), ris : Nat]
           base == [esce |-> <<>>, buffer |-> <<>>, ris |-> 0]
           f == FoldLeft(LAMBDA a, ch : EliminaCarattere(a, ch, parola), base, t)
           e == EliminaParola(t, parola)
           Q(k) == SubSeq(t, 1, k)
<1>1. n \in Nat /\ DOMAIN t = 1 .. n /\ \A k \in 1 .. n : t[k] \in C
  BY ListaTipo
<1>2. <<>> \in Seq(C)
  BY EmptySeq
<1>3. base \in A /\ base.esce = <<>> /\ base.buffer = <<>> /\ base.ris = 0
  <2> HIDE DEF C
  <2> QED
    BY <1>2
<1>4. e.esce = f.esce /\ e.ris = f.ris
  BY DEF EliminaParola
<1> HIDE DEF C, base, e
<1>5. ASSUME NEW a \in A, NEW k \in 1 .. n PROVE EliminaCarattere(a, t[k], parola) \in A
  <2>1. a.esce \in Seq(C) /\ a.buffer \in Seq(C) /\ a.ris \in Nat /\ t[k] \in C /\ <<>> \in Seq(C)
    BY <1>1, <1>2
  <2>2. Append(a.buffer, t[k]) \in Seq(C) /\ Append(a.esce, t[k]) \in Seq(C)
    BY <2>1, AppendProperties
  <2>3. a.esce \o a.buffer \in Seq(C) /\ <<t[k], t[k]>> \in Seq(C)
    BY <2>1, ConcatProperties
  <2>4. (a.esce \o a.buffer) \o <<t[k], t[k]>> \in Seq(C)
    BY <2>3, ConcatProperties
  <2>5. a.ris + 1 \in Nat
    BY <2>1
  <2> QED
    BY <2>1, <2>2, <2>4, <2>5 DEF EliminaCarattere
<1>6. PICK p : CicloElimina(p, A, base, n, t, parola)
  <2> HIDE DEF A
  <2> QED
    BY <1>1, <1>3, <1>5, PassiElimina
<1>7. /\ p \in [0 .. n -> A] /\ p[0] = base /\ p[n] = f
      /\ \A k \in 1 .. n : p[k] = EliminaCarattere(p[k - 1], t[k], parola)
  BY <1>6 DEF CicloElimina
<1> HIDE DEF f
<1>8. f.esce \in Seq(C)
  <2>1. p \in [0 .. n -> A] /\ n \in 0 .. n /\ p[n] = f
    BY <1>1, <1>7
  <2>2. f \in A
    <3> HIDE DEF A, n
    <3> QED
      BY <2>1
  <2> QED
    BY <2>2
<1> HIDE DEF A
<1>9. Q(0) = <<>> /\ Q(n) = t /\ \A k \in 1 .. n : Lista(Q(k - 1)) /\ Q(k) = Append(Q(k - 1), t[k])
  BY Prefissi
<1> HIDE DEF Q
<1> DEFINE G == {k \in 0 .. n : Levata(Separatori, parola, Q(k), p[k])}
<1>10. 0 \in G
  <2>1. Levata(Separatori, parola, <<>>, base)
    BY <1>3, LevataInizio
  <2>2. Levata(Separatori, parola, Q(0), p[0])
    BY <1>7, <1>9, <2>1, Zenon
  <2> QED
    BY <1>1, <2>2
<1>11. ASSUME NEW k \in 1 .. n, k - 1 \in G PROVE k \in G
  <2>1. Levata(Separatori, parola, Q(k - 1), p[k - 1]) /\ Lista(Q(k - 1)) /\ k \in 0 .. n
    BY <1>1, <1>9, <1>11
  <2>2. Levata(Separatori, parola, Append(Q(k - 1), t[k]), EliminaCarattere(p[k - 1], t[k], parola))
    BY <2>1, EliminaPasso
  <2>3. Levata(Separatori, parola, Q(k), p[k])
    BY <1>7, <1>9, <2>2
  <2> QED
    BY <2>1, <2>3
<1>12. n \in G
  <2> HIDE DEF G, n
  <2>1. \A k \in 0 .. n : k \in G
    BY <1>1, <1>10, <1>11, Induzione
  <2> QED
    BY <1>1, <2>1
<1>13. Levata(Separatori, parola, t, f)
  BY <1>7, <1>9, <1>12
<1>14. Senza(Separatori, parola, t, f.esce) /\ f.ris = Volte(t, Separatori, parola)
  BY <1>13 DEF Levata
<1> QED
  BY <1>4, <1>8, <1>14 DEF e, C

\* server.c does when the end of the file ends a word, and whatever follows
\* what it has written the words that had an end come first.
LEMMA TogliGiusta ==
  ASSUME NEW t, Lista(t), NEW parola
  PROVE  /\ Senza(Bianchi, parola, Append(t, Spazio), Append(elimina_parola(t, parola).esce, Spazio))
         /\ elimina_parola(t, parola).ris = Volte(Append(t, Spazio), Bianchi, parola)
         /\ \A r, W : Lista(r) => Inizia(ParoleSenza(t, Bianchi, W \cup {parola}),
                                         ParoleSenza(elimina_parola(t, parola).esce \o r, Bianchi, W))
<1> DEFINE n == Len(t)
           C == {t[i] : i \in DOMAIN t}
           A == [esce : Seq(C), buffer : Seq(C), ris : Nat]
           base == [esce |-> <<>>, buffer |-> <<>>, ris |-> 0]
           f == FoldLeft(LAMBDA a, ch : TogliCarattere(a, ch, parola), base, t)
           e == elimina_parola(t, parola)
           Q(k) == SubSeq(t, 1, k)
<1>1. n \in Nat /\ DOMAIN t = 1 .. n /\ \A k \in 1 .. n : t[k] \in C
  BY ListaTipo
<1>2. <<>> \in Seq(C)
  BY EmptySeq
<1>3. base \in A /\ base.esce = <<>> /\ base.buffer = <<>> /\ base.ris = 0
  <2> HIDE DEF C
  <2> QED
    BY <1>2
<1>4. e = IF f.buffer = parola THEN [esce |-> f.esce, ris |-> f.ris + 1]
          ELSE [esce |-> f.esce \o f.buffer, ris |-> f.ris]
  BY DEF elimina_parola
<1> HIDE DEF C, base, e
<1>5. ASSUME NEW a \in A, NEW k \in 1 .. n PROVE TogliCarattere(a, t[k], parola) \in A
  <2>1. a.esce \in Seq(C) /\ a.buffer \in Seq(C) /\ a.ris \in Nat /\ t[k] \in C /\ <<>> \in Seq(C)
    BY <1>1, <1>2
  <2>2. Append(a.buffer, t[k]) \in Seq(C)
    BY <2>1, AppendProperties
  <2>3. a.esce \o a.buffer \in Seq(C) /\ <<t[k]>> \in Seq(C)
    BY <2>1, ConcatProperties
  <2>4. (a.esce \o a.buffer) \o <<t[k]>> \in Seq(C)
    BY <2>3, ConcatProperties
  <2>5. a.ris + 1 \in Nat
    BY <2>1
  <2> QED
    BY <2>1, <2>2, <2>4, <2>5 DEF TogliCarattere
<1> HIDE DEF A
<1>6. PICK p : CicloTogli(p, A, base, n, t, parola)
  BY <1>1, <1>3, <1>5, PassiTogli
<1>7. p[0] = base /\ p[n] = f /\ \A k \in 1 .. n : p[k] = TogliCarattere(p[k - 1], t[k], parola)
  BY <1>6 DEF CicloTogli
<1> HIDE DEF f
<1>8. Q(0) = <<>> /\ Q(n) = t /\ \A k \in 1 .. n : Lista(Q(k - 1)) /\ Q(k) = Append(Q(k - 1), t[k])
  BY Prefissi
<1> HIDE DEF Q
<1> DEFINE G == {k \in 0 .. n : Levata(Bianchi, parola, Q(k), p[k])}
<1>9. 0 \in G
  <2>1. Levata(Bianchi, parola, <<>>, base)
    BY <1>3, LevataInizio
  <2>2. Levata(Bianchi, parola, Q(0), p[0])
    BY <1>7, <1>8, <2>1, Zenon
  <2> QED
    BY <1>1, <2>2
<1>10. ASSUME NEW k \in 1 .. n, k - 1 \in G PROVE k \in G
  <2>1. Levata(Bianchi, parola, Q(k - 1), p[k - 1]) /\ Lista(Q(k - 1)) /\ k \in 0 .. n
    BY <1>1, <1>8, <1>10
  <2>2. Levata(Bianchi, parola, Append(Q(k - 1), t[k]), TogliCarattere(p[k - 1], t[k], parola))
    BY <2>1, TogliParola
  <2>3. Levata(Bianchi, parola, Q(k), p[k])
    BY <1>7, <1>8, <2>2
  <2> QED
    BY <2>1, <2>3
<1>11. n \in G
  <2> HIDE DEF G, n
  <2>1. \A k \in 0 .. n : k \in G
    BY <1>1, <1>9, <1>10, Induzione
  <2> QED
    BY <1>1, <2>1
<1>12. Levata(Bianchi, parola, t, f)
  BY <1>7, <1>8, <1>11
<1>13. /\ Senza(Bianchi, parola, t, f.esce) /\ Lista(f.esce) /\ Lista(f.buffer)
       /\ e.esce = (IF f.buffer = parola THEN f.esce ELSE f.esce \o f.buffer)
       /\ e.ris = (IF f.buffer = parola THEN f.ris + 1 ELSE f.ris)
  BY <1>4, <1>12 DEF Levata, Senza
<1> DEFINE b == TogliCarattere(f, Spazio, parola)
<1>14. Levata(Bianchi, parola, Append(t, Spazio), b) /\ Spazio \in Bianchi
  BY <1>12, TogliParola DEF Bianchi
<1>15. b.ris = e.ris
  BY <1>13, <1>14 DEF TogliCarattere
<1>16. f.buffer = parola => b.esce = e.esce
  BY <1>13, <1>14 DEF TogliCarattere
<1>17. f.buffer # parola => b.esce = Append(e.esce, Spazio)
  <2> SUFFICES ASSUME f.buffer # parola PROVE b.esce = Append(e.esce, Spazio)
    OBVIOUS
  <2> DEFINE d == f.esce \o f.buffer
  <2>1. b.esce = d \o <<Spazio>> /\ e.esce = d
    BY <1>13, <1>14 DEF TogliCarattere
  <2>2. Lista(d)
    BY <1>13, ListaConcat
  <2> HIDE DEF d, b
  <2>3. PICK z : z = <<>>
    OBVIOUS
  <2>4. Lista(z) /\ d \o z = d /\ Append(z, Spazio) = <<Spazio>>
    BY <2>2, <2>3, ListaConcat, ListaVuota, Caratteri
  <2>5. d \o Append(z, Spazio) = Append(d \o z, Spazio)
    BY <2>2, <2>4, ListaConcat
  <2> QED
    BY <2>1, <2>4, <2>5
<1> HIDE DEF b
<1>18. Senza(Bianchi, parola, Append(t, Spazio), Append(e.esce, Spazio))
  <2>1. Senza(Bianchi, parola, Append(t, Spazio), b.esce) /\ Sospeso(b.esce, Bianchi, <<>>)
    BY <1>14 DEF Levata
  <2>2. CASE f.buffer = parola
    BY <1>14, <1>16, <2>1, <2>2, SeparatoreInPiu
  <2>3. CASE f.buffer # parola
    BY <1>17, <2>1, <2>3
  <2> QED
    BY <2>2, <2>3
<1>19. e.ris = Volte(Append(t, Spazio), Bianchi, parola)
  BY <1>14, <1>15 DEF Levata
<1>20. ASSUME NEW r, NEW W, Lista(r)
       PROVE  Inizia(ParoleSenza(t, Bianchi, W \cup {parola}), ParoleSenza(e.esce \o r, Bianchi, W))
  <2>1. ParoleSenza(f.esce, Bianchi, W) = ParoleSenza(t, Bianchi, W \cup {parola})
    BY <1>13 DEF Senza
  <2>2. Lista(e.esce) /\ Inizia(ParoleSenza(f.esce, Bianchi, W), ParoleSenza(e.esce, Bianchi, W))
    <3>1. CASE f.buffer = parola
      <4>1. Lista(ParoleSenza(f.esce, Bianchi, W))
        BY <1>13, ParoleLista
      <4> QED
        BY <1>13, <3>1, <4>1, IniziaStessa
    <3>2. CASE f.buffer # parola
      BY <1>13, <3>2, ParolePrime
    <3> QED
      BY <3>1, <3>2
  <2>3. Inizia(ParoleSenza(e.esce, Bianchi, W), ParoleSenza(e.esce \o r, Bianchi, W))
    BY <1>20, <2>2, ParolePrime
  <2> QED
    BY <2>1, <2>2, <2>3, IniziaTransitiva
<1> QED
  BY <1>18, <1>19, <1>20 DEF e

-----------------------------------------------------------------------------
(* The words left after several deletions. *)

\* testo has the words of iniz that are not in V.
Rimaste(S, iniz, V, testo) ==
  /\ Lista(testo) /\ \A W : ParoleSenza(testo, S, W) = ParoleSenza(iniz, S, V \cup W)
  /\ \A w : w # <<>> => Volte(testo, S, w) = IF w \in V THEN 0 ELSE Volte(iniz, S, w)

\* Of the deletions F, the first one of a word was told how often it was there.
Risposte(S, iniz, F) ==
  \A t \in F : t.parola # <<>> =>
    t.ris = IF \E u \in F : u.parola = t.parola /\ u.volta < t.volta THEN 0 ELSE Volte(iniz, S, t.parola)

Vie(F) == {t.parola : t \in F}

Fatte(T, nome) == {t \in T : t.nome = nome}

Tolto(S, iniz, F, testo) == Rimaste(S, iniz, Vie(F), testo) /\ Risposte(S, iniz, F)

LEMMA FattaAncora ==
  ASSUME NEW T, NEW x
  PROVE  /\ Fatte(T \cup {x}, x.nome) = Fatte(T, x.nome) \cup {x}
         /\ \A nome : nome # x.nome => Fatte(T \cup {x}, nome) = Fatte(T, nome)
         /\ \A F : Vie(F \cup {x}) = Vie(F) \cup {x.parola}
BY DEF Fatte, Vie

LEMMA ToltoInizio ==
  ASSUME NEW S, NEW iniz, Lista(iniz)
  PROVE  Tolto(S, iniz, {}, iniz)
<1>1. Vie({}) = {} /\ \A W : {} \cup W = W
  BY DEF Vie
<1> QED
  BY <1>1 DEF Tolto, Rimaste, Risposte

\* One deletion more, after the others.
LEMMA ToltoAncora ==
  ASSUME NEW S, NEW iniz, NEW F, NEW testo, Tolto(S, iniz, F, testo),
         NEW x, x.volta \in Int, \A t \in F : t.volta \in Int /\ t.volta < x.volta,
         NEW u, Senza(S, x.parola, testo, u), x.ris = Volte(testo, S, x.parola)
  PROVE  Tolto(S, iniz, F \cup {x}, u)
<1> DEFINE V == Vie(F)
           p == x.parola
<1>1. Vie(F \cup {x}) = V \cup {p}
  BY FattaAncora
<1>2. Rimaste(S, iniz, V, testo) /\ Risposte(S, iniz, F) /\ Senza(S, p, testo, u)
  BY DEF Tolto
<1>3. Rimaste(S, iniz, V \cup {p}, u)
  <2> HIDE DEF V, p
  <2>1. ASSUME NEW W PROVE ParoleSenza(u, S, W) = ParoleSenza(iniz, S, (V \cup {p}) \cup W)
    <3>1. ParoleSenza(u, S, W) = ParoleSenza(testo, S, W \cup {p})
      BY <1>2 DEF Senza
    <3>2. ParoleSenza(testo, S, W \cup {p}) = ParoleSenza(iniz, S, V \cup (W \cup {p}))
      BY <1>2 DEF Rimaste
    <3>3. V \cup (W \cup {p}) = (V \cup {p}) \cup W
      OBVIOUS
    <3> QED
      BY <3>1, <3>2, <3>3
  <2>2. ASSUME NEW w, w # <<>> PROVE Volte(u, S, w) = IF w \in V \cup {p} THEN 0 ELSE Volte(iniz, S, w)
    <3>1. Volte(u, S, w) = IF w = p THEN 0 ELSE Volte(testo, S, w)
      BY <1>2, <2>2 DEF Senza
    <3>2. Volte(testo, S, w) = IF w \in V THEN 0 ELSE Volte(iniz, S, w)
      BY <1>2, <2>2 DEF Rimaste
    <3> QED
      BY <3>1, <3>2
  <2> QED
    BY <1>2, <2>1, <2>2 DEF Rimaste, Senza
<1>4. Risposte(S, iniz, F \cup {x})
  <2> DEFINE Prima(t, G) == \E v \in G : v.parola = t.parola /\ v.volta < t.volta
  <2>1. ASSUME NEW t \in F PROVE Prima(t, F \cup {x}) <=> Prima(t, F)
    <3>1. ~(x.volta < t.volta)
      <4>1. x.volta \in Int /\ t.volta \in Int /\ t.volta < x.volta
        OBVIOUS
      <4> QED
        BY <4>1
    <3> QED
      BY <3>1
  <2>2. Prima(x, F \cup {x}) <=> p \in V
    <3>1. ~(x.volta < x.volta)
      OBVIOUS
    <3> QED
      BY <3>1 DEF Vie
  <2>3. ASSUME p # <<>> PROVE x.ris = IF p \in V THEN 0 ELSE Volte(iniz, S, p)
    BY <1>2, <2>3 DEF Rimaste
  <2>4. \A t \in F : t.parola # <<>> => t.ris = IF Prima(t, F) THEN 0 ELSE Volte(iniz, S, t.parola)
    BY <1>2 DEF Risposte
  <2> HIDE DEF Prima, V
  <2>5. \A t \in F \cup {x} :
          t.parola # <<>> => t.ris = IF Prima(t, F \cup {x}) THEN 0 ELSE Volte(iniz, S, t.parola)
    BY <2>1, <2>2, <2>3, <2>4
  <2> QED
    BY <2>5 DEF Risposte, Prima
<1> QED
  BY <1>1, <1>3, <1>4 DEF Tolto

\* Where the end of a text may be spoilt, the words before it are there.
Sporcata(iniz, V, testo) ==
  Lista(testo) /\ \A W : Inizia(ParoleSenza(iniz, Bianchi, V \cup W), ParoleSenza(testo, Bianchi, W))

LEMMA SporcataInizio ==
  ASSUME NEW iniz, Lista(iniz)
  PROVE  Sporcata(iniz, {}, iniz)
<1>1. ASSUME NEW W PROVE Inizia(ParoleSenza(iniz, Bianchi, {} \cup W), ParoleSenza(iniz, Bianchi, W))
  <2>1. {} \cup W = W
    OBVIOUS
  <2>2. Inizia(ParoleSenza(iniz, Bianchi, W), ParoleSenza(iniz, Bianchi, W))
    BY ParoleLista, IniziaStessa
  <2> QED
    BY <2>1, <2>2
<1> QED
  BY <1>1 DEF Sporcata

LEMMA SporcataAncora ==
  ASSUME NEW iniz, NEW V, NEW testo, Sporcata(iniz, V, testo), NEW p, NEW r, Lista(r)
  PROVE  Sporcata(iniz, V \cup {p}, elimina_parola(testo, p).esce \o r)
<1>1. Lista(testo)
  BY DEF Sporcata
<1> DEFINE e == elimina_parola(testo, p).esce
<1>2. Lista(e)
  BY <1>1, ParolaTolta
<1>3. \A W : Inizia(ParoleSenza(testo, Bianchi, W \cup {p}), ParoleSenza(e \o r, Bianchi, W))
  BY <1>1, TogliGiusta
<1> HIDE DEF e
<1>4. Lista(e \o r)
  BY <1>2, ListaConcat
<1>5. ASSUME NEW W PROVE Inizia(ParoleSenza(iniz, Bianchi, (V \cup {p}) \cup W), ParoleSenza(e \o r, Bianchi, W))
  <2>1. Inizia(ParoleSenza(iniz, Bianchi, V \cup (W \cup {p})), ParoleSenza(testo, Bianchi, W \cup {p}))
    BY DEF Sporcata
  <2>2. V \cup (W \cup {p}) = (V \cup {p}) \cup W
    OBVIOUS
  <2>3. Inizia(ParoleSenza(testo, Bianchi, W \cup {p}), ParoleSenza(e \o r, Bianchi, W))
    BY <1>3
  <2>4. Inizia(ParoleSenza(iniz, Bianchi, (V \cup {p}) \cup W), ParoleSenza(testo, Bianchi, W \cup {p}))
    BY <2>1, <2>2
  <2> QED
    BY <2>3, <2>4, IniziaTransitiva
<1> QED
  BY <1>4, <1>5 DEF Sporcata, e

\* The words of the finished text but the last one are words of the text.
LEMMA SporcataQuasi ==
  ASSUME NEW iniz, Lista(iniz), NEW V, NEW testo, Sporcata(iniz, V, testo),
         ParoleSenza(Append(iniz, Spazio), Bianchi, V) # <<>>
  PROVE  IsPrefix(Front(ParoleSenza(Append(iniz, Spazio), Bianchi, V)),
                  ParoleSenza(Append(testo, Spazio), Bianchi, {}))
<1> DEFINE p == ParoleSenza(iniz, Bianchi, V)
           q == ParoleSenza(Append(testo, Spazio), Bianchi, {})
<1>1. PICK r : r = ParoleSenza(Append(iniz, Spazio), Bianchi, V)
  OBVIOUS
<1>2. Inizia(p, q)
  <2>1. Inizia(p, ParoleSenza(testo, Bianchi, {}))
    <3>1. Inizia(ParoleSenza(iniz, Bianchi, V \cup {}), ParoleSenza(testo, Bianchi, {}))
      BY DEF Sporcata
    <3>2. V \cup {} = V
      OBVIOUS
    <3> QED
      BY <3>1, <3>2
  <2>2. Inizia(ParoleSenza(testo, Bianchi, {}), q)
    BY ParoleCrescono DEF Sporcata
  <2> QED
    BY <2>1, <2>2, IniziaTransitiva
<1>3. \E v : r \in {p, Append(p, v)}
  <2>1. PICK v : Sospeso(iniz, Bianchi, v)
    BY SospesoEsiste
  <2>2. PICK u : u = Append(iniz, Spazio)
    OBVIOUS
  <2>3. Spazio \in Bianchi
    BY DEF Bianchi
  <2>4. Segue(Bianchi, iniz, v, u)
    BY <2>1, <2>2, <2>3, DopoSeparatore
  <2> QED
    BY <1>1, <2>2, <2>4 DEF Segue
<1> HIDE DEF p, q
<1>4. Lista(p) /\ Lista(q) /\ Len(p) <= Len(q) /\ \A i \in 1 .. Len(p) : p[i] = q[i]
  BY <1>2 DEF Inizia
<1>5. Len(p) \in Nat /\ Len(q) \in Nat
  BY <1>4, ListaTipo
<1>6. Lista(r) /\ Len(r) \in 0 .. Len(p) + 1 /\ \A i \in 1 .. Len(p) : i <= Len(r) => r[i] = p[i]
  <2>1. PICK v : r = p \/ r = Append(p, v)
    BY <1>3
  <2>2. /\ Lista(Append(p, v)) /\ Len(Append(p, v)) = Len(p) + 1
        /\ \A i \in 1 .. Len(p) : Append(p, v)[i] = p[i]
    BY <1>4, ListaAppend
  <2>3. Len(p) \in 0 .. Len(p) + 1 /\ Len(p) + 1 \in 0 .. Len(p) + 1
    BY <1>5
  <2>4. CASE r = p
    BY <1>4, <2>3, <2>4
  <2>5. CASE r = Append(p, v)
    BY <2>2, <2>3, <2>5
  <2> QED
    BY <2>1, <2>4, <2>5
<1>7. Len(r) # 0
  <2>1. r # <<>> /\ Lista(<<>>) /\ Len(<<>>) = 0
    BY <1>1, ListaVuota
  <2>2. Len(r) = 0 => r = <<>>
    BY <1>6, <2>1, ListeUguali
  <2> QED
    BY <2>1, <2>2
<1> DEFINE l == Len(r) - 1
<1>8. l \in Nat /\ l <= Len(p) /\ l <= Len(q) /\ l <= Len(r)
  <2> DEFINE lr == Len(r)
             lp == Len(p)
             lq == Len(q)
  <2>1. lr \in Int /\ lr >= 0 /\ lr <= lp + 1 /\ lr # 0 /\ lp \in Nat /\ lq \in Nat /\ lp <= lq /\ l = lr - 1
    BY <1>4, <1>5, <1>6, <1>7
  <2> HIDE DEF lr, lp, lq, l
  <2>2. l \in Nat /\ l <= lp /\ l <= lq /\ l <= lr
    BY <2>1
  <2> QED
    BY <2>2 DEF lr, lp, lq
<1>9. Front(r) = SubSeq(r, 1, l)
  BY DEF Front
<1> HIDE DEF l
<1>10. \A i \in 1 .. l : r[i] = q[i]
  BY <1>4, <1>5, <1>6, <1>8
<1>11. SubSeq(r, 1, l) = SubSeq(q, 1, l)
  BY <1>4, <1>6, <1>8, <1>10, ParteUguale
<1>12. Lista(SubSeq(r, 1, l)) /\ Len(SubSeq(r, 1, l)) = l
  <2>1. 1 \in Int /\ l \in Int /\ 1 >= 1 /\ l <= Len(r) /\ 1 <= l + 1 /\ l - 1 + 1 = l
    BY <1>8
  <2> QED
    BY <1>6, <2>1, Parte
<1> DEFINE s == SubSeq(r, 1, l)
<1>13. s = SubSeq(q, 1, l) /\ Len(s) = l /\ SubSeq(s, 1, l) = s
  <2>1. SubSeq(s, 1, Len(s)) = s
    BY <1>12, Prefissi
  <2> QED
    BY <1>11, <1>12, <2>1
<1> HIDE DEF s
<1>14. IsPrefix(s, q)
  BY <1>8, <1>13 DEF IsPrefix
<1> QED
  BY <1>1, <1>9, <1>14 DEF s, q

-----------------------------------------------------------------------------
(* What the services answer. *)

Operazioni == [op : {"+", "-", "*", "/"}, op1 : Interi, op2 : Interi]

\* The halves of an integer.
LEMMA Meta ==
  ASSUME NEW a \in 0 .. B - 1, NEW b \in 0 .. B - 1
  PROVE  /\ a * B + b \in Interi
         /\ (a * B + b) \div B = a /\ (a * B + b) % B = b
<1>1. B \in Nat \ {0}
  BY ServiziAssumption
<1>2. a * B \in Nat /\ a * B <= (B - 1) * B
  BY <1>1
<1>3. (B - 1) * B = B * B - B /\ B * B \in Nat
  BY <1>1
<1>4. a * B + b \in Interi
  BY <1>1, <1>2, <1>3 DEF Interi
<1>5. (a * B + b) \div B = a /\ (a * B + b) % B = b
  BY <1>1, <1>2, Z3
<1> QED
  BY <1>4, <1>5

LEMMA Scambiato ==
  ASSUME NEW n \in Interi
  PROVE  LET m == (n % B) * B + n \div B
         IN  m \in Interi /\ (m % B) * B + m \div B = n
<1> DEFINE a == n \div B
           b == n % B
<1>1. B \in Nat \ {0} /\ n \in Int /\ 0 <= n /\ n < B * B
  <2>1. B * B \in Int
    BY ServiziAssumption
  <2> QED
    BY <2>1, ServiziAssumption DEF Interi
<1>2. a \in Int /\ b \in 0 .. B - 1 /\ n = B * a + b
  BY <1>1
<1>3. a >= 0 /\ a < B
  BY <1>1, <1>2, Z3
<1> HIDE DEF a, b
<1>4. a \in 0 .. B - 1 /\ B * a = a * B
  BY <1>1, <1>2, <1>3
<1>5. /\ b * B + a \in Interi
      /\ (b * B + a) \div B = b /\ (b * B + a) % B = a
  BY <1>2, <1>4, Meta
<1>6. n = a * B + b
  BY <1>2, <1>4
<1> QED
  BY <1>5, <1>6 DEF a, b

\* Two conversions, on hosts of the same order, are none.
LEMMA DueVolte ==
  ASSUME NEW n \in Interi, NEW h, NEW g, ordine[h] = ordine[g]
  PROVE  /\ Byte(h, n) \in Interi /\ ntohl(h, n) \in Interi
         /\ Byte(g, Byte(h, n)) = n /\ ntohl(g, Byte(h, n)) = n /\ Byte(g, ntohl(h, n)) = n
BY Scambiato DEF Byte, ntohl

LEMMA OperaTipo ==
  ASSUME NEW op \in {"+", "-", "*", "/"}, NEW m \in Interi, NEW n \in Interi
  PROVE  Opera(op, m, n) \in Interi
<1>1. B \in Nat \ {0} /\ B * B \in Nat \ {0} /\ m \in Int /\ n \in Int
  <2>1. B \in Nat \ {0}
    BY ServiziAssumption
  <2>2. B * B \in Nat \ {0}
    BY <2>1
  <2> QED
    BY <2>1, <2>2 DEF Interi
<1>2. Con(m) \in Int /\ Con(n) \in Int /\ (n # 0 => Con(n) # 0)
  <2> DEFINE w == B * B
  <2>1. w \in Nat \ {0}
    BY <1>1
  <2>2. n < w
    BY <1>1 DEF Interi
  <2> HIDE DEF w
  <2> QED
    BY <1>1, <2>1, <2>2 DEF Con, w
<1>3. ASSUME NEW x \in Int, NEW y \in Int PROVE Div(x, y) \in Int
  <2> DEFINE u == IF x < 0 THEN -x ELSE x
             v == IF y < 0 THEN -y ELSE y
  <2>1. u \in Int /\ v \in Int /\ (y # 0 => v > 0)
    OBVIOUS
  <2> HIDE DEF u, v
  <2>2. y # 0 => u \div v \in Int
    BY <2>1
  <2> QED
    BY <2>2 DEF Div, u, v
<1>4. ASSUME NEW z \in Int PROVE Tronca(z) \in Interi
  BY <1>1, <1>4 DEF Tronca, Interi
<1>5. m + n \in Int /\ m - n \in Int /\ Con(m) * Con(n) \in Int
  BY <1>1, <1>2
<1>6. (IF n = 0 THEN 0 ELSE Div(Con(m), Con(n))) \in Int
  BY <1>2, <1>3
<1> HIDE DEF Interi
<1> QED
  BY <1>4, <1>5, <1>6 DEF Opera

\* What datagram_client makes of an answer of a server of the same byte order.
LEMMA StampaDi ==
  ASSUME NEW n \in Interi, ordine["client"] = ordine["server"]
  PROVE  Stampa(Byte("server", n)) = IF Con(n) < 0 THEN -1 ELSE Byte("server", n)
<1>1. Byte("client", Byte("server", n)) = n /\ ntohl("client", n) = Byte("server", n)
  BY DueVolte DEF Byte, ntohl
<1> QED
  BY <1>1 DEF Stampa

\* A text server.c can work on.
TestoBreve(t) == t = Assente \/ (Lista(t) /\ Len(t) + 1 < (B * B) \div 2)

\* server.c leaves one descriptor open for each deletion, and one more when it
\* finds that it is the last; it is done for when none is left.
TogliOK ==
  /\ "togli" \in DOMAIN Dischi /\ ordine["client"] = ordine["server"]
  /\ lasciati \in 0 .. FdLiberi /\ (caduto => lasciati = FdLiberi)
  /\ IsFiniteSet(tolte) /\ Cardinality(tolte) = IF lasciati = FdLiberi THEN FdLiberi - 1 ELSE lasciati
  /\ \A t \in tolte : t.volta \in 0 .. Cardinality(tolte) - 1
  /\ iniziale \in Dischi["togli"] /\ DOMAIN disco = DOMAIN iniziale
  /\ \A f \in DOMAIN disco : TestoBreve(disco[f])

\* A server that does not write has the directory it found.
StatoOK ==
  /\ servizio = "spento" =>
       domande = {} /\ arrivi = {} /\ mostrate = {} /\ tolte = {} /\ lasciati = 0 /\ ~caduto
  /\ servizio \in {"linea", "parola"} => servizio \in DOMAIN Dischi /\ disco \in Dischi[servizio]
  /\ servizio \in {"operazione", "datagram"} => servizio \in DOMAIN Dischi /\ ordine \in Ordini
  /\ servizio = "togli" => TogliOK

\* What the server has been asked, the operands as they travel.
Ammessa(q) ==
  CASE servizio \in {"linea", "parola"} -> q \in Richieste[servizio]
    [] servizio = "datagram" -> q \in Operazioni
    [] servizio = "togli" -> q.nome \in DOMAIN disco /\ "tempFile" \in DOMAIN disco
    [] OTHER -> TRUE

Esatta(r) == Ammessa(r.dom.chiede) /\ RispostaAttesa(r.dom.chiede, r.ris)

\* An answer is right from when it is sent: that a file is gone, or the
\* descriptors are, stays true.
ServiziInv ==
  /\ StatoOK
  /\ \A d \in domande : Ammessa(d.chiede)
  /\ \A r \in arrivi : Esatta(r)
  /\ \A r \in mostrate : Esatta(r)

LEMMA ServiziInizio == ServiziInit => ServiziInv
BY DEF ServiziInit, UdpInit, ServiziInv, StatoOK

\* While the server stays as it is.
LEMMA ServizioFermo ==
  ASSUME UNCHANGED <<servizio, ordine, disco, lasciati, caduto, iniziale, tolte>>
  PROVE  /\ \A q : Ammessa(q)' <=> Ammessa(q)
         /\ \A q, ris : RispostaAttesa(q, ris)' <=> RispostaAttesa(q, ris)
         /\ servizio # "spento" /\ StatoOK => StatoOK'
<1>1. ASSUME NEW q PROVE Ammessa(q)' <=> Ammessa(q)
  BY DEF Ammessa, Operazioni, Interi
<1>2. ASSUME NEW q, NEW ris PROVE TogliAtteso(q, ris)' <=> TogliAtteso(q, ris)
  <2>1. Stampa(ris)' = Stampa(ris) /\ \A n : Byte("server", n)' = Byte("server", n)
    BY DEF Stampa, Byte, ntohl
  <2> QED
    BY <2>1 DEF TogliAtteso
<1>3. ASSUME NEW q, NEW ris PROVE RispostaAttesa(q, ris)' <=> RispostaAttesa(q, ris)
  BY <1>2 DEF RispostaAttesa
<1>4. TogliOK' <=> TogliOK
  BY DEF TogliOK, TestoBreve
<1>5. servizio # "spento" /\ StatoOK => StatoOK'
  BY <1>4 DEF StatoOK, Ordini
<1> QED
  BY <1>1, <1>3, <1>5

\* A step of a client, or a datagram dropped.
LEMMA ServizioChiesto ==
  ASSUME ServiziInv, servizio # "spento",
         UNCHANGED <<servizio, ordine, disco, lasciati, caduto, iniziale, tolte>>,
         \A d \in domande' : d \in domande \/ Ammessa(d.chiede),
         arrivi' \subseteq arrivi,
         \A r \in mostrate' : r \in mostrate \/ \E s \in arrivi : r.dom = s.dom /\ r.ris = s.ris
  PROVE  ServiziInv'
<1>1. /\ \A q : Ammessa(q)' <=> Ammessa(q)
      /\ \A q, ris : RispostaAttesa(q, ris)' <=> RispostaAttesa(q, ris)
      /\ StatoOK'
  BY ServizioFermo DEF ServiziInv
<1>2. \A d \in domande' : Ammessa(d.chiede)'
  BY <1>1 DEF ServiziInv
<1>3. \A r \in arrivi' : Esatta(r)'
  BY <1>1 DEF ServiziInv, Esatta
<1>4. \A r \in mostrate' : Esatta(r)'
  BY <1>1 DEF ServiziInv, Esatta
<1> QED
  BY <1>1, <1>2, <1>3, <1>4 DEF ServiziInv

\* An answer of a server that writes nothing.
LEMMA ServizioRisponde ==
  ASSUME ServiziInv, servizio # "spento",
         UNCHANGED <<servizio, ordine, disco, lasciati, caduto, iniziale, tolte>>,
         NEW d, NEW ris, Risposta(d, ris), RispostaAttesa(d.chiede, ris)
  PROVE  ServiziInv'
<1>1. /\ \A q : Ammessa(q)' <=> Ammessa(q)
      /\ \A q, x : RispostaAttesa(q, x)' <=> RispostaAttesa(q, x)
      /\ StatoOK'
  BY ServizioFermo DEF ServiziInv
<1> DEFINE nuova == [dom |-> d, ris |-> ris]
<1>2. /\ d \in domande /\ domande' \subseteq domande /\ arrivi' = arrivi \cup {nuova} /\ mostrate' = mostrate
  BY DEF Risposta
<1>3. nuova.dom = d /\ nuova.ris = ris
  OBVIOUS
<1> HIDE DEF nuova
<1>4. Esatta(nuova)'
  BY <1>1, <1>2, <1>3 DEF ServiziInv, Esatta
<1>5. \A x \in domande' : Ammessa(x.chiede)'
  BY <1>1, <1>2 DEF ServiziInv
<1>6. \A r \in arrivi' : Esatta(r)'
  BY <1>1, <1>2, <1>4 DEF ServiziInv, Esatta
<1>7. \A r \in mostrate' : Esatta(r)'
  BY <1>1, <1>2 DEF ServiziInv, Esatta
<1> QED
  BY <1>1, <1>5, <1>6, <1>7 DEF ServiziInv

LEMMA Avviato ==
  ASSUME ServiziInv, NEW s \in DOMAIN Dischi, main(s)
  PROVE  ServiziInv'
<1>1. /\ servizio = "spento" /\ servizio' = s /\ disco' \in Dischi[s] /\ iniziale' = disco'
      /\ UNCHANGED <<domande, arrivi, mostrate, lasciati, caduto, tolte>>
  BY DEF main, udpVars
<1>2. domande = {} /\ arrivi = {} /\ mostrate = {} /\ tolte = {} /\ lasciati = 0 /\ ~caduto
  BY <1>1 DEF ServiziInv, StatoOK
<1>3. ASSUME s \in {"operazione", "datagram"} PROVE ordine' \in Ordini
  BY <1>3 DEF main
<1>4. ASSUME s = "togli" PROVE TogliOK'
  <2>1. ordine'["client"] = ordine'["server"]
    BY <1>4 DEF main
  <2>2. lasciati' \in 0 .. FdLiberi /\ lasciati' # FdLiberi /\ lasciati' = 0
    BY <1>1, <1>2, FdAssumption
  <2>3. IsFiniteSet(tolte') /\ Cardinality(tolte') = 0
    BY <1>1, <1>2, FS_EmptySet
  <2>4. \A f \in DOMAIN disco' : TestoBreve(disco'[f])
    BY <1>1, <1>4, ServiziAssumption DEF TestoBreve
  <2>5. \A f \in DOMAIN disco' : TestoBreve(disco[f])'
    BY <2>4 DEF TestoBreve
  <2> QED
    BY <1>1, <1>2, <1>4, <2>1, <2>2, <2>3, <2>5 DEF TogliOK
<1>5. StatoOK'
  BY <1>1, <1>2, <1>3, <1>4 DEF StatoOK, Ordini
<1> QED
  BY <1>1, <1>2, <1>5 DEF ServiziInv

\* The servers that read.
LEMMA LineaServita ==
  ASSUME ServiziInv, NEW d, d \in domande, LineServer(d), UNCHANGED <<servizio, ordine, caduto, iniziale>>
  PROVE  ServiziInv'
<1> DEFINE q == d.chiede
           ris == IF q.linea <= 0 THEN NonTrovata
                  ELSE IF disco[q.nome] = Assente THEN <<"File non trovato">>
                  ELSE getLine(disco[q.nome], q.linea)
<1>1. servizio = "linea" /\ UNCHANGED <<disco, lasciati, tolte>>
  BY DEF LineServer
<1>2. CASE Scarta(d)
  <2>1. /\ domande' \subseteq domande /\ arrivi' = arrivi /\ mostrate' = mostrate
    BY <1>2 DEF Scarta
  <2> QED
    BY <1>1, <2>1, ServizioChiesto
<1>3. CASE Risposta(d, ris)
  <2>1. servizio \in DOMAIN Dischi /\ disco \in Dischi[servizio] /\ q \in Richieste[servizio]
    BY <1>1 DEF ServiziInv, StatoOK, Ammessa
  <2>2. q.linea \in Int /\ q.nome \in DOMAIN disco
    BY <1>1, <2>1, ServiziAssumption
  <2>3. disco[q.nome] # Assente => Lista(disco[q.nome])
    BY <2>1, <2>2, ServiziAssumption
  <2> DEFINE n == q.linea
             t == disco[q.nome]
  <2>4. ASSUME t # Assente PROVE ris = Linea(t, n)
    <3>1. ris = IF n <= 0 THEN NonTrovata ELSE getLine(t, n)
      BY <2>4
    <3>2. n \in Int /\ Lista(t)
      BY <2>2, <2>3, <2>4
    <3> HIDE DEF ris, n, t
    <3>3. getLine(t, n) = Linea(t, n)
      BY <3>2, LineaGiusta
    <3>4. n <= 0 => getLine(t, n) = NonTrovata
      BY DEF getLine
    <3> QED
      BY <3>1, <3>3, <3>4
  <2>5. RispostaAttesa(q, ris)
    <3> HIDE DEF ris
    <3> QED
      BY <1>1, <2>4 DEF RispostaAttesa
  <2>6. servizio # "spento"
    BY <1>1
  <2> HIDE DEF ris
  <2> QED
    BY <1>1, <1>3, <2>5, <2>6, ServizioRisponde
<1> QED
  BY <1>2, <1>3 DEF LineServer

LEMMA ParolaServita ==
  ASSUME ServiziInv, NEW d, d \in domande, longest_word_server(d), UNCHANGED <<servizio, ordine, caduto, iniziale>>
  PROVE  ServiziInv'
<1> DEFINE q == d.chiede
           ris == IF disco[q] = Assente THEN -1 ELSE ParolaPiuLunga(disco[q])
<1>1. servizio = "parola" /\ servizio # "spento" /\ UNCHANGED <<disco, lasciati, tolte>> /\ Risposta(d, ris)
  BY DEF longest_word_server
<1>2. servizio \in DOMAIN Dischi /\ disco \in Dischi[servizio] /\ q \in Richieste[servizio]
  BY <1>1 DEF ServiziInv, StatoOK, Ammessa
<1>3. q \in DOMAIN disco
  BY <1>1, <1>2, ServiziAssumption
<1>4. disco[q] # Assente => Lista(disco[q])
  BY <1>2, <1>3, ServiziAssumption
<1> DEFINE t == disco[q]
<1>5. ris = IF t = Assente \/ Intervalli(t, Separatori) = {} THEN -1
            ELSE Max({ij[2] - ij[1] : ij \in Intervalli(t, Separatori)})
  <2>1. ris = IF t = Assente THEN -1 ELSE ParolaPiuLunga(t)
    OBVIOUS
  <2>2. t # Assente => Lista(t)
    BY <1>4
  <2> HIDE DEF ris, t
  <2>3. t # Assente => ParolaPiuLunga(t) = IF Intervalli(t, Separatori) = {} THEN -1
                                           ELSE Max({ij[2] - ij[1] : ij \in Intervalli(t, Separatori)})
    BY <2>2, ParolaGiusta
  <2> QED
    BY <2>1, <2>3
<1> HIDE DEF ris
<1>6. RispostaAttesa(q, ris)
  BY <1>1, <1>5 DEF RispostaAttesa
<1> QED
  BY <1>1, <1>6, ServizioRisponde

LEMMA OperazioneServita ==
  ASSUME ServiziInv, NEW d, d \in domande, OpDatagram_server(d), UNCHANGED <<servizio, ordine, caduto, iniziale>>
  PROVE  ServiziInv'
<1> DEFINE q == d.chiede
           ris == Byte("server", Opera(q.op, Operando(q.op1), Operando(q.op2)))
<1>1. servizio = "operazione" /\ servizio # "spento" /\ UNCHANGED <<disco, lasciati, tolte>> /\ Risposta(d, ris)
  BY DEF OpDatagram_server
<1>2. ordine \in Ordini
  BY <1>1 DEF ServiziInv, StatoOK
<1>3. ASSUME \A host \in DOMAIN ordine : ordine[host] = "big" PROVE ris = Opera(q.op, q.op1, q.op2)
  <2>1. ordine["server"] = "big"
    BY <1>2, <1>3 DEF Ordini
  <2> QED
    BY <2>1 DEF Byte, ntohl, Operando
<1> HIDE DEF ris
<1>4. RispostaAttesa(q, ris)
  BY <1>1, <1>3 DEF RispostaAttesa
<1> QED
  BY <1>1, <1>4, ServizioRisponde

LEMMA DatagramServito ==
  ASSUME ServiziInv, NEW d, d \in domande, serverDatagram(d), UNCHANGED <<servizio, ordine, caduto, iniziale>>
  PROVE  ServiziInv'
<1> DEFINE q == d.chiede
           o == Opera(q.op, Operando(q.op1), Operando(q.op2))
           ris == Byte("server", ntohl("server", o))
<1>1. servizio = "datagram" /\ servizio # "spento" /\ UNCHANGED <<disco, lasciati, tolte>> /\ Risposta(d, ris)
  BY DEF serverDatagram
<1>2. q \in Operazioni
  BY <1>1 DEF ServiziInv, Ammessa
<1>3. q.op \in {"+", "-", "*", "/"} /\ q.op1 \in Interi /\ q.op2 \in Interi
  BY <1>2 DEF Operazioni
<1>4. Operando(q.op1) = q.op1 /\ Operando(q.op2) = q.op2
  BY <1>3, DueVolte DEF Operando
<1>5. o = Opera(q.op, q.op1, q.op2) /\ o \in Interi
  BY <1>3, <1>4, OperaTipo
<1>6. ris = o
  <2> HIDE DEF o
  <2> QED
    BY <1>5, DueVolte
<1>7. RispostaAttesa(q, ris)
  <2> HIDE DEF o, ris
  <2> QED
    BY <1>1, <1>5, <1>6 DEF RispostaAttesa
<1> HIDE DEF ris
<1> QED
  BY <1>1, <1>7, ServizioRisponde

\* server_select writes, and of its answers nothing is said here.
LEMMA EliminaServita ==
  ASSUME ServiziInv, NEW d, d \in domande, server_select(d), UNCHANGED <<servizio, ordine, caduto, iniziale>>
  PROVE  ServiziInv'
<1>1. servizio = "elimina" /\ servizio' = "elimina"
  BY DEF server_select
<1> QED
  BY <1>1 DEF ServiziInv, StatoOK, Esatta, Ammessa, RispostaAttesa

\* A division ends the server: nothing that was said depends on it.
LEMMA DivisioneFinita ==
  ASSUME ServiziInv, divisione_impossibile
  PROVE  ServiziInv'
<1>1. /\ servizio \in {"operazione", "datagram"}
      /\ UNCHANGED <<domande, arrivi, mostrate, servizio, ordine, disco, lasciati, iniziale, tolte>>
  BY DEF divisione_impossibile, udpVars
<1>2. StatoOK'
  BY <1>1 DEF ServiziInv, StatoOK, Ordini
<1>3. \A q : Ammessa(q)' <=> Ammessa(q)
  BY <1>1 DEF Ammessa, Operazioni, Interi
<1>4. \A q, ris : RispostaAttesa(q, ris)' <=> RispostaAttesa(q, ris)
  BY <1>1 DEF RispostaAttesa
<1> QED
  BY <1>1, <1>2, <1>3, <1>4 DEF ServiziInv, Esatta

-----------------------------------------------------------------------------
(* server.c. *)

\* What has been said stays true.
LEMMA TogliResta ==
  ASSUME servizio = "togli", TogliOK, TogliOK', UNCHANGED <<servizio, ordine, iniziale>>,
         tolte \subseteq tolte', DOMAIN disco' = DOMAIN disco,
         \A f \in DOMAIN disco : disco[f] = Assente => disco'[f] = Assente,
         NEW r, Esatta(r)
  PROVE  Esatta(r)'
<1> DEFINE q == r.dom.chiede
           ris == r.ris
<1>1. q.nome \in DOMAIN disco /\ "tempFile" \in DOMAIN disco /\ TogliAtteso(q, ris)
  BY DEF Esatta, Ammessa, RispostaAttesa
<1>2. Ammessa(q)'
  BY <1>1 DEF Ammessa
<1>3. Stampa(ris)' = Stampa(ris) /\ \A n : Byte("server", n)' = Byte("server", n)
  BY DEF Stampa, Byte, ntohl
<1>4. Cardinality(tolte) <= Cardinality(tolte')
  BY FS_Subset DEF TogliOK
<1>5. Cardinality(tolte) \in Nat /\ Cardinality(tolte') \in Nat /\ FdLiberi \in Nat \ {0}
  BY FS_CardinalityType, FdAssumption DEF TogliOK
<1>6. caduto' => Cardinality(tolte') = FdLiberi - 1
  BY DEF TogliOK
<1>7. Cardinality(tolte) >= FdLiberi - 1 => Cardinality(tolte') >= FdLiberi - 1
  BY <1>4, <1>5
<1> HIDE DEF q, ris
<1>8. Stampa(ris) = -1 =>
        iniziale[q.nome] = Assente \/ disco'[q.nome] = Assente \/ Cardinality(tolte') >= FdLiberi - 1
  BY <1>1, <1>7 DEF TogliAtteso
<1>9. Stampa(ris) # -1 =>
        \E t \in tolte' : t.nome = q.nome /\ t.parola = q.parola /\ Stampa(ris) = Byte("server", t.ris)
  BY <1>1 DEF TogliAtteso
<1>10. TogliAtteso(q, ris)'
  BY <1>3, <1>6, <1>8, <1>9 DEF TogliAtteso
<1>11. RispostaAttesa(q, ris)'
  BY <1>10 DEF RispostaAttesa
<1> QED
  BY <1>2, <1>11 DEF Esatta, q, ris

\* Text written over a file.
LEMMA Sovrascritto ==
  ASSUME NEW e, Lista(e), NEW t, Lista(t), NEW m \in Int, Len(e) + 1 < m, Len(t) + 1 < m
  PROVE  /\ Lista(e \o SubSeq(t, Len(e) + 1, Len(t)))
         /\ Len(e \o SubSeq(t, Len(e) + 1, Len(t))) + 1 < m
<1> DEFINE n == Len(e)
           l == Len(t)
           s == SubSeq(t, n + 1, l)
           C == {e[i] : i \in DOMAIN e} \cup {s[i] : i \in DOMAIN s}
<1>1. n \in Nat /\ l \in Nat
  BY ListaTipo
<1>2. Lista(s) /\ Len(s) = IF n < l THEN l - n ELSE 0
  <2>1. CASE n < l
    <3>1. n + 1 \in Int /\ l \in Int /\ n + 1 >= 1 /\ n + 1 <= l + 1 /\ l - (n + 1) + 1 = l - n
      BY <1>1, <2>1
    <3> HIDE DEF n, l
    <3>2. l <= Len(t)
      BY <1>1 DEF l
    <3>3. Lista(SubSeq(t, n + 1, l)) /\ Len(SubSeq(t, n + 1, l)) = l - (n + 1) + 1
      BY <3>1, <3>2, Parte
    <3> QED
      BY <2>1, <3>1, <3>3
  <2>2. CASE ~(n < l)
    <3>1. s = <<>>
      BY <1>1, <2>2, SubSeqEmpty
    <3> HIDE DEF s
    <3> QED
      BY <2>2, <3>1, ListaVuota
  <2> QED
    BY <2>1, <2>2
<1> HIDE DEF s, l
<1>3. e \in Seq(C) /\ s \in Seq(C)
  <2>1. e \in Seq({e[i] : i \in DOMAIN e}) /\ s \in Seq({s[i] : i \in DOMAIN s})
    BY <1>2 DEF Lista
  <2>2. Seq({e[i] : i \in DOMAIN e}) \subseteq Seq(C) /\ Seq({s[i] : i \in DOMAIN s}) \subseteq Seq(C)
    BY SeqMonotonic
  <2> QED
    BY <2>1, <2>2
<1> HIDE DEF C
<1>4. e \o s \in Seq(C) /\ Len(e \o s) = n + Len(s)
  BY <1>3, ConcatProperties
<1>5. Lista(e \o s)
  BY <1>4, ListaDi
<1>6. n + 1 < m /\ l + 1 < m
  BY DEF l
<1>7. Len(e \o s) + 1 < m
  <2> HIDE DEF n
  <2> QED
    BY <1>1, <1>2, <1>4, <1>6
<1> QED
  BY <1>5, <1>7 DEF s, l

\* What a deletion leaves.
LEMMA Rinominato ==
  ASSUME \A f \in DOMAIN disco : TestoBreve(disco[f]), NEW nome \in DOMAIN disco, "tempFile" \in DOMAIN disco,
         NEW e, Lista(e), Len(e) + 1 < (B * B) \div 2
  PROVE  /\ DOMAIN Rinomina(nome, e) = DOMAIN disco
         /\ \A f \in DOMAIN disco : TestoBreve(Rinomina(nome, e)[f])
         /\ \A f \in DOMAIN disco : f # nome /\ disco[f] = Assente => Rinomina(nome, e)[f] = Assente
<1> DEFINE temp == IF disco["tempFile"] = Assente THEN <<>> ELSE disco["tempFile"]
           nuovo == e \o SubSeq(temp, Len(e) + 1, Len(temp))
           m == (B * B) \div 2
<1>1. m \in Int
  <2>1. B * B \in Int
    BY ServiziAssumption
  <2> QED
    BY <2>1
<1>2. Lista(temp) /\ Len(temp) + 1 < m
  <2>1. CASE disco["tempFile"] = Assente
    <3>1. 0 + 1 < m
      <4>1. Len(e) \in Nat
        BY ListaTipo
      <4> HIDE DEF m
      <4>2. Len(e) + 1 < m
        BY DEF m
      <4> QED
        BY <1>1, <4>1, <4>2
    <3>2. Lista(<<>>) /\ Len(<<>>) = 0
      BY ListaVuota
    <3> QED
      BY <2>1, <3>1, <3>2
  <2>2. CASE disco["tempFile"] # Assente
    BY <2>2 DEF TestoBreve
  <2> QED
    BY <2>1, <2>2
<1> HIDE DEF temp
<1>3. TestoBreve(nuovo)
  <2>1. Len(e) + 1 < m
    OBVIOUS
  <2> HIDE DEF m
  <2>2. Lista(nuovo) /\ Len(nuovo) + 1 < m
    BY <1>1, <1>2, <2>1, Sovrascritto
  <2> HIDE DEF nuovo
  <2> QED
    BY <2>2 DEF TestoBreve, m
<1>4. Rinomina(nome, e) = [disco EXCEPT ![nome] = nuovo, !["tempFile"] = Assente]
  BY DEF Rinomina, temp
<1> HIDE DEF nuovo
<1>5. /\ DOMAIN Rinomina(nome, e) = DOMAIN disco
      /\ \A f \in DOMAIN disco :
           Rinomina(nome, e)[f] = IF f = "tempFile" THEN Assente ELSE IF f = nome THEN nuovo ELSE disco[f]
  BY <1>4
<1> QED
  BY <1>3, <1>5 DEF TestoBreve

\* A deletion, and what is answered.
LEMMA TogliFatto ==
  ASSUME servizio = "togli", TogliOK, NEW nome \in DOMAIN disco, "tempFile" \in DOMAIN disco, NEW parola, NEW f,
         f = elimina_parola(disco[nome], parola), disco[nome] # Assente, lasciati + 1 < FdLiberi, ~caduto,
         disco' = Rinomina(nome, f.esce), lasciati' = lasciati + 1,
         tolte' = tolte \cup {[nome |-> nome, parola |-> parola, ris |-> f.ris, volta |-> Cardinality(tolte)]},
         UNCHANGED <<servizio, ordine, caduto, iniziale>>
  PROVE  /\ TogliOK' /\ DOMAIN disco' = DOMAIN disco
         /\ \A g \in DOMAIN disco : disco[g] = Assente => disco'[g] = Assente
         /\ \A q, ris : q.nome = nome /\ q.parola = parola /\ ris = Byte("server", f.ris) => TogliAtteso(q, ris)'
<1> DEFINE n == Cardinality(tolte)
           fatta == [nome |-> nome, parola |-> parola, ris |-> f.ris, volta |-> n]
           m == (B * B) \div 2
           testo == disco[nome]
<1>1. /\ lasciati \in 0 .. FdLiberi /\ IsFiniteSet(tolte)
      /\ n = IF lasciati = FdLiberi THEN FdLiberi - 1 ELSE lasciati
      /\ \A t \in tolte : t.volta \in 0 .. n - 1
      /\ \A g \in DOMAIN disco : TestoBreve(disco[g])
  BY DEF TogliOK
<1>2. FdLiberi \in Nat \ {0} /\ n \in Nat
  BY <1>1, FdAssumption, FS_CardinalityType
<1>3. fatta.nome = nome /\ fatta.parola = parola /\ fatta.ris = f.ris /\ fatta.volta = n /\ tolte' = tolte \cup {fatta}
  OBVIOUS
<1> HIDE DEF fatta, n
<1>4. Lista(testo) /\ Len(testo) + 1 < m /\ Len(testo) \in Nat
  <2>1. Lista(testo) /\ Len(testo) + 1 < m
    BY <1>1 DEF TestoBreve
  <2> QED
    BY <2>1, ListaTipo
<1>5. Lista(f.esce) /\ Len(f.esce) <= Len(testo) /\ f.ris \in 0 .. Len(testo) + 1 /\ Len(f.esce) \in Nat
  <2> HIDE DEF testo
  <2>1. /\ Lista(elimina_parola(testo, parola).esce) /\ Len(elimina_parola(testo, parola).esce) <= Len(testo)
        /\ elimina_parola(testo, parola).ris \in 0 .. Len(testo) + 1
    BY <1>4, ParolaTolta
  <2>2. f = elimina_parola(testo, parola)
    BY DEF testo
  <2> QED
    BY <2>1, <2>2, ListaTipo
<1>6. m \in Int /\ m <= B * B /\ B * B \in Nat
  <2>1. B * B \in Nat
    BY ServiziAssumption
  <2> QED
    BY <2>1
<1>7. Len(f.esce) + 1 < (B * B) \div 2
  <2> DEFINE x == Len(f.esce)
             y == Len(testo)
  <2>1. x \in Nat /\ y \in Nat /\ x <= y /\ y + 1 < m
    BY <1>4, <1>5
  <2> HIDE DEF x, y, m
  <2>2. x + 1 < m
    BY <1>6, <2>1
  <2> QED
    BY <2>2 DEF x, m
<1>8. f.ris \in Interi /\ Con(f.ris) = f.ris /\ f.ris >= 0
  <2> DEFINE y == Len(testo)
             w == B * B
             r == f.ris
  <2>1. y \in Nat /\ y + 1 < m /\ w \in Nat /\ m <= w /\ r \in 0 .. y + 1
    BY <1>4, <1>5, <1>6
  <2> HIDE DEF m, w, y, r
  <2>2. r \in Nat /\ r < m /\ r <= w - 1
    BY <1>6, <2>1
  <2>3. r \in Interi
    BY <2>1, <2>2 DEF Interi, w
  <2>4. ~(r >= m)
    BY <1>6, <2>2
  <2>5. Con(r) = r
    BY <2>4 DEF Con, m
  <2> QED
    BY <2>2, <2>3, <2>5 DEF r
<1>9. /\ DOMAIN disco' = DOMAIN disco
      /\ \A g \in DOMAIN disco : TestoBreve(disco'[g])
      /\ \A g \in DOMAIN disco : g # nome /\ disco[g] = Assente => disco'[g] = Assente
  <2> DEFINE e == f.esce
  <2>1. Lista(e) /\ Len(e) + 1 < (B * B) \div 2 /\ disco' = Rinomina(nome, e)
    BY <1>5, <1>7
  <2> HIDE DEF e
  <2> QED
    BY <1>1, <2>1, Rinominato
<1>10. /\ IsFiniteSet(tolte') /\ Cardinality(tolte') = n + 1
  <2>1. fatta \notin tolte
    <3>1. \A t \in tolte : t.volta # n
      BY <1>1, <1>2
    <3> QED
      BY <1>3, <3>1
  <2>2. IsFiniteSet(tolte \cup {fatta}) /\ Cardinality(tolte \cup {fatta}) = Cardinality(tolte) + 1
    BY <1>1, <2>1, FS_AddElement
  <2>3. n = Cardinality(tolte)
    BY DEF n
  <2> QED
    BY <1>3, <2>2, <2>3
<1>11. TogliOK'
  <2>1. lasciati' \in 0 .. FdLiberi /\ Cardinality(tolte') = IF lasciati' = FdLiberi THEN FdLiberi - 1 ELSE lasciati'
    BY <1>1, <1>2, <1>10
  <2>2. \A t \in tolte' : t.volta \in 0 .. Cardinality(tolte') - 1
    <3>1. \A t \in tolte : t.volta \in 0 .. (n + 1) - 1
      BY <1>1, <1>2
    <3>2. fatta.volta \in 0 .. (n + 1) - 1
      BY <1>2, <1>3
    <3> QED
      BY <1>3, <1>10, <3>1, <3>2
  <2>3. \A g \in DOMAIN disco' : TestoBreve(disco[g])'
    BY <1>9 DEF TestoBreve
  <2> QED
    BY <1>9, <1>10, <2>1, <2>2, <2>3 DEF TogliOK
<1>12. ASSUME NEW q, NEW ris, q.nome = nome, q.parola = parola, ris = Byte("server", f.ris)
      PROVE  TogliAtteso(q, ris)'
  <2> DEFINE r == f.ris
  <2>1. Stampa(ris) = ris /\ ris \in Interi
    <3>1. r \in Interi /\ Con(r) = r /\ r >= 0 /\ ordine["client"] = ordine["server"] /\ ris = Byte("server", r)
      BY <1>8, <1>12 DEF TogliOK
    <3> HIDE DEF r
    <3>2. Stampa(Byte("server", r)) = IF Con(r) < 0 THEN -1 ELSE Byte("server", r)
      BY <3>1, StampaDi
    <3>3. ~(Con(r) < 0)
      BY <3>1 DEF Interi
    <3>4. Byte("server", r) \in Interi
      BY <3>1, DueVolte
    <3> QED
      BY <3>1, <3>2, <3>3, <3>4
  <2>2. Stampa(ris)' = Stampa(ris) /\ \A x : Byte("server", x)' = Byte("server", x)
    BY DEF Stampa, Byte, ntohl
  <2>3. ris # -1
    BY <2>1, <1>6 DEF Interi
  <2>4. caduto' => FALSE
    OBVIOUS
  <2>5. fatta \in tolte' /\ fatta.nome = q.nome /\ fatta.parola = q.parola /\ ris = Byte("server", fatta.ris)
    BY <1>3, <1>12
  <2> QED
    BY <2>1, <2>2, <2>3, <2>4, <2>5 DEF TogliAtteso
<1> QED
  BY <1>9, <1>11, <1>12

\* No deletion: the file is not there, or the descriptors are not.
LEMMA TogliRifiutato ==
  ASSUME servizio = "togli", TogliOK, NEW nome \in DOMAIN disco, ~caduto,
         ~(disco[nome] # Assente /\ lasciati + 1 < FdLiberi), UNCHANGED <<disco, tolte>>,
         lasciati' = IF disco[nome] # Assente /\ lasciati < FdLiberi THEN lasciati + 1 ELSE lasciati,
         UNCHANGED <<servizio, ordine, caduto, iniziale>>
  PROVE  TogliOK' /\ \A q, ris : q.nome = nome /\ ris = Byte("server", Tronca(-1)) => TogliAtteso(q, ris)'
<1>1. /\ lasciati \in 0 .. FdLiberi /\ IsFiniteSet(tolte) /\ FdLiberi \in Nat \ {0}
      /\ Cardinality(tolte) = IF lasciati = FdLiberi THEN FdLiberi - 1 ELSE lasciati
      /\ ordine["client"] = ordine["server"]
  BY FdAssumption DEF TogliOK
<1>2. TogliOK'
  <2>1. lasciati' \in 0 .. FdLiberi /\ Cardinality(tolte') = IF lasciati' = FdLiberi THEN FdLiberi - 1 ELSE lasciati'
    BY <1>1
  <2> QED
    BY <2>1 DEF TogliOK, TestoBreve
<1>3. Tronca(-1) \in Interi /\ Con(Tronca(-1)) = -1
  <2> DEFINE w == B * B
  <2>1. w \in Nat \ {0}
    BY ServiziAssumption
  <2> HIDE DEF w
  <2>2. (-1) % w = w - 1 /\ w - 1 >= w \div 2
    BY <2>1
  <2>3. Tronca(-1) = w - 1
    BY <2>2 DEF Tronca, w
  <2>4. Tronca(-1) \in Interi
    BY <2>1, <2>3 DEF Interi, w
  <2>5. Con(w - 1) = (w - 1) - w
    BY <2>2 DEF Con, w
  <2> QED
    BY <2>1, <2>3, <2>4, <2>5
<1>4. Stampa(Byte("server", Tronca(-1))) = -1
  <2> DEFINE z == Tronca(-1)
  <2>1. z \in Interi /\ Con(z) < 0
    BY <1>3
  <2> HIDE DEF z
  <2>2. Stampa(Byte("server", z)) = -1
    BY <1>1, <2>1, StampaDi
  <2> QED
    BY <2>2 DEF z
<1>5. ASSUME NEW q, NEW ris, q.nome = nome, ris = Byte("server", Tronca(-1)) PROVE TogliAtteso(q, ris)'
  <2>1. Stampa(ris) = -1
    BY <1>4, <1>5
  <2>2. Stampa(ris)' = Stampa(ris)
    BY <2>1 DEF Stampa, Byte, ntohl
  <2>3. disco'[q.nome] = Assente \/ Cardinality(tolte') >= FdLiberi - 1
    BY <1>1, <1>5
  <2>4. caduto' => FALSE
    OBVIOUS
  <2> QED
    BY <2>1, <2>2, <2>3, <2>4 DEF TogliAtteso
<1> QED
  BY <1>2, <1>5

\* What server.c keeps true when it has not exited: what it has answered, and
\* a new answer.
LEMMA TogliServito ==
  ASSUME ServiziInv, NEW d, d \in domande, server(d), UNCHANGED <<servizio, ordine, caduto, iniziale>>
  PROVE  ServiziInv'
<1> DEFINE q == d.chiede
           nome == q.nome
           parola == q.parola
           fatto == disco[nome] # Assente /\ lasciati + 1 < FdLiberi
<1>1. PICK f : f = elimina_parola(disco[nome], parola)
  OBVIOUS
<1>2. PICK ris : ris = IF fatto THEN Byte("server", f.ris) ELSE Byte("server", Tronca(-1))
  OBVIOUS
<1>3. /\ servizio = "togli" /\ ~caduto
      /\ lasciati' = IF disco[nome] # Assente /\ lasciati < FdLiberi THEN lasciati + 1 ELSE lasciati
  BY DEF server
<1>4. fatto => /\ Risposta(d, Byte("server", f.ris)) /\ disco' = Rinomina(nome, f.esce)
               /\ tolte' = tolte \cup {[nome |-> nome, parola |-> parola, ris |-> f.ris, volta |-> Cardinality(tolte)]}
  BY <1>1 DEF server
<1>5. ~fatto => Risposta(d, Byte("server", Tronca(-1))) /\ UNCHANGED <<disco, tolte>>
  BY DEF server
<1>6. TogliOK /\ nome \in DOMAIN disco /\ "tempFile" \in DOMAIN disco
  BY <1>3 DEF ServiziInv, StatoOK, Ammessa
<1>7. lasciati \in 0 .. FdLiberi /\ FdLiberi \in Nat
  BY <1>6, FdAssumption DEF TogliOK
<1>8. /\ Risposta(d, ris) /\ TogliOK' /\ tolte \subseteq tolte' /\ DOMAIN disco' = DOMAIN disco
      /\ \A g \in DOMAIN disco : disco[g] = Assente => disco'[g] = Assente
      /\ TogliAtteso(q, ris)'
  <2>1. CASE fatto
    <3>1. lasciati' = lasciati + 1
      BY <1>3, <1>7, <2>1
    <3>2. ris = Byte("server", f.ris) /\ Risposta(d, ris)
      BY <1>2, <1>4, <2>1
    <3>3. disco[nome] # Assente /\ lasciati + 1 < FdLiberi
      BY <2>1
    <3>4. /\ TogliOK' /\ DOMAIN disco' = DOMAIN disco
          /\ \A g \in DOMAIN disco : disco[g] = Assente => disco'[g] = Assente
          /\ \A x, y : x.nome = nome /\ x.parola = parola /\ y = Byte("server", f.ris) => TogliAtteso(x, y)'
      <4>1. /\ disco' = Rinomina(nome, f.esce)
            /\ tolte' = tolte \cup {[nome |-> nome, parola |-> parola, ris |-> f.ris, volta |-> Cardinality(tolte)]}
        BY <1>4, <2>1
      <4> HIDE DEF nome, parola, fatto
      <4> QED
        BY <1>1, <1>3, <1>6, <3>1, <3>3, <4>1, TogliFatto
    <3>5. tolte \subseteq tolte'
      BY <1>4, <2>1
    <3> QED
      BY <3>2, <3>4, <3>5
  <2>2. CASE ~fatto
    <3>1. ris = Byte("server", Tronca(-1)) /\ Risposta(d, ris) /\ UNCHANGED <<disco, tolte>>
      BY <1>2, <1>5, <2>2
    <3>2. TogliOK' /\ \A x, y : x.nome = nome /\ y = Byte("server", Tronca(-1)) => TogliAtteso(x, y)'
      <4>1. ~(disco[nome] # Assente /\ lasciati + 1 < FdLiberi)
        BY <2>2
      <4> HIDE DEF nome, parola, fatto
      <4> QED
        BY <1>3, <1>6, <3>1, <4>1, TogliRifiutato
    <3> QED
      BY <3>1, <3>2
  <2> QED
    BY <2>1, <2>2
<1> DEFINE nuova == [dom |-> d, ris |-> ris]
<1>9. /\ domande' \subseteq domande /\ arrivi' = arrivi \cup {nuova} /\ mostrate' = mostrate
  BY <1>8 DEF Risposta
<1>10. nuova.dom = d /\ nuova.ris = ris
  OBVIOUS
<1> HIDE DEF nuova
<1>11. \A x : Ammessa(x) => Ammessa(x)'
  BY <1>3, <1>8 DEF Ammessa
<1>12. Esatta(nuova)'
  <2>1. Ammessa(q)'
    BY <1>11 DEF ServiziInv
  <2>2. RispostaAttesa(q, ris)'
    BY <1>3, <1>8 DEF RispostaAttesa
  <2> QED
    BY <1>10, <2>1, <2>2 DEF Esatta
<1>13. \A r : Esatta(r) => Esatta(r)'
  BY <1>3, <1>6, <1>8, TogliResta
<1>14. StatoOK'
  BY <1>3, <1>8 DEF StatoOK
<1> QED
  BY <1>9, <1>11, <1>12, <1>13, <1>14 DEF ServiziInv

\* server.c exits: all its descriptors are deletions.
LEMMA TogliCaduto ==
  ASSUME ServiziInv, accept_senza_fd
  PROVE  ServiziInv'
<1>1. /\ servizio = "togli" /\ lasciati = FdLiberi
      /\ UNCHANGED <<domande, arrivi, mostrate, servizio, ordine, disco, lasciati, iniziale, tolte>>
  BY DEF accept_senza_fd, udpVars
<1>2. TogliOK
  BY <1>1 DEF ServiziInv, StatoOK
<1>3. TogliOK'
  BY <1>1, <1>2 DEF TogliOK, TestoBreve
<1>4. \A r : Esatta(r) => Esatta(r)'
  BY <1>1, <1>2, <1>3, TogliResta
<1>5. \A q : Ammessa(q)' <=> Ammessa(q)
  BY <1>1 DEF Ammessa
<1>6. StatoOK'
  BY <1>1, <1>3 DEF StatoOK
<1> QED
  BY <1>1, <1>4, <1>5, <1>6 DEF ServiziInv

-----------------------------------------------------------------------------
(* Every step. *)

\* htonl of an operand, and its bytes on the wire.
LEMMA OperandiTipo ==
  ASSUME NEW q \in Operazioni, ordine \in Ordini
  PROVE  Operandi(q) \in Operazioni
<1>1. q.op1 \in Interi /\ q.op2 \in Interi
  BY DEF Operazioni
<1>2. \A n \in Interi : Byte("client", ntohl("client", n)) \in Interi
  BY DueVolte
<1> QED
  BY <1>1, <1>2 DEF Operandi, Operazioni

\* A client sends a question the server can take.
LEMMA ServizioInviato ==
  ASSUME ServiziInv, servizio # "spento", NEW c, NEW q, sendto(c, q), Ammessa(q),
         UNCHANGED <<servizio, ordine, disco, lasciati, caduto, iniziale, tolte>>
  PROVE  ServiziInv'
<1> DEFINE nuova == [da |-> c, num |-> numero[c] + 1, chiede |-> q]
<1>1. nuova.chiede = q /\ domande' = domande \cup {nuova} /\ arrivi' = arrivi /\ mostrate' = mostrate
  BY DEF sendto
<1> HIDE DEF nuova
<1> QED
  BY <1>1, ServizioChiesto

\* A client takes an answer, or gives up.
LEMMA ServizioRicevuto ==
  ASSUME ServiziInv, servizio # "spento", NEW c, recvfrom(c) \/ SocketTimeout(c),
         UNCHANGED <<servizio, ordine, disco, lasciati, caduto, iniziale, tolte>>
  PROVE  ServiziInv'
<1>1. CASE recvfrom(c)
  <2>1. PICK r \in arrivi :
          /\ arrivi' = arrivi \ {r} /\ domande' = domande
          /\ mostrate' = mostrate \cup {[dom |-> r.dom, ris |-> r.ris, dopo |-> numero[c]]}
    BY <1>1 DEF recvfrom
  <2> DEFINE vista == [dom |-> r.dom, ris |-> r.ris, dopo |-> numero[c]]
  <2>2. vista.dom = r.dom /\ vista.ris = r.ris /\ mostrate' = mostrate \cup {vista}
    BY <2>1
  <2> HIDE DEF vista
  <2> QED
    BY <2>1, <2>2, ServizioChiesto
<1>2. CASE SocketTimeout(c)
  BY <1>2, ServizioChiesto DEF SocketTimeout
<1> QED
  BY <1>1, <1>2

LEMMA ServiziPasso == ServiziInv /\ [Next]_interrogazioniVars => ServiziInv'
<1> SUFFICES ASSUME ServiziInv, [Next]_interrogazioniVars
             PROVE  ServiziInv'
  OBVIOUS
<1>1. CASE UNCHANGED serviziVars
  <2>1. UNCHANGED <<domande, arrivi, mostrate, servizio, ordine, disco, lasciati, caduto, iniziale, tolte>>
    BY <1>1 DEF serviziVars, udpVars
  <2>2. StatoOK'
    <3>1. CASE servizio # "spento"
      BY <2>1, <3>1, ServizioFermo DEF ServiziInv
    <3>2. CASE servizio = "spento"
      BY <2>1, <3>2 DEF ServiziInv, StatoOK
    <3> QED
      BY <3>1, <3>2
  <2>3. (\A q : Ammessa(q)' <=> Ammessa(q)) /\ \A q, ris : RispostaAttesa(q, ris)' <=> RispostaAttesa(q, ris)
    BY <2>1, ServizioFermo
  <2> QED
    BY <2>1, <2>2, <2>3 DEF ServiziInv, Esatta
<1>2. CASE ServiziNext
  <2>1. ASSUME NEW s \in DOMAIN Dischi, main(s)
        PROVE  ServiziInv'
    BY <2>1, Avviato
  <2>2. ASSUME NEW c, Chiede(c)
        PROVE  ServiziInv'
    <3>1. PICK q \in Richieste[servizio] :
            sendto(c, IF servizio = "operazione" THEN [q EXCEPT !.op1 = Byte("client", @), !.op2 = Byte("client", @)]
                      ELSE q)
      BY <2>2 DEF Chiede
    <3>2. PICK x : /\ sendto(c, x)
                   /\ x = IF servizio = "operazione" THEN [q EXCEPT !.op1 = Byte("client", @), !.op2 = Byte("client", @)]
                          ELSE q
      BY <3>1
    <3>3. /\ servizio \in {"linea", "operazione", "parola", "elimina"}
          /\ UNCHANGED <<servizio, ordine, disco, lasciati, caduto, iniziale, tolte>>
      BY <2>2 DEF Chiede
    <3>4. Ammessa(x)
      BY <3>2, <3>3 DEF Ammessa
    <3> QED
      BY <3>2, <3>3, <3>4, ServizioInviato
  <2>3. ASSUME NEW c, Riceve(c)
        PROVE  ServiziInv'
    BY <2>3, ServizioRicevuto DEF Riceve
  <2>4. ASSUME NEW c, clientDatagram(c)
        PROVE  ServiziInv'
    <3>1. /\ servizio = "datagram" /\ servizio \in DOMAIN Dischi /\ ordine \in Ordini
          /\ UNCHANGED <<servizio, ordine, disco, lasciati, caduto, iniziale, tolte>>
      BY <2>4 DEF clientDatagram, ServiziInv, StatoOK
    <3>2. ASSUME NEW q \in Richieste[servizio], sendto(c, Operandi(q))
          PROVE  ServiziInv'
      <4>1. q \in Operazioni
        BY <3>1, ServiziAssumption DEF Operazioni, Interi
      <4>2. PICK x : x = Operandi(q)
        OBVIOUS
      <4>3. Ammessa(x)
        BY <3>1, <4>1, <4>2, OperandiTipo DEF Ammessa
      <4> QED
        BY <3>1, <3>2, <4>2, <4>3, ServizioInviato
    <3> QED
      BY <2>4, <3>1, <3>2, ServizioRicevuto DEF clientDatagram
  <2>5. ASSUME NEW c, datagram_client(c)
        PROVE  ServiziInv'
    <3>1. /\ servizio = "togli" /\ TogliOK
          /\ UNCHANGED <<servizio, ordine, disco, lasciati, caduto, iniziale, tolte>>
      BY <2>5 DEF datagram_client, ServiziInv, StatoOK
    <3>2. ASSUME NEW q \in Richieste[servizio], sendto(c, q)
          PROVE  ServiziInv'
      <4>1. {q.nome, "tempFile"} \subseteq DOMAIN iniziale
        BY <3>1, ServiziAssumption DEF TogliOK
      <4>2. Ammessa(q)
        BY <3>1, <4>1 DEF Ammessa, TogliOK
      <4> QED
        BY <3>1, <3>2, <4>2, ServizioInviato
    <3> QED
      BY <2>5, <3>1, <3>2, ServizioRicevuto DEF datagram_client
  <2>6. ASSUME NEW d \in domande, UNCHANGED <<servizio, ordine, caduto, iniziale>>,
               \/ LineServer(d) \/ OpDatagram_server(d) \/ longest_word_server(d) \/ server_select(d)
               \/ serverDatagram(d) \/ server(d)
        PROVE  ServiziInv'
    BY <2>6, LineaServita, ParolaServita, OperazioneServita, DatagramServito, EliminaServita, TogliServito
  <2>7. ASSUME accept_senza_fd
        PROVE  ServiziInv'
    BY <2>7, TogliCaduto
  <2>8. ASSUME divisione_impossibile
        PROVE  ServiziInv'
    BY <2>8, DivisioneFinita
  <2> QED
    BY <1>2, <2>1, <2>2, <2>3, <2>4, <2>5, <2>6, <2>7, <2>8 DEF ServiziNext
<1> QED
  BY <1>1, <1>2 DEF Next, Sceglie, interrogazioniVars

\* RispostaGiusta: whatever answer LineServer, longest-word-server, the two
\* servers of operations and server.c send is what its question is owed when it
\* is shown, on hosts of any byte order and for any texts.
THEOREM RispostaGiustaSempre == Spec => []RispostaGiusta
<1>1. ServiziInv => RispostaGiusta
  BY DEF ServiziInv, Esatta, RispostaGiusta
<1>2. Init => ServiziInv
  BY ServiziInizio DEF Init
<1> QED
  BY <1>1, <1>2, ServiziPasso, PTL DEF Spec

-----------------------------------------------------------------------------
(* What deletions leave of the directory. *)

\* server_select: the files that were there are, with characters they had.
EliminaOK ==
  /\ "elimina" \in DOMAIN Dischi /\ iniziale \in Dischi["elimina"] /\ DOMAIN disco = DOMAIN iniziale
  /\ IsFiniteSet(tolte) /\ \A t \in tolte : t.volta \in 0 .. Cardinality(tolte) - 1
  /\ \A nome \in DOMAIN iniziale : iniziale[nome] # Assente =>
       /\ disco[nome] \in Seq({iniziale[nome][i] : i \in DOMAIN iniziale[nome]})
       /\ Tolto(Separatori, iniziale[nome], Fatte(tolte, nome), disco[nome])

Sporco == iniziale["tempFile"] # Assente

\* server.c: without a tempFile at the start there is never one.
TestoRimasto(nome) ==
  IF Sporco THEN nome # "tempFile" => Sporcata(iniziale[nome], Vie(Fatte(tolte, nome)), disco[nome])
  ELSE /\ Lista(disco[nome])
       /\ Tolto(Bianchi, Append(iniziale[nome], Spazio), Fatte(tolte, nome), Append(disco[nome], Spazio))

TogliLascia ==
  /\ ~Sporco => disco["tempFile"] = Assente
  /\ \A nome \in DOMAIN iniziale : iniziale[nome] # Assente => TestoRimasto(nome)

RimasteInv ==
  /\ servizio \notin {"elimina", "togli"} => tolte = {}
  /\ servizio = "elimina" => EliminaOK
  /\ servizio = "togli" => TogliLascia

LEMMA RimasteInizio == ServiziInit => RimasteInv
BY DEF ServiziInit, RimasteInv

LEMMA RimasteFermo ==
  ASSUME RimasteInv, UNCHANGED <<servizio, disco, iniziale, tolte>>
  PROVE  RimasteInv'
BY DEF RimasteInv, EliminaOK, TogliLascia, TestoRimasto, Sporco, Fatte, Vie

LEMMA RimasteAvviato ==
  ASSUME ServiziInv, NEW s \in DOMAIN Dischi, main(s)
  PROVE  RimasteInv'
<1>1. /\ servizio = "spento" /\ servizio' = s /\ disco' \in Dischi[s] /\ iniziale' = disco' /\ tolte' = tolte
  BY DEF main
<1>2. tolte' = {}
  BY <1>1 DEF ServiziInv, StatoOK
<1>3. \A nome : Fatte(tolte', nome) = {} /\ Vie({}) = {}
  BY <1>2 DEF Fatte, Vie
<1>4. \A nome \in DOMAIN iniziale' : iniziale'[nome] # Assente => Lista(iniziale'[nome])
  BY <1>1, ServiziAssumption
<1>5. ASSUME s = "elimina" PROVE EliminaOK'
  <2>1. IsFiniteSet(tolte')
    BY <1>2, FS_EmptySet
  <2>2. ASSUME NEW nome \in DOMAIN iniziale', iniziale'[nome] # Assente
        PROVE  /\ disco'[nome] \in Seq({iniziale'[nome][i] : i \in DOMAIN iniziale'[nome]})
               /\ Tolto(Separatori, iniziale'[nome], Fatte(tolte', nome), disco'[nome])
    <3>1. Lista(iniziale'[nome]) /\ disco'[nome] = iniziale'[nome]
      BY <1>1, <1>4, <2>2
    <3>2. Tolto(Separatori, iniziale'[nome], {}, iniziale'[nome])
      BY <3>1, ToltoInizio
    <3> QED
      BY <1>3, <3>1, <3>2 DEF Lista
  <2>3. \A t \in tolte' : t.volta \in 0 .. Cardinality(tolte') - 1
    BY <1>2
  <2>4. DOMAIN disco' = DOMAIN iniziale' /\ iniziale' \in Dischi["elimina"]
    BY <1>1, <1>5
  <2> QED
    BY <1>5, <2>1, <2>2, <2>3, <2>4 DEF EliminaOK, Fatte
<1>6. ASSUME s = "togli" PROVE TogliLascia'
  <2>1. ~Sporco' => disco'["tempFile"] = Assente
    BY <1>1 DEF Sporco
  <2>2. ASSUME NEW nome \in DOMAIN iniziale', iniziale'[nome] # Assente PROVE TestoRimasto(nome)'
    <3>1. Lista(iniziale'[nome]) /\ disco'[nome] = iniziale'[nome]
      BY <1>1, <1>4, <2>2
    <3>2. PICK t : t = iniziale'[nome]
      OBVIOUS
    <3>3. Sporcata(t, {}, t)
      BY <3>1, <3>2, SporcataInizio
    <3>4. Lista(Append(t, Spazio))
      BY <3>1, <3>2, ListaAppend
    <3>5. Tolto(Bianchi, Append(t, Spazio), {}, Append(t, Spazio))
      BY <3>4, ToltoInizio
    <3>6. Fatte(tolte', nome) = {} /\ Vie(Fatte(tolte', nome)) = {}
      BY <1>3
    <3>7. Fatte(tolte, nome)' = Fatte(tolte', nome) /\ Vie(Fatte(tolte, nome))' = Vie(Fatte(tolte', nome))
      BY DEF Fatte, Vie
    <3> QED
      BY <3>1, <3>2, <3>3, <3>5, <3>6, <3>7 DEF TestoRimasto
  <2> QED
    BY <2>1, <2>2 DEF TogliLascia
<1> QED
  BY <1>1, <1>2, <1>5, <1>6 DEF RimasteInv

\* A finite set of deletions, and one with the next number.
LEMMA FattaNuova ==
  ASSUME IsFiniteSet(tolte), \A t \in tolte : t.volta \in 0 .. Cardinality(tolte) - 1,
         NEW x, x.volta = Cardinality(tolte), tolte' = tolte \cup {x}
  PROVE  /\ x.volta \in Int /\ \A t \in tolte : t.volta \in Int /\ t.volta < x.volta
         /\ IsFiniteSet(tolte') /\ \A t \in tolte' : t.volta \in 0 .. Cardinality(tolte') - 1
<1> DEFINE n == Cardinality(tolte)
<1>1. n \in Nat /\ x.volta = n /\ \A t \in tolte : t.volta \in 0 .. n - 1
  BY FS_CardinalityType
<1>2. IsFiniteSet(tolte') /\ Cardinality(tolte') = n + 1
  <2>1. x \notin tolte
    <3> HIDE DEF n
    <3>1. n \notin 0 .. n - 1
      BY <1>1
    <3> QED
      BY <1>1, <3>1
  <2> QED
    BY <2>1, FS_AddElement
<1> HIDE DEF n
<1>3. \A t \in tolte : t.volta \in Int /\ t.volta < n /\ t.volta \in 0 .. (n + 1) - 1
  BY <1>1
<1>4. n \in 0 .. (n + 1) - 1 /\ n \in Int
  BY <1>1
<1>5. \A t \in tolte' : t.volta \in 0 .. (n + 1) - 1
  BY <1>1, <1>3, <1>4
<1>6. \A t \in tolte' : t.volta \in 0 .. Cardinality(tolte') - 1
  BY <1>2, <1>5, Zenon
<1>7. x.volta \in Int /\ \A t \in tolte : t.volta \in Int /\ t.volta < x.volta
  BY <1>1, <1>3, <1>4
<1> QED
  BY <1>2, <1>6, <1>7

LEMMA RimasteElimina ==
  ASSUME RimasteInv, NEW d, server_select(d), UNCHANGED <<servizio, iniziale>>
  PROVE  RimasteInv'
<1> DEFINE nome == d.chiede.nome
           parola == d.chiede.parola
<1>1. PICK f : f = IF disco[nome] = Assente THEN [esce |-> <<>>, ris |-> -1]
                   ELSE EliminaParola(disco[nome], parola)
  OBVIOUS
<1>2. PICK x : x = [nome |-> nome, parola |-> parola, ris |-> f.ris, volta |-> Cardinality(tolte)]
  OBVIOUS
<1>3. servizio = "elimina" /\ disco' = [disco EXCEPT ![nome] = f.esce] /\ tolte' = tolte \cup {x}
  BY <1>1, <1>2 DEF server_select
<1>4. x.nome = nome /\ x.parola = parola /\ x.ris = f.ris /\ x.volta = Cardinality(tolte)
  BY <1>2
<1> HIDE DEF nome, parola
<1>5. EliminaOK
  BY <1>3 DEF RimasteInv
<1>6. /\ IsFiniteSet(tolte') /\ \A t \in tolte' : t.volta \in 0 .. Cardinality(tolte') - 1
      /\ x.volta \in Int /\ \A t \in tolte : t.volta \in Int /\ t.volta < x.volta
  BY <1>3, <1>4, <1>5, FattaNuova DEF EliminaOK
<1>7. ASSUME NEW g \in DOMAIN iniziale, iniziale[g] # Assente
      PROVE  /\ disco'[g] \in Seq({iniziale[g][i] : i \in DOMAIN iniziale[g]})
             /\ Tolto(Separatori, iniziale[g], Fatte(tolte', g), disco'[g])
  <2> DEFINE C == {iniziale[g][i] : i \in DOMAIN iniziale[g]}
  <2>1. disco[g] \in Seq(C) /\ Tolto(Separatori, iniziale[g], Fatte(tolte, g), disco[g]) /\ g \in DOMAIN disco
    BY <1>5, <1>7 DEF EliminaOK
  <2>2. Assente \notin Seq(C)
    BY <1>5, <1>7, ServiziAssumption DEF EliminaOK
  <2> HIDE DEF C
  <2>3. CASE g # nome
    <3>1. disco'[g] = disco[g]
      BY <1>3, <2>1, <2>3
    <3>2. Fatte(tolte', g) = Fatte(tolte, g)
      <4>1. Fatte(tolte \cup {x}, g) = Fatte(tolte, g)
        BY <1>4, <2>3 DEF Fatte
      <4> QED
        BY <1>3, <4>1, Zenon
    <3> QED
      BY <2>1, <3>1, <3>2 DEF C
  <2>4. CASE g = nome
    <3>1. PICK t : t = disco[g]
      OBVIOUS
    <3>2. t \in Seq(C) /\ t # Assente /\ Lista(t)
      BY <2>1, <2>2, <3>1, ListaDi
    <3>3. f = EliminaParola(t, parola) /\ disco'[g] = f.esce
      BY <1>1, <1>3, <2>1, <2>4, <3>1, <3>2
    <3>4. Senza(Separatori, parola, t, f.esce) /\ f.ris = Volte(t, Separatori, parola)
      BY <3>2, <3>3, EliminaGiusta
    <3>5. f.esce \in Seq(C)
      <4>1. f.esce \in Seq({t[i] : i \in DOMAIN t})
        BY <3>2, <3>3, EliminaGiusta
      <4>2. {t[i] : i \in DOMAIN t} \subseteq C
        BY <3>2, ElementOfSeq, ListaTipo
      <4>3. Seq({t[i] : i \in DOMAIN t}) \subseteq Seq(C)
        BY <4>2, SeqMonotonic
      <4> QED
        BY <4>1, <4>3
    <3>6. Tolto(Separatori, iniziale[g], Fatte(tolte, g), t) /\ \A y \in Fatte(tolte, g) : y \in tolte
      BY <2>1, <3>1 DEF Fatte
    <3>7. Tolto(Separatori, iniziale[g], Fatte(tolte, g) \cup {x}, f.esce)
      BY <1>4, <1>6, <3>4, <3>6, ToltoAncora
    <3>8. Fatte(tolte', g) = Fatte(tolte, g) \cup {x}
      BY <1>3, <1>4, <2>4, FattaAncora
    <3> QED
      BY <3>3, <3>5, <3>7, <3>8 DEF C
  <2> QED
    BY <2>3, <2>4
<1>8. DOMAIN disco' = DOMAIN iniziale /\ iniziale' = iniziale
  BY <1>3, <1>5 DEF EliminaOK
<1>9. EliminaOK'
  <2>1. \A g : Fatte(tolte, g)' = Fatte(tolte', g)
    BY DEF Fatte
  <2> QED
    BY <1>5, <1>6, <1>7, <1>8, <2>1 DEF EliminaOK
<1> QED
  BY <1>3, <1>9 DEF RimasteInv

LEMMA RimasteTogli ==
  ASSUME ServiziInv, RimasteInv, NEW d, d \in domande, server(d), UNCHANGED <<servizio, iniziale>>
  PROVE  RimasteInv'
<1> DEFINE nome == d.chiede.nome
           parola == d.chiede.parola
<1>1. CASE UNCHANGED <<disco, tolte>>
  BY <1>1, RimasteFermo
<1>2. CASE ~UNCHANGED <<disco, tolte>>
  <2>1. PICK f : f = elimina_parola(disco[nome], parola)
    OBVIOUS
  <2>2. PICK x : x = [nome |-> nome, parola |-> parola, ris |-> f.ris, volta |-> Cardinality(tolte)]
    OBVIOUS
  <2>3. /\ servizio = "togli" /\ disco[nome] # Assente
        /\ disco' = Rinomina(nome, f.esce) /\ tolte' = tolte \cup {x}
    BY <1>2, <2>1, <2>2 DEF server
  <2>4. x.nome = nome /\ x.parola = parola /\ x.ris = f.ris /\ x.volta = Cardinality(tolte)
    BY <2>2
  <2>5. TogliOK /\ TogliLascia /\ nome \in DOMAIN disco /\ "tempFile" \in DOMAIN disco
    BY <2>3 DEF ServiziInv, StatoOK, Ammessa, RimasteInv
  <2> HIDE DEF nome, parola
  <2>6. x.volta \in Int /\ \A t \in tolte : t.volta \in Int /\ t.volta < x.volta
    BY <2>3, <2>4, <2>5, FattaNuova DEF TogliOK
  <2>7. PICK temp : temp = IF disco["tempFile"] = Assente THEN <<>> ELSE disco["tempFile"]
    OBVIOUS
  <2>8. Lista(temp)
    BY <2>5, <2>7, ListaVuota DEF TogliOK, TestoBreve
  <2>9. PICK r : r = SubSeq(temp, Len(f.esce) + 1, Len(temp))
    OBVIOUS
  <2>10. PICK t : t = disco[nome]
    OBVIOUS
  <2>11. Lista(t) /\ t # Assente /\ f = elimina_parola(t, parola) /\ Lista(f.esce) /\ Len(f.esce) \in Nat
    <3>1. Lista(t) /\ t # Assente
      BY <2>3, <2>5, <2>10 DEF TogliOK, TestoBreve
    <3>2. f = elimina_parola(t, parola)
      BY <2>1, <2>10 DEF nome
    <3>3. Lista(f.esce)
      BY <3>1, <3>2, ParolaTolta
    <3> QED
      BY <3>1, <3>2, <3>3, ListaTipo
  <2>12. Lista(r) /\ (temp = <<>> => r = <<>>)
    <3> DEFINE n == Len(f.esce)
               l == Len(temp)
    <3>1. l \in Nat /\ n \in Nat /\ (temp = <<>> => l = 0)
      BY <2>8, <2>11, ListaTipo, ListaVuota
    <3>2. r = SubSeq(temp, n + 1, l) /\ l = Len(temp)
      BY <2>9
    <3> HIDE DEF n, l
    <3>3. CASE n < l
      <4>1. n + 1 \in Int /\ l \in Int /\ n + 1 >= 1 /\ n + 1 <= l + 1 /\ l # 0
        BY <3>1, <3>3
      <4>2. l <= Len(temp)
        BY <3>1, <3>2
      <4> QED
        BY <2>8, <3>1, <3>2, <4>1, <4>2, Parte
    <3>4. CASE ~(n < l)
      <4>1. r = <<>>
        BY <3>1, <3>2, <3>4, SubSeqEmpty
      <4> QED
        BY <4>1, ListaVuota
    <3> QED
      BY <3>3, <3>4
  <2>13. /\ DOMAIN disco' = DOMAIN disco
         /\ \A g \in DOMAIN disco : disco'[g] = IF g = "tempFile" THEN Assente
                                                 ELSE IF g = nome THEN f.esce \o r ELSE disco[g]
    <3>1. disco' = [disco EXCEPT ![nome] = f.esce \o r, !["tempFile"] = Assente]
      BY <2>3, <2>7, <2>9 DEF Rinomina
    <3> QED
      BY <3>1
  <2>14. \A g : Fatte(tolte', g) = IF g = nome THEN Fatte(tolte, g) \cup {x} ELSE Fatte(tolte, g)
    <3>1. \A g : Fatte(tolte \cup {x}, g) = IF g = nome THEN Fatte(tolte, g) \cup {x} ELSE Fatte(tolte, g)
      BY <2>4 DEF Fatte
    <3> QED
      BY <2>3, <3>1, Zenon
  <2>15. ASSUME NEW g \in DOMAIN iniziale, iniziale[g] # Assente PROVE TestoRimasto(g)'
    <3>1. TestoRimasto(g) /\ g \in DOMAIN disco
      BY <2>5, <2>15 DEF TogliLascia, TogliOK
    <3>2. PICK i : i = iniziale[g]
      OBVIOUS
    <3>3. PICK F : F = Fatte(tolte, g)
      OBVIOUS
    <3>4. PICK G : G = Fatte(tolte', g)
      OBVIOUS
    <3>5. \A y \in F : y.volta \in Int /\ y.volta < x.volta
      BY <2>6, <3>3 DEF Fatte
    <3>6. Fatte(tolte, g)' = G /\ iniziale'[g] = i /\ Vie(Fatte(tolte, g))' = Vie(G)
      BY <3>2, <3>4 DEF Fatte, Vie
    <3>7. CASE Sporco
      <4>1. ASSUME g # "tempFile" PROVE Sporcata(i, Vie(G), disco'[g])
        <5>1. Sporcata(i, Vie(F), disco[g])
          BY <3>1, <3>2, <3>3, <3>7, <4>1 DEF TestoRimasto
        <5>2. CASE g = nome
          <6>1. disco'[g] = f.esce \o r /\ G = F \cup {x} /\ disco[g] = t
            BY <2>10, <2>13, <2>14, <3>1, <3>3, <3>4, <4>1, <5>2
          <6>2. Vie(F \cup {x}) = Vie(F) \cup {parola}
            BY <2>4, FattaAncora
          <6>3. PICK V : V = Vie(F)
            OBVIOUS
          <6>4. Sporcata(i, V \cup {parola}, elimina_parola(t, parola).esce \o r)
            BY <2>12, <5>1, <6>1, <6>3, SporcataAncora
          <6> QED
            BY <2>11, <6>1, <6>2, <6>3, <6>4
        <5>3. CASE g # nome
          <6>1. disco'[g] = disco[g] /\ G = F
            BY <2>13, <2>14, <3>1, <3>3, <3>4, <4>1, <5>3
          <6> QED
            BY <5>1, <6>1
        <5> QED
          BY <5>2, <5>3
      <4>2. Sporco'
        BY <3>7 DEF Sporco
      <4> QED
        BY <3>6, <4>1, <4>2 DEF TestoRimasto
    <3>8. CASE ~Sporco
      <4>1. disco["tempFile"] = Assente /\ nome # "tempFile" /\ temp = <<>>
        BY <2>3, <2>5, <2>7, <3>8 DEF TogliLascia
      <4>2. Lista(disco[g]) /\ Tolto(Bianchi, Append(i, Spazio), F, Append(disco[g], Spazio))
        BY <3>1, <3>2, <3>3, <3>8 DEF TestoRimasto
      <4>3. g # "tempFile"
        <5>1. iniziale["tempFile"] = Assente
          BY <3>8 DEF Sporco
        <5> QED
          BY <2>15, <5>1
      <4>4. Lista(disco'[g]) /\ Tolto(Bianchi, Append(i, Spazio), G, Append(disco'[g], Spazio))
        <5>1. CASE g = nome
          <6>1. disco'[g] = f.esce \o r /\ G = F \cup {x} /\ disco[g] = t
            BY <2>10, <2>13, <2>14, <3>1, <3>3, <3>4, <4>3, <5>1
          <6>2. disco'[g] = f.esce
            BY <2>11, <2>12, <4>1, <6>1, ListaConcat, ListaVuota
          <6>3. PICK a : a = Append(t, Spazio)
            OBVIOUS
          <6>4. PICK u : u = Append(f.esce, Spazio)
            OBVIOUS
          <6>5. Senza(Bianchi, x.parola, a, u) /\ x.ris = Volte(a, Bianchi, x.parola)
            BY <2>4, <2>11, <6>3, <6>4, TogliGiusta
          <6>6. Tolto(Bianchi, Append(i, Spazio), F, a)
            BY <4>2, <6>1, <6>3
          <6>7. Tolto(Bianchi, Append(i, Spazio), F \cup {x}, u)
            BY <2>6, <3>5, <6>5, <6>6, ToltoAncora
          <6> QED
            BY <2>11, <6>1, <6>2, <6>4, <6>7
        <5>2. CASE g # nome
          <6>1. disco'[g] = disco[g] /\ G = F
            BY <2>13, <2>14, <3>1, <3>3, <3>4, <4>3, <5>2
          <6> QED
            BY <4>2, <6>1
        <5> QED
          BY <5>1, <5>2
      <4>5. ~Sporco'
        BY <3>8 DEF Sporco
      <4> QED
        BY <3>6, <4>4, <4>5 DEF TestoRimasto
    <3> QED
      BY <3>7, <3>8
  <2>16. ~Sporco' => disco'["tempFile"] = Assente
    BY <2>5, <2>13
  <2>17. TogliLascia'
    BY <2>15, <2>16 DEF TogliLascia
  <2> QED
    BY <2>3, <2>17 DEF RimasteInv
<1> QED
  BY <1>1, <1>2

LEMMA RimastePasso == ServiziInv /\ RimasteInv /\ [Next]_interrogazioniVars => RimasteInv'
<1> SUFFICES ASSUME ServiziInv, RimasteInv, [Next]_interrogazioniVars
             PROVE  RimasteInv'
  OBVIOUS
<1>1. CASE UNCHANGED serviziVars
  BY <1>1, RimasteFermo DEF serviziVars
<1>2. CASE ServiziNext
  <2>1. ASSUME NEW s \in DOMAIN Dischi, main(s)
        PROVE  RimasteInv'
    BY <2>1, RimasteAvviato
  <2>2. ASSUME NEW c, Chiede(c) \/ Riceve(c) \/ clientDatagram(c) \/ datagram_client(c)
        PROVE  RimasteInv'
    BY <2>2, RimasteFermo DEF Chiede, Riceve, clientDatagram, datagram_client
  <2>3. ASSUME NEW d \in domande, UNCHANGED <<servizio, ordine, caduto, iniziale>>,
               LineServer(d) \/ OpDatagram_server(d) \/ longest_word_server(d) \/ serverDatagram(d)
        PROVE  RimasteInv'
    BY <2>3, RimasteFermo DEF LineServer, OpDatagram_server, longest_word_server, serverDatagram
  <2>4. ASSUME NEW d \in domande, UNCHANGED <<servizio, ordine, caduto, iniziale>>, server_select(d)
        PROVE  RimasteInv'
    BY <2>4, RimasteElimina
  <2>5. ASSUME NEW d \in domande, UNCHANGED <<servizio, ordine, caduto, iniziale>>, server(d)
        PROVE  RimasteInv'
    BY <2>5, RimasteTogli
  <2>6. ASSUME accept_senza_fd \/ divisione_impossibile
        PROVE  RimasteInv'
    BY <2>6, RimasteFermo DEF accept_senza_fd, divisione_impossibile
  <2> QED
    BY <1>2, <2>1, <2>2, <2>3, <2>4, <2>5, <2>6 DEF ServiziNext
<1> QED
  BY <1>1, <1>2 DEF Next, Sceglie, interrogazioniVars

LEMMA RimasteBuone == ServiziInv /\ RimasteInv => ParoleRimaste
<1> SUFFICES ASSUME ServiziInv, RimasteInv
             PROVE  ParoleRimaste
  OBVIOUS
<1> DEFINE Finito(testo) == IF servizio = "togli" THEN Append(testo, Spazio) ELSE testo
           S == IF servizio = "togli" THEN Bianchi ELSE Separatori
           sporco == servizio = "togli" /\ iniziale["tempFile"] # Assente
           fatte(g) == {t \in tolte : t.nome = g}
           restano(g) == ParoleSenza(Finito(iniziale[g]), S, {t.parola : t \in fatte(g)})
           sono(g) == ParoleSenza(Finito(disco[g]), S, {})
           Bene(g) ==
             IF sporco THEN g # "tempFile" /\ restano(g) # <<>> => IsPrefix(Front(restano(g)), sono(g))
             ELSE /\ sono(g) = restano(g)
                  /\ \A t \in fatte(g) : t.parola # <<>> =>
                       t.ris = IF \E u \in fatte(g) : u.parola = t.parola /\ u.volta < t.volta THEN 0
                               ELSE Volte(Finito(iniziale[g]), S, t.parola)
<1>1. ASSUME NEW g \in DOMAIN disco, iniziale[g] # Assente, fatte(g) # {} PROVE Bene(g)
  <2> DEFINE i == iniziale[g]
             F == Fatte(tolte, g)
  <2>1. servizio = "elimina" \/ servizio = "togli"
    BY <1>1 DEF RimasteInv
  <2>2. fatte(g) = F /\ {t.parola : t \in fatte(g)} = Vie(F)
    BY DEF Fatte, Vie
  <2>3. PICK V : V = Vie(F)
    OBVIOUS
  <2>4. V \cup {} = V
    OBVIOUS
  <2> HIDE DEF F
  <2>5. restano(g) = ParoleSenza(Finito(i), S, V)
    BY <2>2, <2>3
  <2>6. CASE sporco
    <3>1. TogliLascia /\ TogliOK /\ Sporco /\ servizio = "togli"
      BY <2>6 DEF RimasteInv, ServiziInv, StatoOK, Sporco
    <3>2. /\ g \in DOMAIN iniziale /\ restano(g) = ParoleSenza(Append(i, Spazio), Bianchi, V)
          /\ sono(g) = ParoleSenza(Append(disco[g], Spazio), Bianchi, {})
      BY <2>5, <3>1 DEF TogliOK
    <3>3. g # "tempFile" => Sporcata(i, V, disco[g])
      BY <1>1, <2>3, <3>1, <3>2 DEF TogliLascia, TestoRimasto, F
    <3>4. Lista(i)
      <4>1. iniziale \in Dischi["togli"] /\ "togli" \in DOMAIN Dischi
        BY <3>1 DEF TogliOK
      <4> QED
        BY <1>1, <3>2, <4>1, ServiziAssumption
    <3> HIDE DEF restano, sono, i, sporco
    <3>5. g # "tempFile" /\ restano(g) # <<>> => IsPrefix(Front(restano(g)), sono(g))
      BY <3>2, <3>3, <3>4, SporcataQuasi
    <3> QED
      BY <2>6, <3>5
  <2>7. CASE ~sporco
    <3>1. PICK a : a = Finito(disco[g])
      OBVIOUS
    <3>2. PICK b : b = Finito(i)
      OBVIOUS
    <3>3. Tolto(S, b, F, a)
      <4>1. CASE servizio = "elimina"
        <5>1. EliminaOK
          BY <4>1 DEF RimasteInv
        <5>2. Tolto(Separatori, i, F, disco[g])
          BY <1>1, <5>1 DEF EliminaOK, F
        <5> QED
          BY <3>1, <3>2, <4>1, <5>2
      <4>2. CASE servizio = "togli"
        <5>1. TogliLascia /\ TogliOK /\ ~Sporco
          BY <2>7, <4>2 DEF RimasteInv, ServiziInv, StatoOK, Sporco
        <5>2. Tolto(Bianchi, Append(i, Spazio), F, Append(disco[g], Spazio))
          BY <1>1, <5>1 DEF TogliLascia, TogliOK, TestoRimasto, F
        <5> QED
          BY <3>1, <3>2, <4>2, <5>2
      <4> QED
        BY <2>1, <4>1, <4>2
    <3>4. sono(g) = ParoleSenza(a, S, {}) /\ restano(g) = ParoleSenza(b, S, V)
      BY <2>5, <3>1, <3>2
    <3> HIDE DEF S, Finito, sono, restano
    <3>5. sono(g) = restano(g)
      <4>1. ParoleSenza(a, S, {}) = ParoleSenza(b, S, V \cup {})
        BY <2>3, <3>3 DEF Tolto, Rimaste
      <4> QED
        BY <2>4, <3>4, <4>1
    <3>6. \A t \in fatte(g) : t.parola # <<>> =>
            t.ris = IF \E u \in fatte(g) : u.parola = t.parola /\ u.volta < t.volta THEN 0
                    ELSE Volte(Finito(iniziale[g]), S, t.parola)
      <4>1. Risposte(S, b, F) /\ b = Finito(iniziale[g])
        BY <3>2, <3>3 DEF Tolto
      <4> HIDE DEF fatte
      <4> QED
        BY <2>2, <4>1 DEF Risposte
    <3> QED
      BY <2>7, <3>5, <3>6
  <2> QED
    BY <2>6, <2>7
<1> QED
  BY <1>1 DEF ParoleRimaste

\* ParoleRimaste: whatever deletions the clients of server_select and of the
\* UDP part of server.c ask for, of whatever words in whatever texts, a file
\* keeps the words it had but for those deleted, and each first deletion is
\* told how many words went.
THEOREM ParoleRimasteSempre == Spec => []ParoleRimaste
<1>1. Init => ServiziInv /\ RimasteInv
  BY ServiziInizio, RimasteInizio DEF Init
<1> QED
  BY <1>1, ServiziPasso, RimastePasso, RimasteBuone, PTL DEF Spec
=============================================================================
