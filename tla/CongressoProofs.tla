--------------------------- MODULE CongressoProofs ---------------------------
(***************************************************************************)
(* Proofs about Congresso for every number of clients, servers, days,      *)
(* sessions, places and calls.                                             *)
(*                                                                         *)
(* The properties speak of answers users have read.  Inv adds what is      *)
(* known of a call before that: a registration under way has a number      *)
(* nobody has used, one carried out has its place, places are taken in     *)
(* order, and the part of a programme already received has everyone the    *)
(* user may expect in it.                                                  *)
(***************************************************************************)
EXTENDS Congresso, TLAPS, WellFoundedInduction

\* The registrations with a place, and those refused, whether or not their
\* users have read the answer.
Effettuate == confermate \cup {chiamata[c] : c \in {c \in Client : fase[c] = "effettuata"}}
Rifiutate  == piene \cup {chiamata[c] : c \in {c \in Client : fase[c] = "piena"}}

\* A reference, or a registration, is of a server that has been started.
Collegato(c) ==
  /\ fase[c] = "servizio" => serverRMI[c] = Nullo \/ stato[serverRMI[c]] # "spento"
  /\ fase[c] \in InChiamata \cup {"programma"} => stato[serverRMI[c]] # "spento"

Avviati ==
  /\ \A i \in Righe : table[i].rif # Nullo => stato[table[i].rif] # "spento"
  /\ \A c \in Client : Collegato(c)
  /\ \A r \in confermate \cup piene : stato[r.server] # "spento"

\* A registration under way is the last call of its client, and is new.
Numeri ==
  /\ \A s \in Congressi, g \in Giorni, x \in Celle : speaker[s][g][x] # Libero =>
       speaker[s][g][x][2] <= chiamate[speaker[s][g][x][1]]
  /\ \A r \in confermate : r.chi[2] <= chiamate[r.chi[1]] /\ r.dopo \subseteq Chi(confermate)
  /\ \A c \in Client :
       /\ fase[c] \in InChiamata =>
            chiamata[c].chi = <<c, chiamate[c]>> /\ chiamata[c].chi \notin Chi(confermate)
       /\ fase[c] = "registra" =>
            \A s \in Congressi, g \in Giorni, x \in Celle : speaker[s][g][x] # chiamata[c].chi
       /\ fase[c] \in InChiamata \cup {"programma"} => chiamata[c].dopo \subseteq Chi(confermate)

\* Nobody has two places in a day, and the places of a session fill in order.
Ordinati ==
  \A s \in Congressi, g \in Giorni :
    /\ \A x, y \in Celle : speaker[s][g][x] = speaker[s][g][y] => x = y \/ speaker[s][g][x] = Libero
    /\ \A e \in 1 .. Sessioni, j, k \in 1 .. Posti :
         j < k /\ speaker[s][g][<<e, k>>] # Libero => speaker[s][g][<<e, j>>] # Libero

Cella(r, k) == speaker[r.server][r.giorno][<<r.sessione, k>>]

Collocati ==
  /\ \A r \in Effettuate : Esporta(r.server) => \E k \in 1 .. Posti : Cella(r, k) = r.chi
  /\ \A r \in Rifiutate : Esporta(r.server) =>
       \A k \in 1 .. Posti : Cella(r, k) # Libero /\ Cella(r, k) # r.chi

\* What a client has received of a programme.
Ricevuti ==
  \A c \in Client : fase[c] = "programma" /\ Esporta(serverRMI[c]) =>
    LET celle == chiamata[c].celle  g == chiamata[c].giorno  s == serverRMI[c] IN
      /\ \A r \in confermate : r.chi \in chiamata[c].dopo /\ r.server = s /\ r.giorno = g =>
           \E k \in 1 .. Posti :
             Cella(r, k) = r.chi /\ celle[<<r.sessione, k>>] \in {NonLetto, r.chi}
      /\ \A x \in Celle : celle[x] \in {NonLetto, Libero, speaker[s][g][x]}

\* Whoever asked after a confirmation has a later place.
InOrdine ==
  \A r \in Effettuate, q \in confermate :
    /\ Esporta(r.server)
    /\ q.chi \in r.dopo
    /\ q.server = r.server /\ q.giorno = r.giorno /\ q.sessione = r.sessione
    => \A j, k \in 1 .. Posti : Cella(q, j) = q.chi /\ Cella(r, k) = r.chi => j < k

Inv == TypeOK /\ Avviati /\ Numeri /\ Ordinati /\ Collocati /\ Ricevuti /\ InOrdine
-----------------------------------------------------------------------------
(* Types. *)

\* The conjuncts of TypeOK about the registry.
TabellaOK ==
  /\ table \in [Righe -> [nome : Nomi \cup {Nullo}, rif : Server \cup {Nullo},
                          tags : (UNION {tags[s] : s \in Server}) \cup {Nullo}]]
  /\ \A i \in Righe : table[i].nome = Nullo <=> table[i].rif = Nullo

LEMMA TabellaAggiungi ==
  ASSUME TabellaOK, NEW s \in Server, aggiungi(serviceName[s], s)
  PROVE  TabellaOK' /\ \A i \in Righe : table'[i].rif \in {table[i].rif, s}
<1>1. CASE Libere = {}
  BY <1>1 DEF aggiungi, Primo, TabellaOK
<1>2. ASSUME NEW i \in Righe, table' = [table EXCEPT ![i].nome = serviceName[s], ![i].rif = s]
      PROVE  TabellaOK' /\ \A j \in Righe : table'[j].rif \in {table[j].rif, s}
  <2>1. serviceName[s] \in Nomi /\ serviceName[s] # Nullo /\ s # Nullo
    BY CongressoAssumption DEF Nomi
  <2>2. /\ table'[i] = [nome |-> serviceName[s], rif |-> s, tags |-> table[i].tags]
        /\ \A j \in Righe \ {i} : table'[j] = table[j]
        /\ table' = [j \in Righe |-> table'[j]]
    BY <1>2 DEF TabellaOK
  <2> QED
    BY <1>2, <2>1, <2>2 DEF TabellaOK
<1> QED
  BY <1>1, <1>2 DEF aggiungi, Primo, Libere, TabellaOK

LEMMA TabellaLibera ==
  ASSUME TabellaOK, NEW S, Libera(S)
  PROVE  TabellaOK' /\ \A i \in Righe : table'[i].rif \in {table[i].rif, Nullo}
<1>1. /\ table' = [i \in Righe |-> table'[i]]
      /\ \A i \in Righe : \/ table'[i] = table[i]
                          \/ table'[i] = [nome |-> Nullo, rif |-> Nullo, tags |-> table[i].tags]
  BY DEF TabellaOK, Libera
<1> QED
  BY <1>1 DEF TabellaOK

LEMMA TabellaAssocia ==
  ASSUME TabellaOK, NEW s \in Server, NEW t \in tags[s], associaTags(serviceName[s], t)
  PROVE  TabellaOK' /\ \A i \in Righe : table'[i].rif = table[i].rif
BY DEF TabellaOK, associaTags

\* A search stops at the first row that matches: if some do, one is the first.
LEMMA MinimoEsiste ==
  ASSUME NEW S, S \subseteq Nat, S # {}
  PROVE  \E i \in S : \A j \in S : i <= j
<1> DEFINE R == OpToRel(<, Nat)
<1>1. \A x, y \in Nat : y < x => <<y, x>> \in R
  BY DEF OpToRel
<1>2. IsWellFoundedOn(R, Nat)
  BY NatLessThanWellFounded
<1>3. \E x \in S : \A y \in S : ~ (<<y, x>> \in R)
  BY <1>2, WFMin
<1> HIDE DEF R
<1>4. PICK i \in S : \A y \in S : ~ (<<y, i>> \in R)
  BY <1>3
<1>5. \A y \in S : ~ (y < i)
  BY <1>1, <1>4
<1>6. \A y \in S : i <= y
  BY <1>5, SMT
<1> QED
  BY <1>6

\* What a search by name returns is in the table, unless it is null.
LEMMA RiferimentoTipato ==
  ASSUME NEW n, cerca(n) # Nullo
  PROVE  \E i \in Righe : cerca(n) = table[i].rif
<1>1. Con(n) # {}
  BY DEF cerca
<1>2. Con(n) \subseteq Nat
  BY RegistryAssumption DEF Con, Righe
<1>3. \E i \in Primo(Con(n)) : TRUE
  BY <1>1, <1>2, MinimoEsiste DEF Primo
<1>4. (CHOOSE i \in Primo(Con(n)) : TRUE) \in Righe
  BY <1>3 DEF Primo, Con
<1> QED
  BY <1>1, <1>4 DEF cerca

LEMMA TypeInit == Init => TypeOK
BY RegistryAssumption, CongressoAssumption
DEF Init, RegistryInit, RigaVuota, TypeOK, Vuoto, InChiamata

\* The conjuncts of TypeOK about one client.
ClienteOK(c) ==
  /\ chiamate[c] <= MaxChiamate[c]
  /\ fase[c] = "servizio" => serverRMI[c] \in Congressi \cup {Nullo}
  /\ fase[c] = "programma" => serverRMI[c] \in Congressi /\ chiamata[c] \in Consultazioni
  /\ fase[c] \in InChiamata => chiamata[c] \in Iscrizioni /\ serverRMI[c] = chiamata[c].server

\* The conjuncts of TypeOK about all clients.
ClientiOK ==
  /\ fase \in [Client -> {"tag", "nome", "servizio", "programma", "fine"} \cup InChiamata]
  /\ serverRMI \in [Client -> Congressi \cup {Nullo} \cup [nome : Nomi, tag : TagUtente]]
  /\ chiamata \in [Client -> Iscrizioni \cup Consultazioni \cup {Nullo}]
  /\ chiamate \in [Client -> Nat]
  /\ \A c \in Client : ClienteOK(c)

\* The conjuncts of TypeOK about the servers.
ServerOK ==
  /\ eliminazioni \in 0 .. MaxEliminazioni
  /\ stato \in [Server -> {"spento", "aggiunto", "attivo", "morto"}]
  /\ speaker \in [Congressi -> [Giorni -> [Celle -> Speaker \cup {Libero}]]]

StoriaOK == confermate \subseteq Iscrizioni /\ piene \subseteq Iscrizioni

LEMMA TipiSeparati == TypeOK <=> TabellaOK /\ ServerOK /\ ClientiOK /\ StoriaOK
BY DEF TypeOK, TabellaOK, ServerOK, ClientiOK, ClienteOK, StoriaOK

LEMMA TabellaStep == TypeOK /\ [Next]_vars => TabellaOK'
<1> SUFFICES ASSUME TypeOK, [Next]_vars PROVE TabellaOK'
  OBVIOUS
<1>1. TabellaOK
  BY TipiSeparati
<1>2. CASE UNCHANGED table
  BY <1>1, <1>2 DEF TabellaOK
<1>3. ASSUME NEW s \in Server, main_aggiungi(s) PROVE TabellaOK'
  BY <1>1, <1>3, TabellaAggiungi DEF main_aggiungi
<1>4. ASSUME NEW s \in Server, main_associa(s) PROVE TabellaOK'
  BY <1>1, <1>4, TabellaAssocia DEF main_associa
<1>5. ASSUME NEW s \in Server, Elimina(serviceName[s]) PROVE TabellaOK'
  BY <1>1, <1>5, TabellaLibera DEF Elimina, eliminaPrimo, eliminaTutti
<1>6. ASSUME NEW s \in Server, main_rifiutato(s) \/ Muore(s) PROVE UNCHANGED table
  BY <1>6 DEF main_rifiutato, Muore, Fine, registryVars
<1>7. ASSUME NEW c \in Client, Chiamata(c) PROVE UNCHANGED table
  BY <1>7 DEF Chiamata, registra, Assegna, registra_piena, programma, registryVars
<1>8. ASSUME NEW c \in Client, Cliente(c) PROVE UNCHANGED table
  BY <1>8 DEF Cliente, ricerca_trova, ricerca_fallisce, cerca_nome, nuovo_tag, termina,
     chiede_registrazione, chiede_programma, Chiede, legge_effettuata, legge_piena, stampa,
     Ritorna, registryVars
<1> QED
  BY <1>2, <1>3, <1>4, <1>5, <1>6, <1>7, <1>8 DEF Next, Servizio, vars, registryVars

\* The programmes after registration r has been given place k.
Occupa(r, k) ==
  /\ <<r.sessione, k>> \in Celle
  /\ \A s \in Congressi, g \in Giorni, x \in Celle :
       speaker'[s][g][x] = IF s = r.server /\ g = r.giorno /\ x = <<r.sessione, k>>
                             THEN r.chi ELSE speaker[s][g][x]

LEMMA AssegnaEffetto ==
  ASSUME TypeOK, NEW c \in Client, Richiesto(c), NEW k \in 1 .. Posti, Assegna(c, k)
  PROVE  /\ chiamata[c] \in Iscrizioni /\ chiamata[c].server = serverRMI[c]
         /\ speaker' \in [Congressi -> [Giorni -> [Celle -> Speaker \cup {Libero}]]]
         /\ Occupa(chiamata[c], k)
<1> DEFINE r == chiamata[c]
<1>1. r \in Iscrizioni /\ r.server = serverRMI[c]
  BY DEF TypeOK, Richiesto, InChiamata
<1>2. /\ r.server \in Congressi /\ r.giorno \in Giorni /\ <<r.sessione, k>> \in Celle
      /\ r.chi \in Speaker
  BY <1>1 DEF Iscrizioni, Celle
<1>3. speaker' = [speaker EXCEPT ![r.server][r.giorno][<<r.sessione, k>>] = r.chi]
  BY DEF Assegna
<1>4. speaker \in [Congressi -> [Giorni -> [Celle -> Speaker \cup {Libero}]]]
  BY DEF TypeOK
<1> HIDE DEF r
<1>5. speaker' \in [Congressi -> [Giorni -> [Celle -> Speaker \cup {Libero}]]]
  BY <1>2, <1>3, <1>4
<1>6. Occupa(r, k)
  BY <1>2, <1>3, <1>4 DEF Occupa
<1> QED
  BY <1>1, <1>5, <1>6 DEF r

LEMMA ServerStep == TypeOK /\ [Next]_vars => ServerOK'
<1> SUFFICES ASSUME TypeOK, [Next]_vars PROVE ServerOK'
  OBVIOUS
<1>1. ServerOK
  BY TipiSeparati
<1>2. CASE UNCHANGED <<eliminazioni, stato, speaker>>
  BY <1>1, <1>2 DEF ServerOK
<1>3. ASSUME NEW s \in Server, main_aggiungi(s) \/ main_associa(s) PROVE ServerOK'
  BY <1>1, <1>3 DEF main_aggiungi, main_associa, ServerOK
<1>4. ASSUME NEW s \in Server, main_rifiutato(s) \/ Muore(s) PROVE ServerOK'
  BY <1>1, <1>4 DEF main_rifiutato, Muore, Fine, registryVars, Vuoto, ServerOK
<1>5. ASSUME NEW s \in Server, Elimina(serviceName[s]) PROVE ServerOK'
  BY <1>1, <1>5, CongressoAssumption DEF Elimina, serverVars, ServerOK
<1>6. ASSUME NEW c \in Client, registra(c) PROVE ServerOK'
  <2>1. PICK k \in 1 .. Posti : Assegna(c, k)
    BY <1>6 DEF registra, Primo, LibereIn
  <2>2. speaker' \in [Congressi -> [Giorni -> [Celle -> Speaker \cup {Libero}]]]
    BY <1>6, <2>1, AssegnaEffetto DEF registra
  <2> QED
    BY <1>1, <2>1, <2>2 DEF Assegna, registryVars, ServerOK
<1>7. ASSUME NEW c \in Client, registra_piena(c) \/ programma(c)
      PROVE  UNCHANGED <<eliminazioni, stato, speaker>>
  BY <1>7 DEF registra_piena, programma, registryVars, serverVars
<1>8. ASSUME NEW c \in Client, Cliente(c) PROVE UNCHANGED <<eliminazioni, stato, speaker>>
  BY <1>8 DEF Cliente, ricerca_trova, ricerca_fallisce, cerca_nome, nuovo_tag, termina,
     chiede_registrazione, chiede_programma, Chiede, legge_effettuata, legge_piena, stampa,
     Ritorna, registryVars, serverVars
<1> QED
  BY <1>2, <1>3, <1>4, <1>5, <1>6, <1>7, <1>8
  DEF Next, Servizio, Chiamata, vars, registryVars, serverVars

\* A step of client c that leaves its own variables well typed.
LEMMA ClientiCambio ==
  ASSUME ClientiOK, NEW c \in Client,
         NEW f \in {"tag", "nome", "servizio", "programma", "fine"} \cup InChiamata,
         NEW v \in Congressi \cup {Nullo} \cup [nome : Nomi, tag : TagUtente],
         NEW r \in Iscrizioni \cup Consultazioni \cup {Nullo},
         NEW n \in Nat,
         fase' = [fase EXCEPT ![c] = f],
         serverRMI' = [serverRMI EXCEPT ![c] = v],
         chiamata' = [chiamata EXCEPT ![c] = r],
         chiamate' = [chiamate EXCEPT ![c] = n],
         n <= MaxChiamate[c],
         f = "servizio" => v \in Congressi \cup {Nullo},
         f = "programma" => v \in Congressi /\ r \in Consultazioni,
         f \in InChiamata => r \in Iscrizioni /\ v = r.server
  PROVE  ClientiOK'
<1>1. ClienteOK(c)'
  BY DEF ClientiOK, ClienteOK
<1>2. ASSUME NEW d \in Client, d # c PROVE ClienteOK(d)'
  BY <1>2 DEF ClientiOK, ClienteOK
<1> QED
  BY <1>1, <1>2 DEF ClientiOK

LEMMA ClientiStep == TypeOK /\ [Next]_vars => ClientiOK'
<1> SUFFICES ASSUME TypeOK, [Next]_vars PROVE ClientiOK'
  OBVIOUS
<1> USE CongressoAssumption
<1>1. ClientiOK /\ TabellaOK
  BY TipiSeparati
<1>2. CASE UNCHANGED clientVars
  BY <1>1, <1>2 DEF ClientiOK, ClienteOK, clientVars
<1>3. ASSUME NEW s \in Server, Servizio(s) \/ Elimina(serviceName[s]) PROVE UNCHANGED clientVars
  BY <1>3 DEF Servizio, main_aggiungi, main_associa, main_rifiutato, Muore, Fine, Elimina
<1>4. ASSUME NEW c \in Client
      PROVE  /\ ClienteOK(c)
             /\ fase = [fase EXCEPT ![c] = fase[c]]
             /\ serverRMI = [serverRMI EXCEPT ![c] = serverRMI[c]]
             /\ chiamata = [chiamata EXCEPT ![c] = chiamata[c]]
             /\ chiamate = [chiamate EXCEPT ![c] = chiamate[c]]
             /\ fase[c] \in {"tag", "nome", "servizio", "programma", "fine"} \cup InChiamata
             /\ serverRMI[c] \in Congressi \cup {Nullo} \cup [nome : Nomi, tag : TagUtente]
             /\ chiamata[c] \in Iscrizioni \cup Consultazioni \cup {Nullo}
             /\ chiamate[c] \in Nat
  BY <1>1 DEF ClientiOK
<1>5. ASSUME NEW c \in Client, registra(c) \/ registra_piena(c) PROVE ClientiOK'
  <2>1. fase[c] = "registra" /\ UNCHANGED <<serverRMI, chiamata, chiamate>>
    BY <1>5 DEF registra, Richiesto, Assegna, registra_piena
  <2>2. PICK f \in {"effettuata", "piena"} : fase' = [fase EXCEPT ![c] = f]
    BY <1>5 DEF registra, Assegna, registra_piena
  <2>3. /\ f \in InChiamata /\ f # "servizio" /\ f # "programma"
        /\ chiamata[c] \in Iscrizioni /\ serverRMI[c] = chiamata[c].server
        /\ chiamate[c] <= MaxChiamate[c]
    BY <1>4, <2>1 DEF ClienteOK, InChiamata
  <2>4. /\ serverRMI' = [serverRMI EXCEPT ![c] = serverRMI[c]]
        /\ chiamata' = [chiamata EXCEPT ![c] = chiamata[c]]
        /\ chiamate' = [chiamate EXCEPT ![c] = chiamate[c]]
    BY <1>4, <2>1
  <2> QED
    BY <1>1, <1>4, <2>2, <2>3, <2>4, ClientiCambio
<1>6. ASSUME NEW c \in Client, programma(c) PROVE ClientiOK'
  <2>1. fase[c] = "programma" /\ UNCHANGED <<fase, serverRMI, chiamate>>
    BY <1>6 DEF programma
  <2>2. chiamata[c] \in Consultazioni /\ serverRMI[c] \in Congressi
    BY <1>4, <2>1 DEF ClienteOK
  <2>3. PICK x \in Celle : chiamata' = [chiamata EXCEPT ![c].celle[x] =
                             speaker[serverRMI[c]][chiamata[c].giorno][x]]
    BY <1>6 DEF programma
  <2>4. speaker[serverRMI[c]][chiamata[c].giorno][x] \in Speaker \cup {Libero}
    BY <2>2 DEF TypeOK, Consultazioni
  <2> DEFINE r == [chiamata[c] EXCEPT !.celle[x] = speaker[serverRMI[c]][chiamata[c].giorno][x]]
  <2>5. r \in Consultazioni
    BY <2>2, <2>4 DEF Consultazioni
  <2>6. chiamata' = [chiamata EXCEPT ![c] = r]
    BY <1>1, <2>3 DEF ClientiOK
  <2> HIDE DEF r
  <2> QED
    BY <1>1, <1>4, <2>1, <2>2, <2>5, <2>6, ClientiCambio, ZenonT(30) DEF ClienteOK, InChiamata
<1>7. ASSUME NEW c \in Client, ricerca_trova(c) PROVE ClientiOK'
  <2>1. PICK t \in TagUtente, i \in Viste :
          /\ serverRMI' = [serverRMI EXCEPT ![c] = [nome |-> table[i].nome, tag |-> t]]
    BY <1>7 DEF ricerca_trova, Primo, cercaTag
  <2>2. i \in Righe /\ table[i].nome \in Nomi
    BY <1>1, RegistryAssumption DEF Viste, TabellaOK, Righe
  <2>3. [nome |-> table[i].nome, tag |-> t] \in [nome : Nomi, tag : TagUtente]
    BY <2>2
  <2> QED
    BY <1>1, <1>4, <1>7, <2>1, <2>3, ClientiCambio DEF ricerca_trova, ClienteOK, InChiamata
<1>8. ASSUME NEW c \in Client, ricerca_fallisce(c) PROVE ClientiOK'
  <2>1. fase' = [fase EXCEPT ![c] = "fine"] /\ UNCHANGED <<serverRMI, chiamata, chiamate>>
    BY <1>8 DEF ricerca_fallisce
  <2>2. "fine" \notin InChiamata /\ chiamate[c] <= MaxChiamate[c]
    BY <1>4 DEF ClienteOK, InChiamata
  <2> QED
    BY <1>1, <1>4, <2>1, <2>2, ClientiCambio
<1>9. ASSUME NEW c \in Client, cerca_nome(c) PROVE ClientiOK'
  <2>1. PICK f \in {"servizio", "tag", "fine"}, v \in Congressi \cup {Nullo} :
          fase' = [fase EXCEPT ![c] = f] /\ serverRMI' = [serverRMI EXCEPT ![c] = v]
    BY <1>9 DEF cerca_nome
  <2> QED
    BY <1>1, <1>4, <1>9, <2>1, ClientiCambio DEF cerca_nome, ClienteOK, InChiamata
<1>10. ASSUME NEW c \in Client, nuovo_tag(c) \/ termina(c) PROVE ClientiOK'
  <2>1. PICK f \in {"tag", "fine"}, r \in {chiamata[c], Nullo} :
          /\ fase' = [fase EXCEPT ![c] = f] /\ serverRMI' = [serverRMI EXCEPT ![c] = Nullo]
          /\ chiamata' = [chiamata EXCEPT ![c] = r] /\ UNCHANGED chiamate
    BY <1>4, <1>10 DEF nuovo_tag, termina
  <2> QED
    BY <1>1, <1>4, <2>1, ClientiCambio DEF ClienteOK, InChiamata
<1>11. ASSUME NEW c \in Client, NEW f, NEW r, Chiede(c, f, r),
              f \in {"registra", "programma"},
              f = "registra" => r \in Iscrizioni /\ r.server = serverRMI[c],
              f = "programma" => r \in Consultazioni
       PROVE  ClientiOK'
  <2>1. serverRMI[c] \in Congressi /\ UNCHANGED serverRMI
    BY <1>4, <1>11 DEF Chiede, ClienteOK
  <2>2. chiamate[c] + 1 \in Nat /\ chiamate[c] + 1 <= MaxChiamate[c]
    BY <1>4, <1>11 DEF Chiede
  <2> QED
    BY <1>1, <1>4, <1>11, <2>1, <2>2, ClientiCambio DEF Chiede, InChiamata
<1>12. Chi(confermate) \in SUBSET Speaker
  BY DEF Chi, TypeOK, Iscrizioni
<1>13. ASSUME NEW c \in Client, chiede_registrazione(c) PROVE ClientiOK'
  <2> DEFINE r(g, e) == [server |-> serverRMI[c], giorno |-> g, sessione |-> e,
                         chi |-> <<c, chiamate[c] + 1>>, dopo |-> Chi(confermate)]
  <2>1. PICK g \in Giorni, e \in 1 .. Sessioni : Chiede(c, "registra", r(g, e))
    BY <1>13 DEF chiede_registrazione
  <2>2. serverRMI[c] \in Congressi
    BY <1>4, <2>1 DEF Chiede, ClienteOK
  <2>3. <<c, chiamate[c] + 1>> \in Speaker
    BY <1>4, <2>1 DEF Chiede, Speaker
  <2>4. r(g, e) \in Iscrizioni /\ r(g, e).server = serverRMI[c]
    BY <1>12, <2>2, <2>3 DEF Iscrizioni
  <2> QED
    BY <1>11, <2>1, <2>4
<1>14. ASSUME NEW c \in Client, chiede_programma(c) PROVE ClientiOK'
  <2> DEFINE r(g) == [giorno |-> g, celle |-> [x \in Celle |-> NonLetto],
                      dopo |-> Chi(confermate)]
  <2>1. PICK g \in Giorni : Chiede(c, "programma", r(g))
    BY <1>14 DEF chiede_programma
  <2>2. r(g) \in Consultazioni
    BY <1>12 DEF Consultazioni
  <2> QED
    BY <1>11, <2>1, <2>2
<1>15. ASSUME NEW c \in Client, legge_effettuata(c) \/ legge_piena(c) \/ stampa(c) PROVE ClientiOK'
  <2>1. Ritorna(c) /\ fase[c] \in {"effettuata", "piena", "programma"}
    BY <1>15 DEF legge_effettuata, legge_piena, stampa
  <2>2. serverRMI[c] \in Congressi
    BY <1>4, <2>1 DEF ClienteOK, InChiamata, Iscrizioni
  <2> QED
    BY <1>1, <1>4, <2>1, <2>2, ClientiCambio DEF Ritorna, ClienteOK, InChiamata
<1> QED
  BY <1>2, <1>3, <1>5, <1>6, <1>7, <1>8, <1>9, <1>10, <1>13, <1>14, <1>15
  DEF Next, Chiamata, Cliente, vars

LEMMA StoriaStep == TypeOK /\ [Next]_vars => StoriaOK'
<1> SUFFICES ASSUME TypeOK, [Next]_vars PROVE StoriaOK'
  OBVIOUS
<1>1. StoriaOK /\ ClientiOK
  BY TipiSeparati
<1>2. CASE UNCHANGED storia
  BY <1>1, <1>2 DEF StoriaOK, storia
<1>3. ASSUME NEW s \in Server, Servizio(s) \/ Elimina(serviceName[s]) PROVE UNCHANGED storia
  BY <1>3 DEF Servizio, main_aggiungi, main_associa, main_rifiutato, Muore, Fine, Elimina
<1>4. ASSUME NEW c \in Client, legge_effettuata(c) \/ legge_piena(c) PROVE StoriaOK'
  <2>1. fase[c] \in {"effettuata", "piena"}
    BY <1>4 DEF legge_effettuata, legge_piena
  <2>2. chiamata[c] \in Iscrizioni
    BY <1>1, <2>1 DEF ClientiOK, ClienteOK, InChiamata
  <2> QED
    BY <1>1, <1>4, <2>2 DEF legge_effettuata, legge_piena, StoriaOK
<1>5. ASSUME NEW c \in Client, Chiamata(c) PROVE UNCHANGED storia
  BY <1>5 DEF Chiamata, registra, Assegna, registra_piena, programma
<1>6. ASSUME NEW c \in Client, Cliente(c), ~ legge_effettuata(c), ~ legge_piena(c)
      PROVE  UNCHANGED storia
  BY <1>6 DEF Cliente, ricerca_trova, ricerca_fallisce, cerca_nome, nuovo_tag, termina,
     chiede_registrazione, chiede_programma, Chiede, stampa, storia
<1> QED
  BY <1>2, <1>3, <1>4, <1>5, <1>6 DEF Next, vars

LEMMA TypeStep == TypeOK /\ [Next]_vars => TypeOK'
<1>1. (TabellaOK /\ ServerOK /\ ClientiOK /\ StoriaOK)' => TypeOK'
  BY DEF TypeOK, TabellaOK, ServerOK, ClientiOK, ClienteOK, StoriaOK
<1> QED
  BY <1>1, TabellaStep, ServerStep, ClientiStep, StoriaStep

\* Every variable keeps its type: what the methods of the registry and of the
\* congress store is what they are given.
THEOREM TypeOKInvariante == Spec => []TypeOK
<1> QED
  BY TypeInit, TypeStep, PTL DEF Spec
-----------------------------------------------------------------------------
(* What a step may do to the programmes, to the servers and to the calls. *)

\* A server never starts twice, and dies for good.
LEMMA StatoStep ==
  ASSUME TypeOK, [Next]_vars, NEW s \in Server, stato[s] # "spento"
  PROVE  stato'[s] # "spento" /\ (Esporta(s)' => Esporta(s))
<1>1. CASE UNCHANGED stato
  BY <1>1 DEF Esporta
<1>2. ASSUME NEW t \in Server, main_aggiungi(t) \/ main_associa(t) \/ main_rifiutato(t) \/ Muore(t)
      PROVE  stato'[s] # "spento" /\ (Esporta(s)' => Esporta(s))
  BY <1>2 DEF TypeOK, main_aggiungi, main_associa, main_rifiutato, Muore, Fine, Esporta
<1>3. ASSUME NEW n, Elimina(n) PROVE UNCHANGED stato
  BY <1>3 DEF Elimina, serverVars
<1>4. ASSUME NEW c \in Client, Chiamata(c) PROVE UNCHANGED stato
  BY <1>4 DEF Chiamata, registra, Assegna, registra_piena, programma, serverVars
<1>5. ASSUME NEW c \in Client, Cliente(c) PROVE UNCHANGED stato
  BY <1>5 DEF Cliente, ricerca_trova, ricerca_fallisce, cerca_nome, nuovo_tag, termina,
     chiede_registrazione, chiede_programma, Chiede, legge_effettuata, legge_piena, stampa,
     Ritorna, serverVars
<1> QED
  BY <1>1, <1>2, <1>3, <1>4, <1>5 DEF Next, Servizio, vars, serverVars

\* The programmes change when a registration is carried out, or are lost.
LEMMA SpeakerStep ==
  ASSUME TypeOK, [Next]_vars
  PROVE  \/ UNCHANGED speaker
         \/ \E s \in Server : Fine(s)
         \/ \E c \in Client : registra(c)
<1>1. ASSUME NEW s \in Server, Servizio(s) \/ Elimina(serviceName[s])
      PROVE  UNCHANGED speaker \/ Fine(s)
  BY <1>1 DEF Servizio, main_aggiungi, main_associa, main_rifiutato, Muore, Elimina, serverVars
<1>2. ASSUME NEW c \in Client, Chiamata(c) PROVE UNCHANGED speaker \/ registra(c)
  BY <1>2 DEF Chiamata, registra_piena, programma, serverVars
<1>3. ASSUME NEW c \in Client, Cliente(c) PROVE UNCHANGED speaker
  BY <1>3 DEF Cliente, ricerca_trova, ricerca_fallisce, cerca_nome, nuovo_tag, termina,
     chiede_registrazione, chiede_programma, Chiede, legge_effettuata, legge_piena, stampa,
     Ritorna, serverVars
<1> QED
  BY <1>1, <1>2, <1>3 DEF Next, vars, serverVars

\* registra gives the first free place of its session.
LEMMA RegistraEffetto ==
  ASSUME TypeOK, NEW c \in Client, registra(c)
  PROVE  /\ fase[c] = "registra" /\ chiamata[c] \in Iscrizioni
         /\ Esporta(chiamata[c].server)
         /\ UNCHANGED <<stato, chiamata, chiamate, confermate, piene>>
         /\ fase' = [fase EXCEPT ![c] = "effettuata"]
         /\ \E k \in 1 .. Posti :
              /\ Cella(chiamata[c], k) = Libero
              /\ \A j \in 1 .. k - 1 : Cella(chiamata[c], j) # Libero
              /\ Occupa(chiamata[c], k)
<1>1. PICK k \in Primo(LibereIn(chiamata[c])) : Assegna(c, k)
  BY DEF registra
<1>2. k \in 1 .. Posti /\ Cella(chiamata[c], k) = Libero
  BY DEF Primo, LibereIn, Cella
<1>3. \A j \in 1 .. k - 1 : Cella(chiamata[c], j) # Libero
  BY <1>2, CongressoAssumption DEF Primo, LibereIn, Cella
<1>4. Richiesto(c)
  BY DEF registra
<1>5. /\ chiamata[c] \in Iscrizioni /\ chiamata[c].server = serverRMI[c]
      /\ Occupa(chiamata[c], k)
  BY <1>1, <1>2, <1>4, AssegnaEffetto
<1>6. /\ UNCHANGED <<stato, chiamata, chiamate, confermate, piene>>
      /\ fase' = [fase EXCEPT ![c] = "effettuata"]
  BY <1>1 DEF Assegna, storia
<1> QED
  BY <1>2, <1>3, <1>4, <1>5, <1>6 DEF Richiesto

\* A place that is taken stays as it is while the server lives.
LEMMA PostoStabile ==
  ASSUME TypeOK, [Next]_vars, NEW s \in Congressi, Esporta(s)',
         NEW g \in Giorni, NEW x \in Celle, speaker[s][g][x] # Libero
  PROVE  speaker'[s][g][x] = speaker[s][g][x]
<1>1. ASSUME NEW t \in Server, Fine(t) PROVE speaker'[s][g][x] = speaker[s][g][x]
  BY <1>1, CongressoAssumption DEF Fine, TypeOK, Esporta
<1>2. ASSUME NEW c \in Client, registra(c) PROVE speaker'[s][g][x] = speaker[s][g][x]
  <2>1. PICK k \in 1 .. Posti : Cella(chiamata[c], k) = Libero /\ Occupa(chiamata[c], k)
    BY <1>2, RegistraEffetto
  <2> QED
    BY <2>1 DEF Occupa, Cella
<1> QED
  BY <1>1, <1>2, SpeakerStep

\* A step of a client, or for a client, is nothing to the others.
LEMMA AltriClienti ==
  ASSUME TypeOK, NEW c \in Client, NEW d \in Client, d # c, Chiamata(c) \/ Cliente(c)
  PROVE  /\ fase'[d] = fase[d] /\ serverRMI'[d] = serverRMI[d]
         /\ chiamata'[d] = chiamata[d] /\ chiamate'[d] = chiamate[d]
<1>1. CASE Chiamata(c)
  BY <1>1 DEF Chiamata, registra, Assegna, registra_piena, programma, TypeOK
<1>2. CASE Cliente(c)
  BY <1>2 DEF Cliente, ricerca_trova, ricerca_fallisce, cerca_nome, nuovo_tag, termina,
     chiede_registrazione, chiede_programma, Chiede, legge_effettuata, legge_piena, stampa,
     Ritorna, TypeOK
<1> QED
  BY <1>1, <1>2

\* A step of a server's main, or a removal from the registry, is nothing to them.
LEMMA PassoServer ==
  ASSUME NEW s \in Server, Servizio(s) \/ Elimina(serviceName[s])
  PROVE  UNCHANGED <<fase, serverRMI, chiamata, chiamate, confermate, piene>>
BY DEF Servizio, main_aggiungi, main_associa, main_rifiutato, Muore, Fine, Elimina, clientVars, storia

LEMMA AvviatiInit == Init => Avviati
BY DEF Init, RegistryInit, RigaVuota, Avviati, Collegato, InChiamata

LEMMA AvviatiStep == TypeOK /\ Avviati /\ [Next]_vars => Avviati'
<1> SUFFICES ASSUME TypeOK, Avviati, [Next]_vars PROVE Avviati'
  OBVIOUS
<1> USE CongressoAssumption
<1>1. TabellaOK /\ ClientiOK /\ StoriaOK /\ ClientiOK' /\ TabellaOK'
  BY TipiSeparati, ClientiStep, TabellaStep
<1>2. \A s \in Server : stato[s] # "spento" => stato'[s] # "spento"
  BY StatoStep
<1>3. \A i \in Righe : table'[i].rif # Nullo => stato'[table'[i].rif] # "spento"
  <2>1. ASSUME NEW s \in Server, main_aggiungi(s), NEW i \in Righe, table'[i].rif # Nullo
        PROVE  stato'[table'[i].rif] # "spento"
    <3>1. table'[i].rif \in {table[i].rif, s} /\ stato'[s] = "aggiunto"
      BY <1>1, <2>1, TabellaAggiungi DEF main_aggiungi, TypeOK
    <3> QED
      BY <1>1, <1>2, <2>1, <3>1 DEF Avviati, TabellaOK
  <2>2. ASSUME NEW s \in Server, main_associa(s) \/ Elimina(serviceName[s])
        PROVE  \A i \in Righe : table'[i].rif \in {table[i].rif, Nullo}
    BY <1>1, <2>2, TabellaAssocia, TabellaLibera
    DEF main_associa, Elimina, eliminaPrimo, eliminaTutti
  <2>3. ASSUME NEW s \in Server, main_rifiutato(s) \/ Muore(s) PROVE UNCHANGED table
    BY <2>3 DEF main_rifiutato, Muore, Fine, registryVars
  <2>4. ASSUME NEW c \in Client, Chiamata(c) PROVE UNCHANGED table
    BY <2>4 DEF Chiamata, registra, Assegna, registra_piena, programma, registryVars
  <2>5. ASSUME NEW c \in Client, Cliente(c) PROVE UNCHANGED table
    BY <2>5 DEF Cliente, ricerca_trova, ricerca_fallisce, cerca_nome, nuovo_tag, termina,
       chiede_registrazione, chiede_programma, Chiede, legge_effettuata, legge_piena, stampa,
       Ritorna, registryVars
  <2>6. ASSUME \A i \in Righe : table'[i].rif \in {table[i].rif, Nullo}
        PROVE  \A i \in Righe : table'[i].rif # Nullo => stato'[table'[i].rif] # "spento"
    BY <1>1, <1>2, <2>6 DEF Avviati, TabellaOK
  <2> QED
    BY <2>1, <2>2, <2>3, <2>4, <2>5, <2>6 DEF Next, Servizio, vars, registryVars
<1>4. \A c \in Client : Collegato(c)'
  <2>1. ASSUME NEW c \in Client, fase'[c] = fase[c], serverRMI'[c] = serverRMI[c]
        PROVE  Collegato(c)'
    BY <1>1, <1>2, <2>1 DEF Avviati, Collegato, ClientiOK, ClienteOK, Iscrizioni, InChiamata
  <2>2. CASE UNCHANGED vars
    BY <2>1, <2>2 DEF vars, clientVars
  <2>3. ASSUME NEW s \in Server, Servizio(s) \/ Elimina(serviceName[s])
        PROVE  \A c \in Client : Collegato(c)'
    BY <2>1, <2>3, PassoServer
  <2>4. ASSUME NEW c \in Client, Chiamata(c) \/ Cliente(c) PROVE Collegato(c)'
    <3>1. CASE registra(c) \/ registra_piena(c) \/ programma(c)
      <4>1. fase[c] \in {"registra", "programma"} /\ serverRMI'[c] = serverRMI[c]
        BY <3>1 DEF registra, Richiesto, Assegna, registra_piena, programma
      <4>2. stato[serverRMI[c]] # "spento" /\ serverRMI[c] \in Server
        BY <1>1, <4>1 DEF Avviati, Collegato, ClientiOK, ClienteOK, Iscrizioni, InChiamata
      <4> QED
        BY <1>2, <4>1, <4>2 DEF Collegato
    <3>2. CASE ricerca_trova(c) \/ ricerca_fallisce(c) \/ nuovo_tag(c) \/ termina(c)
      BY <1>1, <3>2 DEF ricerca_trova, ricerca_fallisce, nuovo_tag, termina, Collegato, InChiamata,
         ClientiOK
    <3>3. CASE cerca_nome(c)
      <4>1. CASE cerca(serverRMI[c].nome) = Nullo
        BY <1>1, <3>3, <4>1 DEF cerca_nome, Collegato, InChiamata, ClientiOK
      <4>2. CASE cerca(serverRMI[c].nome) # Nullo
        <5>1. PICK i \in Righe : cerca(serverRMI[c].nome) = table[i].rif
          BY <4>2, RiferimentoTipato
        <5>2. stato'[table[i].rif] # "spento"
          BY <1>1, <1>2, <4>2, <5>1 DEF Avviati, TabellaOK
        <5> QED
          BY <1>1, <3>3, <4>2, <5>1, <5>2 DEF cerca_nome, Collegato, InChiamata, ClientiOK
      <4> QED
        BY <4>1, <4>2
    <3>4. CASE chiede_registrazione(c) \/ chiede_programma(c)
      <4>1. /\ fase[c] = "servizio" /\ serverRMI[c] # Nullo /\ serverRMI' = serverRMI
            /\ fase'[c] # "servizio"
        BY <1>1, <3>4 DEF chiede_registrazione, chiede_programma, Chiede, ClientiOK
      <4>2. stato[serverRMI[c]] # "spento" /\ serverRMI[c] \in Server
        BY <1>1, <4>1 DEF Avviati, Collegato, ClientiOK, ClienteOK
      <4> QED
        BY <1>2, <4>1, <4>2 DEF Collegato
    <3>5. CASE legge_effettuata(c) \/ legge_piena(c) \/ stampa(c)
      <4>1. /\ fase[c] \in InChiamata \cup {"programma"} /\ serverRMI' = serverRMI
        BY <3>5 DEF legge_effettuata, legge_piena, stampa, Ritorna, InChiamata
      <4>2. fase'[c] = "servizio"
        BY <1>1, <3>5 DEF legge_effettuata, legge_piena, stampa, Ritorna, ClientiOK
      <4>3. stato[serverRMI[c]] # "spento" /\ serverRMI[c] \in Server
        BY <1>1, <4>1 DEF Avviati, Collegato, ClientiOK, ClienteOK, Iscrizioni, InChiamata
      <4> QED
        BY <1>2, <4>1, <4>2, <4>3 DEF Collegato, InChiamata
    <3> QED
      BY <2>4, <3>1, <3>2, <3>3, <3>4, <3>5 DEF Chiamata, Cliente
  <2>5. ASSUME NEW c \in Client, Chiamata(c) \/ Cliente(c), NEW d \in Client, d # c
        PROVE  Collegato(d)'
    BY <2>1, <2>5, AltriClienti
  <2> QED
    BY <2>2, <2>3, <2>4, <2>5 DEF Next
<1>5. \A r \in (confermate \cup piene)' : stato'[r.server] # "spento"
  <2>1. CASE UNCHANGED storia
    BY <1>1, <1>2, <2>1 DEF Avviati, StoriaOK, Iscrizioni, storia
  <2>2. ASSUME NEW c \in Client, legge_effettuata(c) \/ legge_piena(c)
        PROVE  \A r \in (confermate \cup piene)' : stato'[r.server] # "spento"
    <3>1. fase[c] \in InChiamata
      BY <2>2 DEF legge_effettuata, legge_piena, InChiamata
    <3>2. chiamata[c].server \in Server /\ stato[chiamata[c].server] # "spento"
      BY <1>1, <3>1 DEF Avviati, Collegato, ClientiOK, ClienteOK, Iscrizioni
    <3> QED
      BY <1>1, <1>2, <2>2, <3>2 DEF legge_effettuata, legge_piena, Avviati, StoriaOK, Iscrizioni
  <2>3. ASSUME NEW c \in Client, Chiamata(c) PROVE UNCHANGED storia
    BY <2>3 DEF Chiamata, registra, Assegna, registra_piena, programma
  <2>4. ASSUME NEW c \in Client, Cliente(c), ~ legge_effettuata(c), ~ legge_piena(c)
        PROVE  UNCHANGED storia
    BY <2>4 DEF Cliente, ricerca_trova, ricerca_fallisce, cerca_nome, nuovo_tag, termina,
       chiede_registrazione, chiede_programma, Chiede, stampa, storia
  <2> QED
    BY <2>1, <2>2, <2>3, <2>4, PassoServer DEF Next, vars, storia
<1> QED
  BY <1>3, <1>4, <1>5 DEF Avviati
-----------------------------------------------------------------------------
(* What a step does to one client, and to what users have been told. *)

LEMMA PassoCliente ==
  ASSUME TypeOK, [Next]_vars, NEW d \in Client
  PROVE  \/ /\ fase'[d] = fase[d] /\ serverRMI'[d] = serverRMI[d]
            /\ chiamata'[d] = chiamata[d] /\ chiamate'[d] = chiamate[d]
         \/ fase'[d] \notin InChiamata \cup {"programma"} /\ chiamate'[d] = chiamate[d]
         \/ registra(d) \/ registra_piena(d) \/ programma(d)
         \/ chiede_registrazione(d) \/ chiede_programma(d)
<1>1. CASE UNCHANGED vars
  BY <1>1 DEF vars, clientVars
<1>2. CASE \E s \in Server : Servizio(s) \/ Elimina(serviceName[s])
  BY <1>2, PassoServer
<1>3. ASSUME NEW c \in Client, Chiamata(c) \/ Cliente(c), c # d
      PROVE  /\ fase'[d] = fase[d] /\ serverRMI'[d] = serverRMI[d]
             /\ chiamata'[d] = chiamata[d] /\ chiamate'[d] = chiamate[d]
  BY <1>3, AltriClienti
<1>4. ASSUME Cliente(d), ~ chiede_registrazione(d), ~ chiede_programma(d)
      PROVE  fase'[d] \notin InChiamata \cup {"programma"} /\ chiamate'[d] = chiamate[d]
  BY <1>4 DEF Cliente, ricerca_trova, ricerca_fallisce, cerca_nome, nuovo_tag, termina,
     legge_effettuata, legge_piena, stampa, Ritorna, TypeOK, InChiamata
<1> QED
  BY <1>1, <1>2, <1>3, <1>4 DEF Next, Chiamata

LEMMA PassoStoria ==
  ASSUME [Next]_vars
  PROVE  \/ UNCHANGED <<confermate, piene>>
         \/ \E c \in Client : legge_effettuata(c)
         \/ \E c \in Client : legge_piena(c)
<1>1. ASSUME NEW c \in Client, Chiamata(c) PROVE UNCHANGED storia
  BY <1>1 DEF Chiamata, registra, Assegna, registra_piena, programma
<1>2. ASSUME NEW c \in Client, Cliente(c), ~ legge_effettuata(c), ~ legge_piena(c)
      PROVE  UNCHANGED storia
  BY <1>2 DEF Cliente, ricerca_trova, ricerca_fallisce, cerca_nome, nuovo_tag, termina,
     chiede_registrazione, chiede_programma, Chiede, stampa, storia
<1> QED
  BY <1>1, <1>2, PassoServer DEF Next, vars, storia

\* The users who were told stay told.
LEMMA StoriaCresce ==
  ASSUME [Next]_vars
  PROVE  confermate \subseteq confermate' /\ Chi(confermate) \subseteq Chi(confermate)'
BY PassoStoria DEF legge_effettuata, legge_piena, Chi

\* A registration confirmed at this step was carried out before.
LEMMA NuovaConferma ==
  ASSUME [Next]_vars, NEW r \in confermate', r \notin confermate
  PROVE  \E c \in Client : r = chiamata[c] /\ fase[c] = "effettuata" /\ legge_effettuata(c)
BY PassoStoria DEF legge_effettuata, legge_piena

LEMMA EffettuateStep ==
  ASSUME TypeOK, [Next]_vars, NEW r \in Effettuate'
  PROVE  r \in Effettuate \/ \E c \in Client : registra(c) /\ r = chiamata[c]
<1>1. CASE r \in confermate'
  BY <1>1, NuovaConferma DEF Effettuate
<1>2. ASSUME NEW c \in Client, fase'[c] = "effettuata", r = chiamata'[c]
      PROVE  (fase[c] = "effettuata" /\ r = chiamata[c]) \/ (registra(c) /\ r = chiamata[c])
  <2>1. CASE registra(c)
    BY <1>2, <2>1, RegistraEffetto
  <2>2. ~ registra_piena(c) /\ ~ programma(c) /\ ~ chiede_registrazione(c) /\ ~ chiede_programma(c)
    BY <1>2 DEF registra_piena, programma, chiede_registrazione, chiede_programma, Chiede, TypeOK
  <2> QED
    BY <1>2, <2>1, <2>2, PassoCliente DEF InChiamata
<1> QED
  BY <1>1, <1>2 DEF Effettuate

LEMMA RifiutateStep ==
  ASSUME TypeOK, [Next]_vars, NEW r \in Rifiutate'
  PROVE  r \in Rifiutate \/ \E c \in Client : registra_piena(c) /\ r = chiamata[c]
<1>1. CASE r \in piene'
  BY <1>1, PassoStoria DEF legge_effettuata, legge_piena, Rifiutate
<1>2. ASSUME NEW c \in Client, fase'[c] = "piena", r = chiamata'[c]
      PROVE  (fase[c] = "piena" /\ r = chiamata[c]) \/ (registra_piena(c) /\ r = chiamata[c])
  <2>1. CASE registra_piena(c)
    BY <1>2, <2>1 DEF registra_piena
  <2>2. ~ registra(c) /\ ~ programma(c) /\ ~ chiede_registrazione(c) /\ ~ chiede_programma(c)
    BY <1>2 DEF registra, Assegna, programma, chiede_registrazione, chiede_programma, Chiede, TypeOK
  <2> QED
    BY <1>2, <2>1, <2>2, PassoCliente DEF InChiamata
<1> QED
  BY <1>1, <1>2 DEF Rifiutate

-----------------------------------------------------------------------------
(* A registration under way is new. *)

LEMMA NumeriInit == Init => Numeri
BY DEF Init, Numeri, Vuoto, InChiamata

\* Numbers only grow.
LEMMA ChiamateStep ==
  ASSUME TypeOK, [Next]_vars, NEW d \in Client
  PROVE  chiamate[d] \in Nat /\ chiamate'[d] \in Nat /\ chiamate[d] <= chiamate'[d]
<1>1. chiamate \in [Client -> Nat]
  BY DEF TypeOK
<1>2. CASE chiede_registrazione(d) \/ chiede_programma(d)
  BY <1>1, <1>2 DEF chiede_registrazione, chiede_programma, Chiede
<1>3. CASE registra(d) \/ registra_piena(d) \/ programma(d)
  <2>1. UNCHANGED chiamate
    BY <1>3 DEF registra, Assegna, registra_piena, programma
  <2> QED
    BY <1>1, <2>1
<1> QED
  BY <1>1, <1>2, <1>3, PassoCliente

\* Who has a place after a step had it before, or was carried out at the step.
LEMMA OccupantiStep ==
  ASSUME TypeOK, [Next]_vars, NEW s \in Congressi, NEW g \in Giorni, NEW x \in Celle
  PROVE  \/ speaker'[s][g][x] \in {Libero, speaker[s][g][x]}
         \/ \E c \in Client : registra(c) /\ speaker'[s][g][x] = chiamata[c].chi
<1>1. ASSUME NEW t \in Server, Fine(t) PROVE speaker'[s][g][x] \in {Libero, speaker[s][g][x]}
  BY <1>1 DEF Fine, Vuoto
<1>2. ASSUME NEW c \in Client, registra(c)
      PROVE  speaker'[s][g][x] \in {speaker[s][g][x], chiamata[c].chi}
  <2>1. PICK k \in 1 .. Posti : Occupa(chiamata[c], k)
    BY <1>2, RegistraEffetto
  <2> QED
    BY <2>1 DEF Occupa
<1> QED
  BY <1>1, <1>2, SpeakerStep

LEMMA NumeriStep == TypeOK /\ Numeri /\ [Next]_vars => Numeri'
<1> SUFFICES ASSUME TypeOK, Numeri, [Next]_vars PROVE Numeri'
  OBVIOUS
<1> USE CongressoAssumption
<1>1. \A d \in Client : chiamate[d] \in Nat /\ chiamate'[d] \in Nat /\ chiamate[d] <= chiamate'[d]
  BY ChiamateStep
<1>2. /\ TypeOK' /\ StoriaOK /\ ClientiOK
      /\ \A s \in Congressi, g \in Giorni, x \in Celle : speaker[s][g][x] \in Speaker \cup {Libero}
  BY TypeStep, TipiSeparati DEF TypeOK
<1>3. ASSUME NEW c \in Client, fase[c] \in InChiamata
      PROVE  /\ chiamata[c] \in Iscrizioni /\ chiamata[c].chi = <<c, chiamate[c]>>
             /\ chiamata[c].chi \notin Chi(confermate) /\ chiamata[c].dopo \subseteq Chi(confermate)
  BY <1>2, <1>3 DEF Numeri, ClientiOK, ClienteOK
<1>4. \A s \in Congressi, g \in Giorni, x \in Celle : speaker'[s][g][x] # Libero =>
        speaker'[s][g][x][2] <= chiamate'[speaker'[s][g][x][1]]
  <2> SUFFICES ASSUME NEW s \in Congressi, NEW g \in Giorni, NEW x \in Celle,
                      speaker'[s][g][x] # Libero
               PROVE  speaker'[s][g][x][2] <= chiamate'[speaker'[s][g][x][1]]
    OBVIOUS
  <2>1. ASSUME NEW c \in Client, registra(c), speaker'[s][g][x] = chiamata[c].chi
        PROVE  speaker'[s][g][x][2] <= chiamate'[speaker'[s][g][x][1]]
    BY <1>1, <1>3, <2>1, RegistraEffetto DEF InChiamata
  <2>2. CASE speaker'[s][g][x] = speaker[s][g][x]
    <3> DEFINE n == speaker[s][g][x]
    <3>1. n \in Speaker /\ n[2] <= chiamate[n[1]]
      BY <1>2, <2>2 DEF Numeri
    <3>2. n[1] \in Client /\ n[2] \in Nat
      BY <3>1 DEF Speaker
    <3> HIDE DEF n
    <3>3. n[2] <= chiamate'[n[1]]
      BY <1>1, <3>1, <3>2
    <3> QED
      BY <2>2, <3>3 DEF n
  <2> QED
    BY <2>1, <2>2, OccupantiStep
<1>5. ASSUME NEW r \in confermate'
      PROVE  r.chi[2] <= chiamate'[r.chi[1]] /\ r.dopo \subseteq Chi(confermate)'
  <2>1. /\ r.chi[1] \in Client /\ r.chi[2] \in Nat
    BY <1>2 DEF TypeOK, Iscrizioni, Speaker
  <2>2. r.chi[2] <= chiamate[r.chi[1]] /\ r.dopo \subseteq Chi(confermate)
    <3>1. CASE r \in confermate
      BY <3>1 DEF Numeri
    <3>2. ASSUME NEW c \in Client, r = chiamata[c], fase[c] = "effettuata"
          PROVE  r.chi[2] <= chiamate[r.chi[1]] /\ r.dopo \subseteq Chi(confermate)
      BY <1>1, <1>3, <3>2 DEF InChiamata
    <3> QED
      BY <3>1, <3>2, NuovaConferma
  <2> QED
    BY <1>1, <2>1, <2>2, StoriaCresce
<1>6. ASSUME NEW d \in Client
      PROVE  /\ fase'[d] \in InChiamata =>
                  chiamata'[d].chi = <<d, chiamate'[d]>> /\ chiamata'[d].chi \notin Chi(confermate)'
             /\ fase'[d] = "registra" =>
                  \A s \in Congressi, g \in Giorni, x \in Celle :
                    speaker'[s][g][x] # chiamata'[d].chi
             /\ fase'[d] \in InChiamata \cup {"programma"} =>
                  chiamata'[d].dopo \subseteq Chi(confermate)'
  <2>1. ASSUME NEW r \in confermate', r.chi[1] = d, fase[d] # "effettuata"
        PROVE  r \in confermate
    BY <1>3, <2>1, NuovaConferma DEF InChiamata
  <2>2. ASSUME NEW s \in Congressi, NEW g \in Giorni, NEW x \in Celle,
               speaker'[s][g][x][1] = d, speaker'[s][g][x] \in Speaker, ~ registra(d)
        PROVE  speaker'[s][g][x] = speaker[s][g][x]
    <3>1. ASSUME NEW c \in Client, registra(c), speaker'[s][g][x] = chiamata[c].chi PROVE FALSE
      BY <1>3, <2>2, <3>1, RegistraEffetto DEF InChiamata
    <3>2. Libero \notin Speaker
      BY DEF Speaker
    <3> QED
      BY <2>2, <3>1, <3>2, OccupantiStep
  <2>3. CASE /\ fase'[d] = fase[d] /\ serverRMI'[d] = serverRMI[d]
             /\ chiamata'[d] = chiamata[d] /\ chiamate'[d] = chiamate[d]
    <3>1. ASSUME fase[d] \in InChiamata, chiamata[d].chi \in Chi(confermate)' PROVE FALSE
      <4>1. PICK r \in confermate' : r.chi = chiamata[d].chi
        BY <3>1 DEF Chi
      <4>2. r \notin confermate
        BY <1>3, <3>1, <4>1 DEF Chi
      <4>3. PICK c \in Client : r = chiamata[c] /\ fase[c] = "effettuata" /\ legge_effettuata(c)
        BY <4>2, NuovaConferma
      <4>4. c = d
        BY <1>3, <3>1, <4>1, <4>3 DEF InChiamata
      <4> QED
        BY <1>2, <2>3, <4>3, <4>4 DEF legge_effettuata, Ritorna, ClientiOK
    <3>2. ASSUME fase[d] = "registra", NEW s \in Congressi, NEW g \in Giorni, NEW x \in Celle,
                 speaker'[s][g][x] = chiamata[d].chi
          PROVE  FALSE
      <4>1. chiamata[d].chi \in Speaker /\ chiamata[d].chi[1] = d
        BY <1>3, <3>2 DEF InChiamata, Iscrizioni
      <4>2. ~ registra(d)
        BY <1>2, <2>3, <3>2, RegistraEffetto DEF ClientiOK
      <4>3. speaker[s][g][x] = chiamata[d].chi
        BY <2>2, <3>2, <4>1, <4>2
      <4> QED
        BY <3>2, <4>3 DEF Numeri
    <3> QED
      BY <1>3, <2>3, <3>1, <3>2, StoriaCresce DEF Numeri
  <2>4. CASE fase'[d] \notin InChiamata \cup {"programma"}
    BY <2>4 DEF InChiamata
  <2>5. CASE registra(d) \/ registra_piena(d)
    <3>1. /\ fase[d] = "registra" /\ fase'[d] \in {"effettuata", "piena"}
          /\ UNCHANGED <<chiamata, chiamate, confermate>>
      BY <1>2, <2>5 DEF registra, Richiesto, Assegna, registra_piena, storia, ClientiOK
    <3> QED
      BY <1>3, <3>1 DEF InChiamata, Chi
  <2>6. CASE programma(d)
    <3>1. /\ fase[d] = "programma" /\ fase'[d] = "programma"
          /\ chiamata'[d].dopo = chiamata[d].dopo /\ UNCHANGED confermate
      BY <1>2, <2>6 DEF programma, storia, ClientiOK, ClienteOK, Consultazioni
    <3> QED
      BY <3>1 DEF Numeri, InChiamata, Chi
  <2>7. CASE chiede_programma(d)
    <3>1. /\ fase'[d] = "programma" /\ chiamata'[d].dopo = Chi(confermate)
          /\ UNCHANGED confermate
      BY <1>2, <2>7 DEF chiede_programma, Chiede, storia, ClientiOK
    <3> QED
      BY <3>1 DEF InChiamata, Chi
  <2>8. CASE chiede_registrazione(d)
    <3>1. /\ fase'[d] = "registra" /\ chiamata'[d].dopo = Chi(confermate)
          /\ chiamata'[d].chi = <<d, chiamate[d] + 1>> /\ chiamate'[d] = chiamate[d] + 1
          /\ UNCHANGED <<speaker, confermate>>
      BY <1>2, <2>8 DEF chiede_registrazione, Chiede, storia, serverVars, ClientiOK
    <3>2. <<d, chiamate[d] + 1>> \notin Chi(confermate)
      BY <1>1 DEF Numeri, Chi
    <3>3. ASSUME NEW s \in Congressi, NEW g \in Giorni, NEW x \in Celle,
                 speaker[s][g][x] = <<d, chiamate[d] + 1>>
          PROVE  FALSE
      <4>1. <<d, chiamate[d] + 1>> # Libero
        BY <1>1
      <4>2. speaker[s][g][x][2] <= chiamate[speaker[s][g][x][1]]
        BY <3>3, <4>1 DEF Numeri
      <4>3. speaker[s][g][x][1] = d /\ speaker[s][g][x][2] = chiamate[d] + 1
        BY <3>3
      <4>4. chiamate[d] + 1 <= chiamate[d]
        BY <4>2, <4>3
      <4> QED
        BY <1>1, <4>4
    <3> QED
      BY <3>1, <3>2, <3>3 DEF Chi
  <2> QED
    BY <2>3, <2>4, <2>5, <2>6, <2>7, <2>8, PassoCliente
<1> QED
  BY <1>4, <1>5, <1>6 DEF Numeri
-----------------------------------------------------------------------------
(* Places fill in order, and stay. *)

LEMMA OrdinatiInit == Init => Ordinati
BY DEF Init, Ordinati, Vuoto, Celle

LEMMA OrdinatiStep == TypeOK /\ Numeri /\ Ordinati /\ [Next]_vars => Ordinati'
<1> SUFFICES ASSUME TypeOK, Numeri, Ordinati, [Next]_vars PROVE Ordinati'
  OBVIOUS
<1> USE CongressoAssumption
<1>1. CASE UNCHANGED speaker
  BY <1>1 DEF Ordinati
<1>2. ASSUME NEW s \in Server, Fine(s) PROVE Ordinati'
  <2>1. ASSUME NEW t \in Congressi
        PROVE  speaker'[t] = speaker[t] \/ speaker'[t] = [g \in Giorni |-> Vuoto]
    BY <1>2 DEF Fine
  <2>2. \A x \in Celle : Vuoto[x] = Libero
    BY DEF Vuoto
  <2>3. \A e \in 1 .. Sessioni, j \in 1 .. Posti : <<e, j>> \in Celle
    BY DEF Celle
  <2> QED
    BY <2>1, <2>2, <2>3 DEF Ordinati
<1>3. ASSUME NEW c \in Client, registra(c) PROVE Ordinati'
  <2> DEFINE r == chiamata[c]
  <2>1. PICK k \in 1 .. Posti : /\ Cella(r, k) = Libero
                                /\ \A j \in 1 .. k - 1 : Cella(r, j) # Libero
                                /\ Occupa(r, k)
    BY <1>3, RegistraEffetto
  <2>2. fase[c] = "registra" /\ r \in Iscrizioni
    BY <1>3, RegistraEffetto
  <2>3. /\ \A s \in Congressi, g \in Giorni, x \in Celle : speaker[s][g][x] # r.chi
        /\ r.server \in Congressi /\ r.giorno \in Giorni /\ r.sessione \in 1 .. Sessioni
        /\ r.chi # Libero
    BY <2>2 DEF Numeri, Iscrizioni, Speaker
  <2> HIDE DEF r
  <2>4. ASSUME NEW s \in Congressi, NEW g \in Giorni, NEW x \in Celle, NEW y \in Celle,
               speaker'[s][g][x] = speaker'[s][g][y]
        PROVE  x = y \/ speaker'[s][g][x] = Libero
    BY <2>1, <2>3, <2>4 DEF Occupa, Ordinati
  <2>5. ASSUME NEW s \in Congressi, NEW g \in Giorni, NEW e \in 1 .. Sessioni,
               NEW i \in 1 .. Posti, NEW j \in 1 .. Posti,
               i < j, speaker'[s][g][<<e, j>>] # Libero
        PROVE  speaker'[s][g][<<e, i>>] # Libero
    <3>1. <<e, i>> \in Celle /\ <<e, j>> \in Celle
      BY DEF Celle
    <3>2. CASE s = r.server /\ g = r.giorno /\ e = r.sessione /\ j = k
      <4>1. i \in 1 .. k - 1
        BY <2>5, <3>2
      <4>2. Cella(r, i) # Libero
        BY <2>1, <4>1
      <4> QED
        BY <2>1, <2>3, <3>1, <3>2, <4>2 DEF Occupa, Cella
    <3>3. CASE ~ (s = r.server /\ g = r.giorno /\ e = r.sessione /\ j = k)
      <4>1. speaker[s][g][<<e, j>>] # Libero
        BY <2>1, <2>5, <3>1, <3>3 DEF Occupa
      <4>2. speaker[s][g][<<e, i>>] # Libero
        BY <2>5, <4>1 DEF Ordinati
      <4> QED
        BY <2>1, <2>3, <3>1, <4>2 DEF Occupa
    <3> QED
      BY <3>2, <3>3
  <2> QED
    BY <2>4, <2>5 DEF Ordinati
<1> QED
  BY <1>1, <1>2, <1>3, SpeakerStep

\* The registrations Inv speaks of are well typed and of servers that started.
LEMMA IscrizioniTipate ==
  ASSUME TypeOK, Avviati, NEW r \in Effettuate \cup Rifiutate
  PROVE  /\ r \in Iscrizioni /\ r.server \in Congressi /\ r.server \in Server
         /\ r.giorno \in Giorni /\ r.sessione \in 1 .. Sessioni /\ r.chi # Libero
         /\ \A k \in 1 .. Posti : <<r.sessione, k>> \in Celle
         /\ stato[r.server] # "spento"
<1>1. r \in Iscrizioni /\ stato[r.server] # "spento"
  BY DEF TypeOK, Avviati, Collegato, Effettuate, Rifiutate, InChiamata
<1> QED
  BY <1>1, CongressoAssumption DEF Iscrizioni, Speaker, Celle

\* A place taken by, or denied to, a registration stays so while its server lives.
LEMMA CellaStabile ==
  ASSUME TypeOK, Avviati, [Next]_vars, NEW r \in Effettuate \cup Rifiutate, Esporta(r.server)',
         NEW k \in 1 .. Posti, Cella(r, k) # Libero
  PROVE  Cella(r, k)' = Cella(r, k)
<1>1. Cella(r, k)' = speaker'[r.server][r.giorno][<<r.sessione, k>>]
  BY DEF Cella
<1> QED
  BY <1>1, IscrizioniTipate, PostoStabile DEF Cella

LEMMA ServerVivo ==
  ASSUME TypeOK, Avviati, [Next]_vars, NEW r \in Effettuate \cup Rifiutate, Esporta(r.server)'
  PROVE  Esporta(r.server)
BY IscrizioniTipate, StatoStep

LEMMA CollocatiInit == Init => Collocati
BY DEF Init, Collocati, Effettuate, Rifiutate

LEMMA CollocatiStep == TypeOK /\ Avviati /\ Numeri /\ Collocati /\ [Next]_vars => Collocati'
<1> SUFFICES ASSUME TypeOK, Avviati, Numeri, Collocati, [Next]_vars PROVE Collocati'
  OBVIOUS
<1>1. ASSUME NEW r \in Effettuate', Esporta(r.server)'
      PROVE  \E k \in 1 .. Posti : Cella(r, k)' = r.chi
  <2>1. CASE r \in Effettuate
    <3>1. PICK k \in 1 .. Posti : Cella(r, k) = r.chi
      BY <1>1, <2>1, ServerVivo DEF Collocati
    <3>2. r.chi # Libero
      BY <2>1, IscrizioniTipate
    <3> QED
      BY <1>1, <2>1, <3>1, <3>2, CellaStabile
  <2>2. ASSUME NEW c \in Client, registra(c), r = chiamata[c]
        PROVE  \E k \in 1 .. Posti : Cella(r, k)' = r.chi
    <3>1. PICK k \in 1 .. Posti : Occupa(r, k)
      BY <2>2, RegistraEffetto
    <3>2. r \in Iscrizioni
      BY <2>2, RegistraEffetto
    <3> QED
      BY <3>1, <3>2 DEF Occupa, Cella, Iscrizioni
  <2> QED
    BY <2>1, <2>2, EffettuateStep
<1>2. ASSUME NEW r \in Rifiutate', Esporta(r.server)', NEW k \in 1 .. Posti
      PROVE  Cella(r, k)' # Libero /\ Cella(r, k)' # r.chi
  <2>1. CASE r \in Rifiutate
    <3>1. Cella(r, k) # Libero /\ Cella(r, k) # r.chi
      BY <1>2, <2>1, ServerVivo DEF Collocati
    <3> QED
      BY <1>2, <2>1, <3>1, CellaStabile
  <2>2. ASSUME NEW c \in Client, registra_piena(c), r = chiamata[c]
        PROVE  Cella(r, k)' # Libero /\ Cella(r, k)' # r.chi
    <3>1. fase[c] = "registra" /\ LibereIn(r) = {} /\ UNCHANGED speaker
      BY <2>2 DEF registra_piena, Richiesto, serverVars
    <3>2. r \in Iscrizioni
      BY <2>2, <3>1 DEF TypeOK, InChiamata
    <3>3. r.server \in Congressi /\ r.giorno \in Giorni /\ <<r.sessione, k>> \in Celle
      BY <3>2 DEF Iscrizioni, Celle
    <3>4. Cella(r, k) # Libero /\ Cella(r, k) # r.chi
      BY <2>2, <3>1, <3>3 DEF LibereIn, Cella, Numeri
    <3> QED
      BY <3>1, <3>4 DEF Cella
  <2> QED
    BY <2>1, <2>2, RifiutateStep
<1> QED
  BY <1>1, <1>2 DEF Collocati
-----------------------------------------------------------------------------
(* The programme a client is sent. *)

\* The conjunct of Ricevuti about one client.
Ricevuto(c) ==
  fase[c] = "programma" /\ Esporta(serverRMI[c]) =>
    LET celle == chiamata[c].celle  g == chiamata[c].giorno  s == serverRMI[c] IN
      /\ \A r \in confermate : r.chi \in chiamata[c].dopo /\ r.server = s /\ r.giorno = g =>
           \E k \in 1 .. Posti :
             Cella(r, k) = r.chi /\ celle[<<r.sessione, k>>] \in {NonLetto, r.chi}
      /\ \A x \in Celle : celle[x] \in {NonLetto, Libero, speaker[s][g][x]}

LEMMA RicevutiInit == Init => Ricevuti
BY DEF Init, Ricevuti

LEMMA RicevutiStep ==
  TypeOK /\ Avviati /\ Numeri /\ Collocati /\ Ricevuti /\ [Next]_vars => Ricevuti'
<1> SUFFICES ASSUME TypeOK, Avviati, Numeri, Collocati, Ricevuti, [Next]_vars,
                    NEW c \in Client
             PROVE  Ricevuto(c)'
  BY DEF Ricevuti, Ricevuto
<1> USE CongressoAssumption
<1>1. Ricevuto(c) /\ ClientiOK /\ ClientiOK'
  BY TipiSeparati, ClientiStep DEF Ricevuti, Ricevuto
<1>2. CASE /\ fase'[c] = fase[c] /\ serverRMI'[c] = serverRMI[c]
           /\ chiamata'[c] = chiamata[c]
  <2> SUFFICES ASSUME fase[c] = "programma", Esporta(serverRMI[c])' PROVE Ricevuto(c)'
    BY <1>2 DEF Ricevuto
  <2> DEFINE celle == chiamata[c].celle
             g == chiamata[c].giorno
             s == serverRMI[c]
  <2>1. /\ s \in Congressi /\ g \in Giorni /\ stato[s] # "spento"
        /\ serverRMI'[c] = s /\ chiamata'[c].giorno = g /\ chiamata'[c].celle = celle
    BY <1>1, <1>2 DEF ClientiOK, ClienteOK, Consultazioni, Avviati, Collegato
  <2>2. Esporta(s)' /\ Esporta(s)
    BY <1>2, <2>1, StatoStep DEF Esporta
  <2>3. ASSUME NEW r \in confermate', r.chi \in chiamata[c].dopo, r.server = s, r.giorno = g
        PROVE  \E k \in 1 .. Posti :
                 Cella(r, k)' = r.chi /\ celle[<<r.sessione, k>>] \in {NonLetto, r.chi}
    <3>1. r \in confermate
      <4>1. r.chi \in Chi(confermate)
        BY <2>3 DEF Numeri
      <4>2. ASSUME NEW d \in Client, r = chiamata[d], fase[d] = "effettuata" PROVE FALSE
        BY <4>1, <4>2 DEF Numeri, InChiamata
      <4> QED
        BY <4>2, NuovaConferma
    <3>2. PICK k \in 1 .. Posti :
            Cella(r, k) = r.chi /\ celle[<<r.sessione, k>>] \in {NonLetto, r.chi}
      BY <1>1, <2>2, <2>3, <3>1 DEF Ricevuto
    <3>3. r \in Effettuate /\ Cella(r, k) # Libero
      BY <3>1, <3>2, IscrizioniTipate DEF Effettuate
    <3>4. Esporta(r.server)'
      BY <2>1, <2>2, <2>3 DEF Esporta
    <3>5. Cella(r, k)' = r.chi
      BY <3>2, <3>3, <3>4, CellaStabile
    <3> QED
      BY <3>2, <3>5
  <2>4. ASSUME NEW x \in Celle PROVE celle[x] \in {NonLetto, Libero, speaker'[s][g][x]}
    <3>1. celle[x] \in {NonLetto, Libero, speaker[s][g][x]}
      BY <1>1, <2>2 DEF Ricevuto
    <3>2. speaker[s][g][x] = Libero \/ speaker'[s][g][x] = speaker[s][g][x]
      BY <2>1, <2>2, PostoStabile
    <3> QED
      BY <3>1, <3>2
  <2> QED
    BY <1>2, <2>1, <2>3, <2>4 DEF Ricevuto
<1>3. CASE fase'[c] # "programma"
  BY <1>3 DEF Ricevuto
<1>4. CASE programma(c)
  <2> SUFFICES ASSUME Esporta(serverRMI[c]) PROVE Ricevuto(c)'
    BY <1>4 DEF programma
  <2> DEFINE r0 == chiamata[c]
             s == serverRMI[c]
  <2>1. /\ fase[c] = "programma" /\ s \in Congressi /\ r0 \in Consultazioni
        /\ UNCHANGED <<fase, serverRMI, stato, speaker, confermate>>
    BY <1>1, <1>4 DEF programma, serverVars, storia, ClientiOK, ClienteOK
  <2>2. PICK x \in Celle :
          /\ r0.celle[x] = NonLetto
          /\ chiamata' = [chiamata EXCEPT ![c].celle[x] = speaker[s][r0.giorno][x]]
    BY <1>4 DEF programma
  <2>3. chiamata'[c] = [r0 EXCEPT !.celle[x] = speaker[s][r0.giorno][x]]
    BY <1>1, <2>2 DEF ClientiOK
  <2>4. /\ chiamata'[c].giorno = r0.giorno /\ chiamata'[c].dopo = r0.dopo
        /\ chiamata'[c].celle = [r0.celle EXCEPT ![x] = speaker[s][r0.giorno][x]]
        /\ r0.celle \in [Celle -> Speaker \cup {Libero, NonLetto}]
    BY <2>1, <2>3 DEF Consultazioni
  <2> HIDE DEF r0
  <2>5. ASSUME NEW r \in confermate, r.chi \in r0.dopo, r.server = s, r.giorno = r0.giorno
        PROVE  \E k \in 1 .. Posti :
                 Cella(r, k) = r.chi /\ chiamata'[c].celle[<<r.sessione, k>>] \in {NonLetto, r.chi}
    <3>1. PICK k \in 1 .. Posti :
            Cella(r, k) = r.chi /\ r0.celle[<<r.sessione, k>>] \in {NonLetto, r.chi}
      BY <1>1, <2>1, <2>5 DEF Ricevuto, r0
    <3>2. <<r.sessione, k>> \in Celle
      BY IscrizioniTipate DEF Effettuate
    <3>3. chiamata'[c].celle[<<r.sessione, k>>] \in {r0.celle[<<r.sessione, k>>], Cella(r, k)}
      BY <2>4, <2>5, <3>2 DEF Cella
    <3> QED
      BY <3>1, <3>3
  <2>6. ASSUME NEW y \in Celle
        PROVE  chiamata'[c].celle[y] \in {NonLetto, Libero, speaker[s][r0.giorno][y]}
    <3>1. r0.celle[y] \in {NonLetto, Libero, speaker[s][r0.giorno][y]}
      BY <1>1, <2>1 DEF Ricevuto, r0
    <3> QED
      BY <2>4, <3>1
  <2> QED
    BY <2>1, <2>4, <2>5, <2>6 DEF Ricevuto, Cella
<1>5. CASE chiede_programma(c)
  <2>1. PICK g \in Giorni :
          /\ fase'[c] = "programma"
          /\ chiamata'[c] = [giorno |-> g, celle |-> [x \in Celle |-> NonLetto],
                             dopo |-> Chi(confermate)]
          /\ UNCHANGED <<serverRMI, stato, speaker, confermate>>
    BY <1>1, <1>5 DEF chiede_programma, Chiede, serverVars, storia, ClientiOK
  <2>2. ASSUME NEW r \in confermate, Esporta(r.server)
        PROVE  \E k \in 1 .. Posti : /\ Cella(r, k) = r.chi /\ <<r.sessione, k>> \in Celle
                                     /\ chiamata'[c].celle[<<r.sessione, k>>] = NonLetto
    <3>1. PICK k \in 1 .. Posti : Cella(r, k) = r.chi
      BY <2>2 DEF Collocati, Effettuate
    <3>2. <<r.sessione, k>> \in Celle
      BY IscrizioniTipate DEF Effettuate
    <3> QED
      BY <2>1, <3>1, <3>2
  <2>3. \A x \in Celle : chiamata'[c].celle[x] = NonLetto
    BY <2>1
  <2> QED
    BY <2>1, <2>2, <2>3 DEF Ricevuto, Cella, Esporta
<1>6. CASE registra(c) \/ registra_piena(c) \/ chiede_registrazione(c)
  BY <1>1, <1>6 DEF registra, Assegna, registra_piena, chiede_registrazione, Chiede, Ricevuto, ClientiOK
<1> QED
  BY <1>2, <1>3, <1>4, <1>5, <1>6, PassoCliente
-----------------------------------------------------------------------------
(* Who asks later has a later place. *)

LEMMA InOrdineInit == Init => InOrdine
BY DEF Init, InOrdine

\* A registration has one place.
LEMMA PostoUnico ==
  ASSUME TypeOK, Avviati, Ordinati, NEW r \in Effettuate,
         NEW j \in 1 .. Posti, NEW k \in 1 .. Posti, Cella(r, j) = r.chi, Cella(r, k) = r.chi
  PROVE  j = k
<1>1. /\ r.server \in Congressi /\ r.giorno \in Giorni /\ r.chi # Libero
      /\ <<r.sessione, j>> \in Celle /\ <<r.sessione, k>> \in Celle
  BY IscrizioniTipate
<1>2. <<r.sessione, j>> = <<r.sessione, k>>
  BY <1>1 DEF Ordinati, Cella
<1> QED
  BY <1>2

LEMMA PostoUnicoDopo ==
  ASSUME TypeOK, Numeri, Ordinati, [Next]_vars, NEW r, r.server \in Congressi, r.giorno \in Giorni,
         r.sessione \in 1 .. Sessioni, r.chi # Libero,
         NEW j \in 1 .. Posti, NEW k \in 1 .. Posti, Cella(r, j)' = r.chi, Cella(r, k)' = r.chi
  PROVE  j = k
<1>1. Ordinati'
  BY OrdinatiStep
<1>2. <<r.sessione, j>> \in Celle /\ <<r.sessione, k>> \in Celle
  BY DEF Celle
<1>3. <<r.sessione, j>> = <<r.sessione, k>>
  BY <1>1, <1>2 DEF Ordinati, Cella
<1> QED
  BY <1>3

LEMMA InOrdineStep ==
  TypeOK /\ Avviati /\ Numeri /\ Ordinati /\ Collocati /\ InOrdine /\ [Next]_vars => InOrdine'
<1> SUFFICES ASSUME TypeOK, Avviati, Numeri, Ordinati, Collocati, InOrdine, [Next]_vars,
                    NEW r \in Effettuate', NEW q \in confermate',
                    Esporta(r.server)', q.chi \in r.dopo,
                    q.server = r.server, q.giorno = r.giorno, q.sessione = r.sessione,
                    NEW j \in 1 .. Posti, NEW k \in 1 .. Posti,
                    Cella(q, j)' = q.chi, Cella(r, k)' = r.chi
             PROVE  j < k
  BY DEF InOrdine
<1>1. /\ TypeOK' /\ Avviati' /\ Ordinati'
      /\ r \in Effettuate' /\ q \in Effettuate' /\ Esporta(q.server)'
  BY TypeStep, AvviatiStep, OrdinatiStep DEF Effettuate, Esporta
<1>2. \/ r \in Effettuate
      \/ \E c \in Client : registra(c) /\ r = chiamata[c]
  BY EffettuateStep
<1>3. r.dopo \subseteq Chi(confermate)
  BY <1>2, RegistraEffetto DEF Effettuate, Numeri, InChiamata
<1>4. q \in confermate
  <2>1. ASSUME NEW d \in Client, q = chiamata[d], fase[d] = "effettuata" PROVE FALSE
    BY <1>3, <2>1 DEF Numeri, InChiamata
  <2> QED
    BY <2>1, NuovaConferma
<1>5. /\ q \in Effettuate /\ q.server \in Server
      /\ q.server \in Congressi /\ q.giorno \in Giorni /\ q.sessione \in 1 .. Sessioni
      /\ q.chi # Libero /\ Esporta(q.server)
  BY <1>1, <1>4, IscrizioniTipate, ServerVivo DEF Effettuate
<1>6. PICK i \in 1 .. Posti : Cella(q, i) = q.chi
  BY <1>5 DEF Collocati
<1>7. Cella(q, i)' = q.chi
  BY <1>1, <1>5, <1>6, CellaStabile
<1>8. j = i
  BY <1>1, <1>7, <1>5, PostoUnicoDopo
<1>9. CASE r \in Effettuate
  <2>1. Esporta(r.server)
    BY <1>9, ServerVivo
  <2>2. PICK h \in 1 .. Posti : Cella(r, h) = r.chi
    BY <1>9, <2>1 DEF Collocati
  <2>3. r.chi # Libero
    BY <1>9, IscrizioniTipate
  <2>4. Cella(r, h)' = r.chi
    BY <1>9, <2>2, <2>3, CellaStabile
  <2>5. k = h
    BY <1>1, <2>3, <2>4, PostoUnicoDopo, <1>9, IscrizioniTipate
  <2>6. i < h
    BY <1>4, <1>6, <1>9, <2>1, <2>2 DEF InOrdine
  <2> QED
    BY <1>8, <2>5, <2>6
<1>10. ASSUME NEW c \in Client, registra(c), r = chiamata[c] PROVE j < k
  <2>1. PICK h \in 1 .. Posti : /\ Cella(r, h) = Libero
                                /\ Occupa(r, h)
    BY <1>10, RegistraEffetto
  <2>2. /\ r.chi # Libero /\ fase[c] = "registra" /\ r.server \in Congressi /\ r.giorno \in Giorni
        /\ r.sessione \in 1 .. Sessioni
    BY <1>10, RegistraEffetto, CongressoAssumption DEF Iscrizioni, Speaker
  <2>3. Cella(r, h)' = r.chi
    BY <2>1, <2>2 DEF Occupa, Cella
  <2>4. k = h
    BY <1>1, <2>2, <2>3, PostoUnicoDopo
  <2>5. Cella(r, i) = q.chi
    BY <1>6 DEF Cella
  <2>6. i # h
    BY <1>5, <2>1, <2>5
  <2>7. ~ (h < i)
    BY <1>5, <2>1, <2>2, <2>5 DEF Ordinati, Cella
  <2> QED
    BY <1>8, <2>4, <2>6, <2>7
<1> QED
  BY <1>2, <1>9, <1>10
-----------------------------------------------------------------------------
(* The table as long as nothing is removed. *)

\* The rows in use come first.
SenzaBuchi == \A i, j \in Righe : i < j /\ j \notin Libere => i \notin Libere

\* A name that was found is a name, and is still there; a reference was found.
Trovato(c) ==
  /\ fase[c] = "nome" => serverRMI[c].nome # Nullo
  /\ eliminazioni = 0 =>
       /\ fase[c] = "nome" => Con(serverRMI[c].nome) # {}
       /\ fase[c] = "servizio" => serverRMI[c] # Nullo

RegistroInv == (eliminazioni = 0 => SenzaBuchi) /\ \A c \in Client : Trovato(c)

LEMMA RegistroInit == Init => RegistroInv
BY DEF Init, RegistryInit, RigaVuota, RegistroInv, SenzaBuchi, Trovato, Libere

\* aggiungi writes the first free row and no other.
LEMMA NomiAggiunti ==
  ASSUME TabellaOK, NEW s \in Server, aggiungi(serviceName[s], s)
  PROVE  /\ \A i \in Righe \ Libere : table'[i].nome = table[i].nome
         /\ SenzaBuchi => SenzaBuchi'
<1>1. CASE table' = table
  BY <1>1 DEF SenzaBuchi, Libere
<1>2. ASSUME NEW i \in Primo(Libere), table' = [table EXCEPT ![i].nome = serviceName[s], ![i].rif = s]
      PROVE  /\ \A j \in Righe \ Libere : table'[j].nome = table[j].nome
             /\ SenzaBuchi => SenzaBuchi'
  <2>1. i \in Libere /\ i \in Righe /\ \A j \in Libere : i <= j
    BY DEF Primo, Libere
  <2>2. DOMAIN table = Righe /\ table[i] \in [nome : Nomi \cup {Nullo}, rif : Server \cup {Nullo},
                          tags : (UNION {tags[t] : t \in Server}) \cup {Nullo}]
    BY <2>1 DEF TabellaOK
  <2>3. table'[i].nome = serviceName[s] /\ \A j \in Righe : j # i => table'[j] = table[j]
    BY <1>2, <2>1, <2>2
  <2>4. serviceName[s] # Nullo
    BY CongressoAssumption
  <2>5. Libere' = Libere \ {i}
    BY <2>3, <2>4 DEF Libere
  <2>6. ASSUME SenzaBuchi, NEW h \in Righe, NEW j \in Righe, h < j, j \notin Libere' PROVE h \notin Libere'
    <3>1. CASE j = i
      <4>1. h \in Nat /\ i \in Nat
        BY <2>1 DEF Righe
      <4> QED
        BY <2>1, <2>5, <2>6, <3>1, <4>1
    <3>2. CASE j # i
      BY <2>5, <2>6, <3>2 DEF SenzaBuchi
    <3> QED
      BY <3>1, <3>2
  <2>7. SenzaBuchi => SenzaBuchi'
    BY <2>6 DEF SenzaBuchi
  <2> QED
    BY <2>1, <2>3, <2>7 DEF Libere
<1> QED
  BY <1>1, <1>2 DEF aggiungi

\* As long as nothing is removed, the rows in use keep their names and stay the first.
LEMMA NomiRestano ==
  ASSUME TypeOK, [Next]_vars, eliminazioni' = 0
  PROVE  /\ eliminazioni = 0
         /\ \A i \in Righe \ Libere : table'[i].nome = table[i].nome
         /\ SenzaBuchi => SenzaBuchi'
<1>0. TabellaOK /\ eliminazioni \in Nat
  BY TipiSeparati, CongressoAssumption DEF ServerOK
<1>1. CASE UNCHANGED <<table, eliminazioni>>
  BY <1>1 DEF SenzaBuchi, Libere
<1>2. ASSUME NEW s \in Server, main_aggiungi(s) PROVE UNCHANGED eliminazioni /\ aggiungi(serviceName[s], s)
  BY <1>2 DEF main_aggiungi
<1>3. ASSUME NEW s \in Server, main_associa(s)
      PROVE  /\ UNCHANGED eliminazioni /\ \A i \in Righe : table'[i].nome = table[i].nome
  BY <1>0, <1>3 DEF main_associa, associaTags, TabellaOK
<1>4. ASSUME NEW s \in Server, Elimina(serviceName[s]) PROVE FALSE
  BY <1>0, <1>4 DEF Elimina
<1>5. ASSUME NEW s \in Server, main_rifiutato(s) \/ Muore(s) PROVE UNCHANGED <<table, eliminazioni>>
  BY <1>5 DEF main_rifiutato, Muore, Fine, registryVars
<1>6. ASSUME NEW c \in Client, Chiamata(c) PROVE UNCHANGED <<table, eliminazioni>>
  BY <1>6 DEF Chiamata, registra, Assegna, registra_piena, programma, registryVars
<1>7. ASSUME NEW c \in Client, Cliente(c) PROVE UNCHANGED <<table, eliminazioni>>
  BY <1>7 DEF Cliente, ricerca_trova, ricerca_fallisce, cerca_nome, nuovo_tag, termina,
     chiede_registrazione, chiede_programma, Chiede, legge_effettuata, legge_piena, stampa,
     Ritorna, registryVars
<1>8. ASSUME \A i \in Righe : table'[i].nome = table[i].nome
      PROVE  SenzaBuchi => SenzaBuchi'
  BY <1>8 DEF SenzaBuchi, Libere
<1> QED
  BY <1>0, <1>1, <1>2, <1>3, <1>4, <1>5, <1>6, <1>7, <1>8, NomiAggiunti
  DEF Next, Servizio, vars, registryVars

\* A client that is looking for a name, or has found its service, was not misled.
LEMMA TrovatoStep ==
  ASSUME TypeOK, RegistroInv, [Next]_vars, NEW c \in Client
  PROVE  Trovato(c)'
<1>0. /\ TabellaOK /\ ClientiOK /\ Trovato(c) /\ c \in DOMAIN fase /\ c \in DOMAIN serverRMI
  BY TipiSeparati DEF RegistroInv, ClientiOK
<1>1. ASSUME NEW n, n # Nullo, Con(n) # {}, eliminazioni' = 0 PROVE Con(n)' # {}
  <2>1. PICK i \in Righe : table[i].nome = n
    BY <1>1 DEF Con
  <2>2. table'[i].nome = n
    BY <1>1, <2>1, NomiRestano DEF Libere
  <2> QED
    BY <2>2 DEF Con
<1>2. CASE fase'[c] = fase[c] /\ serverRMI'[c] = serverRMI[c]
  <2>1. CASE fase[c] = "nome"
    <3>1. PICK n : n = serverRMI[c].nome
      OBVIOUS
    <3>2. n # Nullo /\ (eliminazioni' = 0 => Con(n)' # {})
      BY <1>0, <1>1, <2>1, <3>1, NomiRestano DEF Trovato
    <3>3. n = serverRMI'[c].nome
      BY <1>2, <3>1
    <3>4. eliminazioni' = 0 => Con(serverRMI[c].nome)' # {}
      BY <3>2, <3>3 DEF Con
    <3> QED
      BY <1>2, <2>1, <3>2, <3>3, <3>4 DEF Trovato
  <2>2. CASE fase[c] # "nome"
    BY <1>0, <1>2, <2>2, NomiRestano DEF Trovato
  <2> QED
    BY <2>1, <2>2
<1>3. CASE fase'[c] \notin {"nome", "servizio"}
  BY <1>3 DEF Trovato
<1>4. CASE ricerca_trova(c)
  <2>0. PICK t \in TagUtente : \E i \in Primo(cercaTag(<<t>>)) :
          serverRMI' = [serverRMI EXCEPT ![c] = [nome |-> table[i].nome, tag |-> t]]
    BY <1>4 DEF ricerca_trova
  <2>1. PICK i \in Primo(cercaTag(<<t>>)) :
          serverRMI' = [serverRMI EXCEPT ![c] = [nome |-> table[i].nome, tag |-> t]]
    BY <2>0
  <2>2. fase'[c] = "nome" /\ serverRMI'[c].nome = table[i].nome /\ table' = table
    BY <1>0, <1>4, <2>1 DEF ricerca_trova, registryVars
  <2>3. i \in Righe /\ i \in 1 .. i
    BY RegistryAssumption DEF Primo, cercaTag, Viste, Righe
  <2>4. table[i].nome # Nullo
    BY <2>3 DEF Primo, cercaTag, Viste
  <2>5. Con(serverRMI[c].nome)' # {}
    BY <2>2, <2>3 DEF Con
  <2> QED
    BY <2>2, <2>4, <2>5 DEF Trovato
<1>5. CASE cerca_nome(c)
  <2> DEFINE n == serverRMI[c].nome
  <2>1. fase[c] = "nome" /\ n # Nullo /\ UNCHANGED <<table, eliminazioni>>
    BY <1>0, <1>5 DEF cerca_nome, Trovato, registryVars
  <2>2. ASSUME Con(n) # {} PROVE cerca(n) # Nullo
    <3>1. \E i \in Primo(Con(n)) : TRUE
      <4>1. Con(n) \subseteq Nat
        BY RegistryAssumption DEF Con, Righe
      <4> QED
        BY <2>2, <4>1, MinimoEsiste DEF Primo
    <3>2. (CHOOSE i \in Primo(Con(n)) : TRUE) \in Con(n)
      BY <3>1 DEF Primo
    <3>3. \A i \in Con(n) : table[i].rif # Nullo
      BY <1>0, <2>1 DEF Con, TabellaOK
    <3> QED
      BY <2>2, <3>2, <3>3 DEF cerca
  <2>3. fase'[c] # "nome"
    BY <1>0, <1>5 DEF cerca_nome
  <2>4. fase'[c] = "servizio" => serverRMI'[c] = cerca(n)
    BY <1>0, <1>5 DEF cerca_nome
  <2> QED
    BY <1>0, <2>1, <2>2, <2>3, <2>4 DEF Trovato
<1>6. CASE legge_effettuata(c) \/ legge_piena(c) \/ stampa(c)
  <2>1. serverRMI[c] \in Congressi /\ serverRMI' = serverRMI /\ fase'[c] = "servizio"
    BY <1>0, <1>6 DEF legge_effettuata, legge_piena, stampa, Ritorna, ClientiOK, ClienteOK, InChiamata,
       Iscrizioni
  <2> QED
    BY <2>1, CongressoAssumption DEF Trovato
<1>7. CASE registra(c) \/ registra_piena(c) \/ programma(c)
  BY <1>0, <1>2, <1>3, <1>7 DEF registra, Assegna, registra_piena, programma
<1>8. CASE ricerca_fallisce(c) \/ nuovo_tag(c) \/ termina(c) \/ chiede_registrazione(c) \/ chiede_programma(c)
  BY <1>0, <1>3, <1>8 DEF ricerca_fallisce, nuovo_tag, termina, chiede_registrazione,
     chiede_programma, Chiede
<1>9. ASSUME NEW d \in Client, d # c, Chiamata(d) \/ Cliente(d)
      PROVE  fase'[c] = fase[c] /\ serverRMI'[c] = serverRMI[c]
  BY <1>9, AltriClienti
<1>10. ASSUME NEW s \in Server, Servizio(s) \/ Elimina(serviceName[s])
       PROVE  fase'[c] = fase[c] /\ serverRMI'[c] = serverRMI[c]
  BY <1>10, PassoServer
<1>11. CASE UNCHANGED vars
  BY <1>2, <1>11 DEF vars, clientVars
<1> QED
  BY <1>2, <1>4, <1>5, <1>6, <1>7, <1>8, <1>9, <1>10, <1>11 DEF Next, Chiamata, Cliente

LEMMA RegistroStep == TypeOK /\ RegistroInv /\ [Next]_vars => RegistroInv'
BY TrovatoStep, NomiRestano DEF RegistroInv
-----------------------------------------------------------------------------
(* The theorems. *)

LEMMA InvInit == Init => Inv
BY TypeInit, AvviatiInit, NumeriInit, OrdinatiInit, CollocatiInit, RicevutiInit, InOrdineInit DEF Inv

LEMMA InvStep == Inv /\ [Next]_vars => Inv'
BY TypeStep, AvviatiStep, NumeriStep, OrdinatiStep, CollocatiStep, RicevutiStep, InOrdineStep DEF Inv

LEMMA InvInvariante == Spec => []Inv
<1> QED
  BY InvInit, InvStep, PTL DEF Spec

\* "Registrazione di .. effettuata": the user has exactly one place, in that
\* programme, for as long as the server lives.
THEOREM Iscrizione == Spec => []IscrizioneRispettata
<1>1. Inv => IscrizioneRispettata
  <2> SUFFICES ASSUME Inv, NEW r \in confermate, Esporta(r.server)
               PROVE  \E k \in 1 .. Posti : Posto(r) = {k}
    BY DEF IscrizioneRispettata
  <2>1. r \in Effettuate
    BY DEF Effettuate
  <2>2. PICK k \in 1 .. Posti : Cella(r, k) = r.chi
    BY <2>1 DEF Inv, Collocati
  <2>3. \A j \in 1 .. Posti : Cella(r, j) = r.chi => j = k
    BY <2>1, <2>2, PostoUnico DEF Inv
  <2> QED
    BY <2>2, <2>3 DEF Posto, Cella
<1> QED
  BY <1>1, InvInvariante, PTL

\* "Sessione piena" is never said of a session with a free place, and whoever is
\* refused is not in it.
THEOREM Piena == Spec => []PienaVera
<1>1. Inv => PienaVera
  <2> SUFFICES ASSUME Inv, NEW r \in piene, Esporta(r.server), NEW k \in 1 .. Posti
               PROVE  Cella(r, k) # Libero /\ Cella(r, k) # r.chi
    BY DEF PienaVera, LibereIn, Posto, Cella
  <2> QED
    BY DEF Inv, Collocati, Rifiutate
<1> QED
  BY <1>1, InvInvariante, PTL

\* Whoever registers in a session after someone was confirmed there speaks later.
THEOREM Arrivo == Spec => []OrdineDiArrivo
<1>1. Inv => OrdineDiArrivo
  <2> SUFFICES ASSUME Inv, NEW r \in confermate, NEW q \in confermate, Esporta(r.server),
                      q.chi \in r.dopo,
                      q.server = r.server, q.giorno = r.giorno, q.sessione = r.sessione,
                      NEW j \in 1 .. Posti, NEW k \in 1 .. Posti,
                      Cella(q, j) = q.chi, Cella(r, k) = r.chi
               PROVE  j < k
    BY DEF OrdineDiArrivo, Posto, Cella
  <2> QED
    BY DEF Inv, InOrdine, Effettuate
<1> QED
  BY <1>1, InvInvariante, PTL

\* The programme shown misses nobody who was confirmed before it was asked for,
\* though it is serialised while others register.
THEOREM Programma == Spec => []ProgrammaAggiornato
<1>1. Inv => ProgrammaAggiornato
  <2> SUFFICES ASSUME Inv, NEW c \in Client, fase[c] = "programma", Completa(c),
                      Esporta(serverRMI[c])
               PROVE  LET celle == chiamata[c].celle  g == chiamata[c].giorno  s == serverRMI[c] IN
      /\ \A r \in confermate : r.chi \in chiamata[c].dopo /\ r.server = s /\ r.giorno = g =>
           \E k \in 1 .. Posti : celle[<<r.sessione, k>>] = r.chi
      /\ \A x \in Celle : celle[x] \in {Libero, speaker[s][g][x]}
    BY DEF ProgrammaAggiornato
  <2>1. Ricevuto(c) /\ TypeOK /\ Avviati
    BY DEF Inv, Ricevuti, Ricevuto
  <2>2. \A r \in confermate, k \in 1 .. Posti : <<r.sessione, k>> \in Celle
    BY <2>1, IscrizioniTipate DEF Effettuate
  <2> QED
    BY <2>1, <2>2 DEF Ricevuto, Completa
<1> QED
  BY <1>1, InvInvariante, PTL

LEMMA RegistroInvariante == Spec => [](TypeOK /\ RegistroInv)
BY TypeInit, TypeStep, RegistroInit, RegistroStep, PTL DEF Spec

\* As long as nothing is removed a search by tag looks at every service in the
\* table: rows are given from the first, and stay taken.
THEOREM RicercaCompleta == Spec => []RicercaSenzaBuchi
<1>1. RegistroInv => RicercaSenzaBuchi
  <2> SUFFICES ASSUME SenzaBuchi PROVE Viste = Righe \ Libere
    BY DEF RegistroInv, RicercaSenzaBuchi
  <2>1. \A i \in Righe : i \in 1 .. i /\ \A j \in 1 .. i : j \in Righe /\ (j = i \/ j < i)
    BY RegistryAssumption DEF Righe
  <2> QED
    BY <2>1 DEF SenzaBuchi, Viste, Libere
<1> QED
  BY <1>1, RegistroInvariante, PTL

\* The name a client found with the first call still has a reference at the
\* second, unless someone removed the service in between.
THEOREM Riferimento == Spec => []RiferimentoTrovato
<1>1. RegistroInv => RiferimentoTrovato
  BY DEF RegistroInv, Trovato, RiferimentoTrovato
<1> QED
  BY <1>1, RegistroInvariante, PTL
=============================================================================
