------------------------------ MODULE Congresso ------------------------------
(***************************************************************************)
(* The congress of Esercitazione 6: ServerCongressoImpl.java and           *)
(* Programma.java, the servers that register with the registry, and        *)
(* ClientCongresso.java.                                                   *)
(*                                                                         *)
(* A remote call is a request, its execution by a thread of the server and *)
(* an answer; the process of a server may die at any time, and then every  *)
(* call to it throws and the client that made it exits.  registra is       *)
(* synchronized and takes one step.  programma is not: the object it       *)
(* returns is serialised cell after cell while others register.  The code  *)
(* compares a speaker with nothing but the initial "", by reference, so a  *)
(* speaker is named by the call that registers it, <<client, number>>.     *)
(***************************************************************************)
EXTENDS Registry

CONSTANTS Client,
          Server,       \* processes that export an object and register it
          Congressi,    \* those that are a ServerCongressoImpl
          serviceName,  \* server -> logical name
          tags,         \* server -> the lists of tags it may register
          TagUtente,    \* tags users type
          TagCongresso, \* those whose service the client can use
          Giorni,       \* days, 3 in the code
          Sessioni,     \* sessions of a day, 12 in the code
          Posti,        \* speakers of a session, 5 in the code
          Libero,       \* the "" that the constructor writes
          NonLetto,     \* a cell not serialised yet
          MaxChiamate,      \* bound: client -> calls it makes
          MaxEliminazioni   \* bound: removals from the registry

ASSUME CongressoAssumption ==
  /\ Congressi \subseteq Server /\ Nullo \notin Server
  /\ \A i \in Server : serviceName[i] # Nullo
  /\ Sessioni \in Nat /\ Posti \in Nat
  /\ MaxChiamate \in [Client -> Nat] /\ MaxEliminazioni \in Nat
  /\ {Libero, NonLetto} \cap (Client \X Nat) = {} /\ Libero # NonLetto

VARIABLES stato,        \* stato[s]: how far the main of server s has got
          speaker,      \* speaker[s][g][cell]: the Programma of day g
          eliminazioni, \* removals so far
          fase,         \* fase[c]: where client c is; the answer it is sent
          serverRMI,    \* serverRMI[c]: the service it found, then its reference
          chiamata,     \* chiamata[c]: the call it waits for
          chiamate,     \* chiamate[c]: calls made
          confermate,   \* history: registrations confirmed to their users
          piene         \* history: registrations refused to their users

registryVars == <<table, eliminazioni>>
serverVars   == <<stato, speaker>>
clientVars   == <<fase, serverRMI, chiamata, chiamate>>
storia       == <<confermate, piene>>
vars         == <<registryVars, serverVars, clientVars, storia>>

Celle    == (1 .. Sessioni) \X (1 .. Posti)
Speaker  == {x \in Client \X Nat : x[2] \in 1 .. MaxChiamate[x[1]]}
Vuoto    == [x \in Celle |-> Libero]
Nomi     == {serviceName[s] : s \in Server}
Chi(R)   == {r.chi : r \in R}

\* The calls to a ServerCongresso: registrazione, and programma with what it has
\* received.  "dopo" is history: who was confirmed when the call was made.
Iscrizioni == [server : Congressi, giorno : Giorni, sessione : 1 .. Sessioni, chi : Speaker,
               dopo : SUBSET Speaker]
Consultazioni == [giorno : Giorni, celle : [Celle -> Speaker \cup {Libero, NonLetto}],
                  dopo : SUBSET Speaker]

Init ==
  /\ RegistryInit
  /\ eliminazioni = 0
  /\ stato = [s \in Server |-> "spento"]
  /\ speaker = [s \in Congressi |-> [g \in Giorni |-> Vuoto]]
  /\ fase = [c \in Client |-> "tag"]
  /\ serverRMI = [c \in Client |-> Nullo]
  /\ chiamata = [c \in Client |-> Nullo]
  /\ chiamate = [c \in Client |-> 0]
  /\ confermate = {} /\ piene = {}

Esporta(s) == stato[s] \in {"aggiunto", "attivo"}

-----------------------------------------------------------------------------
(* The main of a server, and the end of its process. *)

\* 1, 2: the object is exported and its name added.
main_aggiungi(s) ==
  /\ stato[s] = "spento"
  /\ aggiungi(serviceName[s], s)
  /\ stato' = [stato EXCEPT ![s] = "aggiunto"]
  /\ UNCHANGED <<speaker, eliminazioni, clientVars, storia>>

\* 3: another call gives the name its tags.
main_associa(s) ==
  /\ stato[s] = "aggiunto"
  /\ \E t \in tags[s] : associaTags(serviceName[s], t)
  /\ stato' = [stato EXCEPT ![s] = "attivo"]
  /\ UNCHANGED <<speaker, eliminazioni, clientVars, storia>>

\* The memory of the process goes; its entry in the registry stays.
Fine(s) ==
  /\ stato' = [stato EXCEPT ![s] = "morto"]
  /\ speaker' = [r \in Congressi |-> IF r = s THEN [g \in Giorni |-> Vuoto] ELSE speaker[r]]
  /\ UNCHANGED <<registryVars, clientVars, storia>>

\* The tags are refused: System.exit(1).
main_rifiutato(s) == /\ stato[s] = "aggiunto"
                     /\ \E t \in tags[s] : Rifiutati(t)
                     /\ Fine(s)

Muore(s) == Esporta(s) /\ Fine(s)

\* A caller of the registry's interface takes a service off.
Elimina(n) ==
  /\ eliminazioni < MaxEliminazioni
  /\ eliminazioni' = eliminazioni + 1
  /\ eliminaPrimo(n) \/ eliminaTutti(n)
  /\ UNCHANGED <<serverVars, clientVars, storia>>

-----------------------------------------------------------------------------
(* The threads of a server. *)

LibereIn(r) == {k \in 1 .. Posti : speaker[r.server][r.giorno][<<r.sessione, k>>] = Libero}

Richiesto(c) == fase[c] = "registra" /\ Esporta(serverRMI[c])

\* Place k of the session is given, and 0 returned.
Assegna(c, k) ==
  LET r == chiamata[c] IN
    /\ speaker' = [speaker EXCEPT ![r.server][r.giorno][<<r.sessione, k>>] = r.chi]
    /\ fase' = [fase EXCEPT ![c] = "effettuata"]
    /\ UNCHANGED <<stato, registryVars, serverRMI, chiamata, chiamate, storia>>

\* Mutant: the last place is written when none is free.
registra_ultimo(c) ==
  /\ Richiesto(c)
  /\ \E k \in IF LibereIn(chiamata[c]) = {} THEN {Posti} ELSE Primo(LibereIn(chiamata[c])) :
       Assegna(c, k)

\* Mutant: the loop starts from the last place.
registra_dal_fondo(c) ==
  /\ Richiesto(c)
  /\ \E k \in LibereIn(chiamata[c]) :
       (\A j \in LibereIn(chiamata[c]) : j <= k) /\ Assegna(c, k)

\* Mutant: the newest speaker goes first and the others move down.
registra_sposta(c) ==
  LET r == chiamata[c] IN
    /\ Richiesto(c) /\ LibereIn(r) # {}
    /\ speaker' = [speaker EXCEPT ![r.server][r.giorno] = [x \in Celle |->
         IF x[1] # r.sessione THEN @[x]
         ELSE IF x[2] = 1 THEN r.chi ELSE @[<<x[1], x[2] - 1>>]]]
    /\ fase' = [fase EXCEPT ![c] = "effettuata"]
    /\ UNCHANGED <<stato, registryVars, serverRMI, chiamata, chiamate, storia>>

\* registrazione and registra: the first free place of the session.
registra(c) ==
  /\ Richiesto(c)
  /\ \E k \in Primo(LibereIn(chiamata[c])) : Assegna(c, k)

\* Mutant: the loop looks at the first place alone.
registra_piena_presto(c) ==
  /\ Richiesto(c)
  /\ 1 \notin LibereIn(chiamata[c])
  /\ fase' = [fase EXCEPT ![c] = "piena"]
  /\ UNCHANGED <<serverVars, registryVars, serverRMI, chiamata, chiamate, storia>>

\* The session is full: 1.
registra_piena(c) ==
  /\ Richiesto(c)
  /\ LibereIn(chiamata[c]) = {}
  /\ fase' = [fase EXCEPT ![c] = "piena"]
  /\ UNCHANGED <<serverVars, registryVars, serverRMI, chiamata, chiamate, storia>>

Precede(x, y) == x[1] < y[1] \/ (x[1] = y[1] /\ x[2] < y[2])

\* programma: the serialisation of the Programma reads its next cell.
programma(c) ==
  /\ fase[c] = "programma" /\ Esporta(serverRMI[c])
  /\ \E x \in Celle :
       /\ chiamata[c].celle[x] = NonLetto
       /\ \A y \in Celle : Precede(y, x) => chiamata[c].celle[y] # NonLetto
       /\ chiamata' = [chiamata EXCEPT ![c].celle[x] =
                        speaker[serverRMI[c]][chiamata[c].giorno][x]]
  /\ UNCHANGED <<registryVars, serverVars, fase, serverRMI, chiamate, storia>>

-----------------------------------------------------------------------------
(* The client. *)

\* 5: the search by tag finds a service, and the client takes the first; or it
\* throws, and the client exits.  When it finds none the client asks again.
ricerca_trova(c) ==
  /\ fase[c] = "tag" /\ ~ cercaTag_fallisce
  /\ \E t \in TagUtente : \E i \in Primo(cercaTag(<<t>>)) :
       serverRMI' = [serverRMI EXCEPT ![c] = [nome |-> table[i].nome, tag |-> t]]
  /\ fase' = [fase EXCEPT ![c] = "nome"]
  /\ UNCHANGED <<registryVars, serverVars, chiamata, chiamate, storia>>

ricerca_fallisce(c) ==
  /\ fase[c] = "tag" /\ cercaTag_fallisce
  /\ fase' = [fase EXCEPT ![c] = "fine"]
  /\ UNCHANGED <<registryVars, serverVars, serverRMI, chiamata, chiamate, storia>>

\* 6: the name found is looked up with a second call.  A reference that is no
\* ServerCongresso does not convert, and the client exits; null converts; a tag
\* other than those of the congress is not handled.
cerca_nome(c) ==
  LET rif == cerca(serverRMI[c].nome)
      noto == serverRMI[c].tag \in TagCongresso
  IN
    /\ fase[c] = "nome"
    /\ \/ /\ rif \in Congressi \cup {Nullo} /\ noto
          /\ fase' = [fase EXCEPT ![c] = "servizio"]
          /\ serverRMI' = [serverRMI EXCEPT ![c] = rif]
       \/ /\ rif \in Congressi \cup {Nullo} /\ ~ noto
          /\ fase' = [fase EXCEPT ![c] = "tag"]
          /\ serverRMI' = [serverRMI EXCEPT ![c] = Nullo]
       \/ /\ rif \notin Congressi \cup {Nullo}
          /\ fase' = [fase EXCEPT ![c] = "fine"]
          /\ serverRMI' = [serverRMI EXCEPT ![c] = Nullo]
    /\ UNCHANGED <<registryVars, serverVars, chiamata, chiamate, storia>>

Chiede(c, f, r) ==
  /\ fase[c] = "servizio" /\ serverRMI[c] # Nullo /\ chiamate[c] < MaxChiamate[c]
  /\ chiamate' = [chiamate EXCEPT ![c] = @ + 1]
  /\ fase' = [fase EXCEPT ![c] = f]
  /\ chiamata' = [chiamata EXCEPT ![c] = r]
  /\ UNCHANGED <<registryVars, serverVars, serverRMI, storia>>

\* 7: R.  The client checks day and session before it calls.
chiede_registrazione(c) ==
  \E g \in Giorni, e \in 1 .. Sessioni :
    Chiede(c, "registra", [server |-> serverRMI[c], giorno |-> g, sessione |-> e,
                           chi |-> <<c, chiamate[c] + 1>>, dopo |-> Chi(confermate)])

\* 7: P.
chiede_programma(c) ==
  \E g \in Giorni :
    Chiede(c, "programma", [giorno |-> g, celle |-> [x \in Celle |-> NonLetto],
                            dopo |-> Chi(confermate)])

Ritorna(c) ==
  /\ fase' = [fase EXCEPT ![c] = "servizio"]
  /\ chiamata' = [chiamata EXCEPT ![c] = Nullo]
  /\ UNCHANGED <<registryVars, serverVars, serverRMI, chiamate>>

\* "Registrazione di .. effettuata".
legge_effettuata(c) ==
  /\ fase[c] = "effettuata"
  /\ confermate' = confermate \cup {chiamata[c]}
  /\ UNCHANGED piene
  /\ Ritorna(c)

\* "Sessione piena".
legge_piena(c) ==
  /\ fase[c] = "piena"
  /\ piene' = piene \cup {chiamata[c]}
  /\ UNCHANGED confermate
  /\ Ritorna(c)

Completa(c) == \A x \in Celle : chiamata[c].celle[x] # NonLetto

\* stampa.
stampa(c) ==
  /\ fase[c] = "programma" /\ Completa(c)
  /\ UNCHANGED storia
  /\ Ritorna(c)

\* E: back to the tags.
nuovo_tag(c) ==
  /\ fase[c] = "servizio"
  /\ fase' = [fase EXCEPT ![c] = "tag"]
  /\ serverRMI' = [serverRMI EXCEPT ![c] = Nullo]
  /\ UNCHANGED <<registryVars, serverVars, chiamata, chiamate, storia>>

\* The end of the input; or an exception, in a call to a server that is dead or
\* on a null reference.
termina(c) ==
  /\ \/ fase[c] \in {"tag", "servizio"}
     \/ fase[c] \notin {"tag", "servizio", "nome", "fine"} /\ ~ Esporta(serverRMI[c])
  /\ fase' = [fase EXCEPT ![c] = "fine"]
  /\ serverRMI' = [serverRMI EXCEPT ![c] = Nullo]
  /\ chiamata' = [chiamata EXCEPT ![c] = Nullo]
  /\ UNCHANGED <<registryVars, serverVars, chiamate, storia>>

Servizio(s) == main_aggiungi(s) \/ main_associa(s) \/ main_rifiutato(s) \/ Muore(s)

Chiamata(c) == registra(c) \/ registra_piena(c) \/ programma(c)

Cliente(c) ==
  \/ ricerca_trova(c) \/ ricerca_fallisce(c) \/ cerca_nome(c) \/ nuovo_tag(c) \/ termina(c)
  \/ chiede_registrazione(c) \/ legge_effettuata(c) \/ legge_piena(c)
  \/ chiede_programma(c) \/ stampa(c)

Next ==
  \/ \E s \in Server : Servizio(s) \/ Elimina(serviceName[s])
  \/ \E c \in Client : Chiamata(c) \/ Cliente(c)

Spec == Init /\ [][Next]_vars

-----------------------------------------------------------------------------
(* Properties. *)

InChiamata == {"registra", "effettuata", "piena"}

\* The places a registration has in the programme it was sent to.
Posto(r) == {k \in 1 .. Posti : speaker[r.server][r.giorno][<<r.sessione, k>>] = r.chi}

\* Types of every variable.
TypeOK ==
  /\ table \in [Righe -> [nome : Nomi \cup {Nullo}, rif : Server \cup {Nullo},
                          tags : (UNION {tags[s] : s \in Server}) \cup {Nullo}]]
  /\ \A i \in Righe : table[i].nome = Nullo <=> table[i].rif = Nullo
  /\ eliminazioni \in 0 .. MaxEliminazioni
  /\ stato \in [Server -> {"spento", "aggiunto", "attivo", "morto"}]
  /\ speaker \in [Congressi -> [Giorni -> [Celle -> Speaker \cup {Libero}]]]
  /\ fase \in [Client -> {"tag", "nome", "servizio", "programma", "fine"} \cup InChiamata]
  /\ serverRMI \in [Client -> Congressi \cup {Nullo} \cup [nome : Nomi, tag : TagUtente]]
  /\ chiamata \in [Client -> Iscrizioni \cup Consultazioni \cup {Nullo}]
  /\ chiamate \in [Client -> Nat]
  /\ \A c \in Client :
       /\ chiamate[c] <= MaxChiamate[c]
       /\ fase[c] = "servizio" => serverRMI[c] \in Congressi \cup {Nullo}
       /\ fase[c] = "programma" => serverRMI[c] \in Congressi /\ chiamata[c] \in Consultazioni
       /\ fase[c] \in InChiamata =>
            chiamata[c] \in Iscrizioni /\ serverRMI[c] = chiamata[c].server
  /\ confermate \subseteq Iscrizioni /\ piene \subseteq Iscrizioni

\* "Registrazione di .. effettuata" (ClientCongresso.java): a confirmed
\* registration has one place, in the programme it was made for, and keeps it as
\* long as that server lives, whatever the others do.
IscrizioneRispettata ==
  \A r \in confermate : Esporta(r.server) => \E k \in 1 .. Posti : Posto(r) = {k}

\* "Sessione piena" is true when it is said and stays so, and the registration
\* refused is nowhere.
PienaVera ==
  \A r \in piene : Esporta(r.server) => LibereIn(r) = {} /\ Posto(r) = {}

\* Whoever asks after a confirmation speaks after it.
OrdineDiArrivo ==
  \A r, q \in confermate :
    /\ Esporta(r.server)
    /\ q.chi \in r.dopo
    /\ q.server = r.server /\ q.giorno = r.giorno /\ q.sessione = r.sessione
    => \A j \in Posto(q), k \in Posto(r) : j < k

\* The programme a user is shown, put together while others register, has every
\* registration of that day that anyone was told of before the user asked, and
\* shows nobody in a place that is not theirs.
ProgrammaAggiornato ==
  \A c \in Client : fase[c] = "programma" /\ Completa(c) /\ Esporta(serverRMI[c]) =>
    LET celle == chiamata[c].celle  g == chiamata[c].giorno  s == serverRMI[c] IN
      /\ \A r \in confermate : r.chi \in chiamata[c].dopo /\ r.server = s /\ r.giorno = g =>
           \E k \in 1 .. Posti : celle[<<r.sessione, k>>] = r.chi
      /\ \A x \in Celle : celle[x] \in {Libero, speaker[s][g][x]}

\* As long as nothing is removed the table has no holes, so that a search by tag
\* that does not throw sees every service.
RicercaSenzaBuchi ==
  eliminazioni = 0 => Viste = Righe \ Libere

\* A client is left without a reference only if someone removed the service
\* between its two calls to the registry.
RiferimentoTrovato ==
  \A c \in Client : eliminazioni = 0 =>
    /\ fase[c] = "nome" => Con(serverRMI[c].nome) # {}
    /\ fase[c] = "servizio" => serverRMI[c] # Nullo

\* "cerca i servizi che fanno match con tutti i tag della lista"
\* (RegistryRemotoImpl.java): a search never ends in an exception.
RicercaRisponde == ~ cercaTag_fallisce
=============================================================================
