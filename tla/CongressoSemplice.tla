--------------------------- MODULE CongressoSemplice ---------------------------
(***************************************************************************)
(* The congress of Esercitazione 5 svolta ("rmi": the server binds itself  *)
(* to a name of the rmiregistry) and of Esercitazione 6 svolta ("remoto":  *)
(* it adds itself to a RegistryRemotoImpl without tags).  Both have one    *)
(* logical name for every server, and a client that looks it up once.      *)
(*                                                                         *)
(* A process of the server may die and another be started; what it leaves  *)
(* in the registry stays.  registra is synchronized.  A speaker is what a  *)
(* user types, the empty line and the end of the input (null) included.    *)
(***************************************************************************)
EXTENDS Integers, Sequences

CONSTANTS Processo,      \* processes of the server
          Congressista,  \* clients
          Sessione,      \* a session of a day
          Nomini,        \* what users type for a speaker
          Null,          \* null, for a speaker and for a reference
          Interventi,    \* speakers of a session, 5 in the code
          RigheTabella,  \* rows of the registry's table, 100 in the code
          MaxCongresso,  \* bound: client -> calls it makes
          MaxTolti       \* bound: removals from the registry

ASSUME CongressoSempliceAssumption == Null \notin Processo /\ RigheTabella \in Nat \ {0}

VARIABLES nominato,  \* "rmi", "remoto" or "spento"
          tabella,   \* rows: a process, or Null; "rmi" uses the first
          nati,      \* history: processes started, the last one first
          viventi,   \* those that have not died
          oratori,   \* oratori[s][e]: the Programma of s, session e
          utente,    \* utente[c]: where client c is, its reference, its call
          tolti      \* removals so far

congressoVars == <<nominato, tabella, nati, viventi, oratori, utente, tolti>>

Vuota == ""

CongressoInit ==
  /\ nominato = "spento" /\ nati = <<>> /\ viventi = {} /\ tolti = 0
  /\ tabella = [i \in 1 .. RigheTabella |-> Null]
  /\ oratori = [s \in Processo |-> [e \in Sessione |-> [k \in 1 .. Interventi |-> Vuota]]]
  /\ utente = [c \in Congressista |-> [fase |-> "prima", fatte |-> 0]]

PrimaRiga(S) == {i \in S : \A j \in S : i <= j}
Occupate == {i \in DOMAIN tabella : tabella[i] # Null}

\* rmiregistry, or RegistryRemotoImpl, is started.
avvia_registry ==
  /\ nominato = "spento" /\ nominato' \in {"rmi", "remoto"}
  /\ UNCHANGED <<tabella, nati, viventi, oratori, utente, tolti>>

\* Mutant: a name that is bound stays bound, as with Naming.bind.
rebind_senza_sostituire(s) == tabella' = IF tabella[1] = Null THEN [tabella EXCEPT ![1] = s] ELSE tabella

\* Naming.rebind: the name is of the newest.
rebind(s) == tabella' = [tabella EXCEPT ![1] = s]

\* aggiungi: the first free row; the answer of a full table is not looked at.
aggiungi(s) ==
  LET libere == DOMAIN tabella \ Occupate
  IN  tabella' = [i \in DOMAIN tabella |-> IF i \in PrimaRiga(libere) THEN s ELSE tabella[i]]

\* The main of a server: an empty programme, and its name.
ServerCongressoImpl(s) ==
  /\ nominato # "spento" /\ \A k \in DOMAIN nati : nati[k] # s
  /\ IF nominato = "rmi" THEN rebind(s) ELSE aggiungi(s)
  /\ nati' = <<s>> \o nati
  /\ viventi' = viventi \cup {s}
  /\ UNCHANGED <<nominato, oratori, utente, tolti>>

muore(s) ==
  /\ s \in viventi /\ viventi' = viventi \ {s}
  /\ UNCHANGED <<nominato, tabella, nati, oratori, utente, tolti>>

\* A caller of the registry's interface: eliminaPrimo, eliminaTutti.
Togli(S) ==
  /\ nominato = "remoto" /\ S # {} /\ tolti < MaxTolti
  /\ tabella' = [i \in DOMAIN tabella |-> IF i \in S THEN Null ELSE tabella[i]]
  /\ tolti' = tolti + 1
  /\ UNCHANGED <<nominato, nati, viventi, oratori, utente>>

eliminaPrimo == Togli(PrimaRiga(Occupate))
eliminaTutti == Togli(Occupate)

-----------------------------------------------------------------------------
(* ClientCongresso. *)

\* lookup and cerca: the first row, or nothing.
cerca == IF Occupate = {} THEN Null ELSE tabella[CHOOSE i \in PrimaRiga(Occupate) : TRUE]

SoloUtente == UNCHANGED <<nominato, tabella, nati, viventi, oratori, tolti>>

\* Where there is nothing, rmiregistry throws and the client exits; the
\* registry without tags answers null, which converts.
collega(c) ==
  /\ nominato # "spento" /\ utente[c].fase = "prima"
  /\ utente' = [utente EXCEPT ![c] =
       [fase |-> IF cerca = Null /\ nominato = "rmi" THEN "eccezione" ELSE "menu", fatte |-> 0,
        rif |-> cerca, newest |-> IF nati = <<>> THEN Null ELSE nati[1], sess |-> Null, nome |-> Null,
        digitato |-> "bene"]]
  /\ SoloUtente

\* R, with a speaker, and P.  A day or a session that there is not is asked
\* for again.
chiede(c) ==
  /\ utente[c].fase = "menu" /\ utente[c].fatte < MaxCongresso[c]
  /\ \E f \in {"registra", "programma"}, e \in Sessione, n \in Nomini :
       /\ f = "programma" => n = Vuota
       /\ utente' = [utente EXCEPT ![c].fase = f, ![c].sess = e, ![c].nome = n, ![c].fatte = @ + 1]
  /\ SoloUtente

\* The input is over at the day of R or P, or at the session of R, or the day
\* is no number: parseInt, or equals on a null, throws, and nothing is called.
digita_male(c) ==
  /\ utente[c].fase = "menu"
  /\ \E dove \in {"giornata", "sessione"} :
       utente' = [utente EXCEPT ![c].fase = "eccezione", ![c].digitato = dove]
  /\ SoloUtente

\* registra: places are looked at from the first, with equals, until an empty
\* one; a null on the way is an exception for the client.
registra(c) ==
  LET u == utente[c]
      riga == oratori[u.rif][u.sess]
      ferma == PrimaRiga({k \in 1 .. Interventi : riga[k] \in {Vuota, Null}})
      esito == IF ferma = {} THEN "piena" ELSE IF \E k \in ferma : riga[k] = Null THEN "lancia" ELSE "effettuata"
  IN  /\ u.fase = "registra" /\ u.rif \in viventi
      /\ oratori' = IF esito # "effettuata" THEN oratori
                    ELSE [oratori EXCEPT ![u.rif][u.sess] = [k \in 1 .. Interventi |->
                            IF k \in ferma THEN u.nome ELSE riga[k]]]
      /\ utente' = [utente EXCEPT ![c].fase = esito]
      /\ UNCHANGED <<nominato, tabella, nati, viventi, tolti>>

\* The answer is printed; after a null speaker the input is over.
risultato(c) ==
  /\ utente[c].fase \in {"effettuata", "piena", "programma"} /\ utente[c].rif \in viventi
  /\ utente' = [utente EXCEPT ![c].fase =
       IF utente[c].fase # "programma" /\ utente[c].nome = Null THEN "fuori" ELSE "menu"]
  /\ SoloUtente

\* The exception of registra, of a server that is dead, of a null reference.
eccezione(c) ==
  /\ utente[c].fase \in {"registra", "lancia", "effettuata", "piena", "programma"}
  /\ utente[c].fase = "lancia" \/ utente[c].rif \notin viventi
  /\ utente' = [utente EXCEPT ![c].fase = "eccezione"]
  /\ SoloUtente

\* The end of the input at the menu.
fine_input(c) ==
  /\ utente[c].fase = "menu"
  /\ utente' = [utente EXCEPT ![c].fase = "fuori"]
  /\ SoloUtente

CongressoNext ==
  \/ avvia_registry \/ eliminaPrimo \/ eliminaTutti
  \/ \E s \in Processo : ServerCongressoImpl(s) \/ muore(s)
  \/ \E c \in Congressista : \/ collega(c) \/ chiede(c) \/ digita_male(c) \/ registra(c)
                             \/ risultato(c) \/ eccezione(c) \/ fine_input(c)

-----------------------------------------------------------------------------
\* A client ends with an exception only if its user made it, by a day that is no
\* number or by ending the input at the day or the session, or if there was no
\* server to find when it looked, or the one it found is dead now, or a null was
\* registered before in the session it asked for.  Nothing else that users do ends
\* it so.  With Naming.rebind the one it found is also the newest there was: a
\* server that died does not go on being found once another has been started,
\* which is what the registry without tags does.
EccezioneSpiegata ==
  \A c \in Congressista : utente[c].fase = "eccezione" =>
    LET u == utente[c]
    IN  \/ u.digitato # "bene"
        \/ u.rif = Null /\ (u.newest = Null \/ tolti > 0)
        \/ u.rif # Null /\ u.rif \notin viventi /\ (nominato = "rmi" => u.rif = u.newest)
        \/ u.rif # Null /\ \E k \in 1 .. Interventi : oratori[u.rif][u.sess][k] = Null
=============================================================================
