-------------------------------- MODULE Sala --------------------------------
(***************************************************************************)
(* Esercitazione 8, "sala": a hall whose seats are reserved by RPC.        *)
(*                                                                         *)
(* sala_s.c keeps the hall in a static struct that is filled the first     *)
(* time any procedure runs; sala_c.c is an interactive client; sala_clnt.c *)
(* and sala_svc.c are the stubs, modelled in RpcUdp.                       *)
(***************************************************************************)
EXTENDS RpcUdp, FiniteSets

CONSTANTS NUMFILE,    \* rows (10 in sala.x)
          LUNGHFILA,  \* seats per row (7 in sala.x)
          Scelte      \* bound: the kinds users ask for, among P, D and B

ASSUME SalaAssumption ==
  /\ NUMFILE \in Nat /\ LUNGHFILA \in Nat
  /\ Scelte \subseteq {"P", "D", "B"}
  /\ Nessuno \notin Client \X Nat

VARIABLES sala,           \* the static Sala of the server
          inizializzato,  \* the static flag of the server
          titolare,       \* history: the call that reserved each seat
          esiti           \* history: what each returned call told its user

serverVars == <<sala, inizializzato, titolare>>
vars == <<rpcVars, serverVars, esiti>>

Postazioni == (0 .. NUMFILE - 1) \X (0 .. LUNGHFILA - 1)
Tipi       == {"P", "D", "B"}
Stati      == Tipi \cup {"L"}

Prenota == [op : {"P"}, tipo : Tipi, posto : Postazioni]
Vedi    == [op : {"V"}]
Input   == Prenota \cup Vedi

Codici   == [cod : {0, -2}]
Viste    == [stato : [Postazioni -> Stati]]
Risultati == Codici \cup Viste

Chiamate == UNION {{c} \X (1 .. MaxChiamate[c]) : c \in Client}
Autore(m) == <<m.client, m.xid>>

\* A static struct starts as zero bytes: no seat is 'L' before inizializza.
SalaZero == [p \in Postazioni |-> "nul"]

\* The hall inizializza lays out.
SalaIniziale ==
  [p \in Postazioni |->
     LET i == p[1]
         j == p[2]
     IN  CASE p = <<1, 0>>                        -> "D"
           [] p \in {<<2, 1>>, <<5, 2>>}          -> "P"
           [] i = 8 /\ j \in 0 .. 2               -> "B"
           [] i \in {1, 2, 3, 5, 6} /\ j \in 4 .. 5 -> "P"
           [] p = <<1, 6>>                        -> "B"
           [] OTHER                               -> "L"]

\* Mutant: inizializza never sets its flag, so every call lays the hall out anew.
SalaCorrente_flag_mai_alzato == SalaIniziale

\* Mutant: the procedures forget to call inizializza.
SalaCorrente_senza_inizializza == sala

\* The hall a procedure sees after its "if (inizializzato == 0) inizializza()".
SalaCorrente == IF inizializzato THEN sala ELSE SalaIniziale

Init ==
  /\ RpcInit
  /\ sala = SalaZero
  /\ inizializzato = FALSE
  /\ titolare = [p \in Postazioni |-> Nessuno]
  /\ esiti = {}

-----------------------------------------------------------------------------
(* The server's procedures. *)

\* Mutant: the test "!= 'L'" is missing.
prenota_libera_senza_test(m) ==
  /\ m.arg \in Prenota
  /\ svc_sendreply(m, [cod |-> 0])
  /\ sala' = [SalaCorrente EXCEPT ![m.arg.posto] = m.arg.tipo]
  /\ inizializzato' = TRUE
  /\ titolare' = [titolare EXCEPT ![m.arg.posto] = Autore(m)]
  /\ UNCHANGED esiti

\* A free seat: mark it and answer 0.
prenota_libera(m) ==
  /\ m.arg \in Prenota
  /\ SalaCorrente[m.arg.posto] = "L"
  /\ svc_sendreply(m, [cod |-> 0])
  /\ sala' = [SalaCorrente EXCEPT ![m.arg.posto] = m.arg.tipo]
  /\ inizializzato' = TRUE
  /\ titolare' = [titolare EXCEPT ![m.arg.posto] = Autore(m)]
  /\ UNCHANGED esiti

\* A seat that is not 'L': answer -2, whoever holds it.
prenota_occupata(m) ==
  /\ m.arg \in Prenota
  /\ SalaCorrente[m.arg.posto] # "L"
  /\ svc_sendreply(m, [cod |-> -2])
  /\ sala' = SalaCorrente
  /\ inizializzato' = TRUE
  /\ UNCHANGED <<titolare, esiti>>

\* The whole hall, as it is.
visualizza_stato(m) ==
  /\ m.arg \in Vedi
  /\ svc_sendreply(m, [stato |-> SalaCorrente])
  /\ sala' = SalaCorrente
  /\ inizializzato' = TRUE
  /\ UNCHANGED <<titolare, esiti>>

Servi(m) == prenota_libera(m) \/ prenota_occupata(m) \/ visualizza_stato(m)

-----------------------------------------------------------------------------
(* The client: the menu validates kind, row and column before the call. *)

Chiama(c) ==
  /\ \E i \in Input : (i \in Prenota => i.tipo \in Scelte) /\ clnt_call(c, i)
  /\ UNCHANGED <<serverVars, esiti>>

Esito(c, r) == [chi |-> <<c, xid[c]>>, arg |-> arg[c], ris |-> r.ris]

Leggi(c) ==
  \E r \in risposte :
    /\ Restituisci(c, r)
    /\ esiti' = esiti \cup {Esito(c, r)}
    /\ UNCHANGED serverVars

\* Mutant: the stub has no total TIMEOUT.
Attesa_senza_timeout(c) ==
  /\ Ritrasmetti(c)
  /\ UNCHANGED <<serverVars, esiti>>

\* The call is retried or given up.
Attesa(c) ==
  /\ Ritrasmetti(c) \/ Scaduto(c)
  /\ UNCHANGED <<serverVars, esiti>>

Esci(c) ==
  /\ clnt_destroy(c)
  /\ UNCHANGED <<serverVars, esiti>>

Next ==
  \/ \E m \in richieste : Servi(m)
  \/ \E c \in Client : Chiama(c) \/ Leggi(c) \/ Attesa(c) \/ Esci(c)

Spec == Init /\ [][Next]_vars

\* The timers of clnt_call run whatever the network and the server do.
FairSpec == Spec /\ \A c \in Client : WF_vars(Attesa(c))

-----------------------------------------------------------------------------
(* Properties. *)

\* Types of every variable, uninitialised hall included.
TypeOK ==
  /\ fase \in [Client -> {"menu", "attesa", "fine"}]
  /\ xid \in [Client -> Nat]
  /\ copie \in [Client -> 0 .. Tentativi]
  /\ arg \in [Client -> Input \cup {Nessuno}]
  /\ richieste \subseteq RichiestaRpc(Input)
  /\ risposte \subseteq RispostaRpc(Input, Risultati)
  /\ inizializzato \in BOOLEAN
  /\ sala \in [Postazioni -> Stati \cup {"nul"}]
  /\ inizializzato => sala \in [Postazioni -> Stati]
  /\ titolare \in [Postazioni -> Chiamate \cup {Nessuno}]
  /\ esiti \subseteq [chi : Chiamate, arg : Input, ris : Risultati]

Confermata(e) == e.arg \in Prenota /\ e.ris = [cod |-> 0]
Rifiutata(e)  == e.arg \in Prenota /\ e.ris = [cod |-> -2]
Vista(e)      == "stato" \in DOMAIN e.ris

\* A seat is promised to one call only, whatever copies of whatever requests
\* the server executes, and the promise is kept: as long as the server runs,
\* the seat stays in the hall as the confirmed call asked for it (the test
\* "!= 'L'" of prenota_postazione_1_svc, and inizializza running only once).
UnSoloVincitore ==
  \A e \in esiti : Confermata(e) =>
    /\ SalaCorrente[e.arg.posto] = e.arg.tipo
    /\ \A f \in esiti : Confermata(f) /\ f.arg.posto = e.arg.posto => f.chi = e.chi

\* What one client is told never goes back in time: a hall shown after an
\* answer contains the seat that answer confirmed, shows as taken the seat it
\* refused, and every seat an earlier view showed as taken.  It rests on
\* clnt_call dropping the late answers of earlier calls.
VisteCoerenti ==
  \A e, f \in esiti :
    e.chi[1] = f.chi[1] /\ e.chi[2] < f.chi[2] /\ Vista(f) =>
      /\ Confermata(e) => f.ris.stato[e.arg.posto] = e.arg.tipo
      /\ Rifiutata(e)  => f.ris.stato[e.arg.posto] # "L"
      /\ Vista(e) => \A p \in Postazioni :
           e.ris.stato[p] # "L" => f.ris.stato[p] = e.ris.stato[p]

\* Every call returns to the user: with an answer, or with the NULL after
\* which the client exits (TIMEOUT in sala_clnt.c).
ChiamataTermina ==
  \A c \in Client : fase[c] = "attesa" ~> fase[c] # "attesa"

\* The service, lazily initialised and served over lossy and repeated
\* datagrams, implements the booking promise of Prenotazione: the hall a
\* procedure would see is the abstract hall.
RispostaPrenota(e) == [chi |-> e.chi, posto |-> e.arg.posto, cod |-> e.ris.cod]

Abs == INSTANCE Prenotazione WITH
         Chi <- Chiamate, Posti <- Postazioni, Iniziale <- SalaIniziale,
         stato <- SalaCorrente,
         detto <- {RispostaPrenota(e) : e \in {f \in esiti : f.arg \in Prenota}}

PrenotazioneRispettata == Abs!PSpec
=============================================================================
