------------------------------- MODULE XFactor -------------------------------
(***************************************************************************)
(* The talent show of Esercitazione 8: xfactor_s.c (the server's           *)
(* procedures), xfactor_c.c (the client) and the rpcgen stubs.             *)
(*                                                                         *)
(* The table t has N rows.  Only its column voto changes; candidates and   *)
(* judges are the constant Righe, a row nobody uses holding "L" for both   *)
(* and -1 votes.  esprimi_voto is not idempotent, and the answer it gives  *)
(* is a static variable that only ever goes from -1 to 0.                  *)
(***************************************************************************)
EXTENDS RpcUdp, SequencesExt

CONSTANTS Righe,        \* what inizializza writes: <<[candidato, giudice, voto], ..>>
          NUM_GIUDICI,  \* entries of a ranking
          Nomi,         \* names users type
          Operazioni    \* operations users type: "A", "S" or anything else

N == Len(Righe)

ASSUME XFactorAssumption ==
  /\ Righe \in Seq([candidato : STRING, giudice : STRING, voto : Int])
  /\ NUM_GIUDICI \in Nat /\ N <= NUM_GIUDICI
  /\ \A i \in 1 .. N : /\ Righe[i].candidato = "L" <=> Righe[i].giudice = "L"
                       /\ Righe[i].voto >= IF Righe[i].candidato = "L" THEN -1 ELSE 0
  /\ \A i, j \in 1 .. N :
       Righe[i].candidato = Righe[j].candidato => i = j \/ Righe[i].candidato = "L"

VARIABLES voto,           \* the column voto of the static table
          inizializzato,  \* the static flag of the server
          found,          \* the static result of esprimi_voto_1_svc
          spedite,        \* history: every datagram sent to the server
          esiti           \* history: what each returned call told its user

serverVars == <<voto, inizializzato, found>>
vars == <<rpcVars, serverVars, spedite, esiti>>

Voti       == [nomeCandidato : Nomi, tipoOp : Operazioni]
Classifica == {[op |-> "classifica"]}
Input      == Voti \cup Classifica

Autore(m) == <<m.client, m.xid>>

\* The votes a procedure sees after its "if (inizializzato == 0) inizializza()".
VotiCorrenti == IF inizializzato THEN voto ELSE [i \in 1 .. N |-> Righe[i].voto]

Init ==
  /\ RpcInit
  /\ voto = [i \in 1 .. N |-> 0]
  /\ inizializzato = FALSE
  /\ found = -1
  /\ spedite = {} /\ esiti = {}

-----------------------------------------------------------------------------
(* classifica_giudici_1_svc. *)

VoceVuota == [giudice |-> "L", punti |-> -1]

\* Mutant: a judge already in the ranking is entered again.
AggiungiRiga_senza_presente(r, riga) ==
  [voci |-> [r.voci EXCEPT ![r.ind] = [giudice |-> riga.giudice, punti |-> riga.voto]],
   ind  |-> r.ind + 1]

\* One row: added to every entry of its judge, or entered at ind if there is none.
AggiungiRiga(r, riga) ==
  IF \E k \in DOMAIN r.voci : r.voci[k].giudice = riga.giudice
    THEN [r EXCEPT !.voci = [k \in DOMAIN @ |->
            IF @[k].giudice = riga.giudice THEN [r.voci[k] EXCEPT !.punti = @ + riga.voto]
                                           ELSE @[k]]]
    ELSE [voci |-> [r.voci EXCEPT ![r.ind] = [giudice |-> riga.giudice, punti |-> riga.voto]],
          ind  |-> r.ind + 1]

\* The inner step of the bubble sort.
Scambia(s, k) ==
  IF s[k].punti < s[k + 1].punti
    THEN [s EXCEPT ![k] = s[k + 1], ![k + 1] = s[k]]
    ELSE s

Passata(s, i) == FoldLeft(Scambia, s, [k \in 1 .. NUM_GIUDICI - i - 1 |-> k])

Ordina(s) == FoldLeft(Passata, s, [i \in 1 .. NUM_GIUDICI - 1 |-> i - 1])

classificaGiudici ==
  LET t     == [i \in 1 .. N |-> [giudice |-> Righe[i].giudice, voto |-> VotiCorrenti[i]]]
      vuota == [voci |-> [k \in 1 .. NUM_GIUDICI |-> VoceVuota], ind |-> 1]
  IN  Ordina(FoldLeft(AggiungiRiga, vuota, t).voci)

\* Mutant: the dispatcher answers with the result of the other procedure.
classifica_giudici_scambiata(m) ==
  /\ m.arg \in Classifica
  /\ svc_sendreply(m, [found |-> found])
  /\ voto' = VotiCorrenti
  /\ inizializzato' = TRUE
  /\ UNCHANGED <<found, spedite, esiti>>

classifica_giudici(m) ==
  /\ m.arg \in Classifica
  /\ svc_sendreply(m, [classifica |-> classificaGiudici])
  /\ voto' = VotiCorrenti
  /\ inizializzato' = TRUE
  /\ UNCHANGED <<found, spedite, esiti>>

-----------------------------------------------------------------------------
(* esprimi_voto_1_svc. *)

\* The row of a candidate: the first that has the name.
Trovato(nome) == \E i \in 1 .. N : Righe[i].candidato = nome
Riga(nome) ==
  CHOOSE i \in 1 .. N : /\ Righe[i].candidato = nome
                        /\ \A j \in 1 .. i - 1 : Righe[j].candidato # nome

Rispondi(m) ==
  /\ m.arg \in Voti
  /\ svc_sendreply(m, [found |-> found'])
  /\ inizializzato' = TRUE
  /\ UNCHANGED <<spedite, esiti>>

\* Mutant: a vote counts two.
esprimi_voto_doppio(m) ==
  /\ m.arg \in Voti /\ m.arg.tipoOp = "A" /\ Trovato(m.arg.nomeCandidato)
  /\ voto' = [VotiCorrenti EXCEPT ![Riga(m.arg.nomeCandidato)] = @ + 2]
  /\ found' = 0
  /\ Rispondi(m)

\* "A" on a name of the table.
esprimi_voto_aggiunge(m) ==
  /\ m.arg \in Voti /\ m.arg.tipoOp = "A" /\ Trovato(m.arg.nomeCandidato)
  /\ voto' = [VotiCorrenti EXCEPT ![Riga(m.arg.nomeCandidato)] = @ + 1]
  /\ found' = 0
  /\ Rispondi(m)

\* Mutant: the test "voto > 0" is missing.
esprimi_voto_toglie_senza_minimo(m) ==
  /\ m.arg \in Voti /\ m.arg.tipoOp = "S" /\ Trovato(m.arg.nomeCandidato)
  /\ voto' = [VotiCorrenti EXCEPT ![Riga(m.arg.nomeCandidato)] = @ - 1]
  /\ found' = 0
  /\ Rispondi(m)

\* "S" on a candidate that has votes.
esprimi_voto_toglie(m) ==
  /\ m.arg \in Voti /\ m.arg.tipoOp = "S" /\ Trovato(m.arg.nomeCandidato)
  /\ VotiCorrenti[Riga(m.arg.nomeCandidato)] > 0
  /\ voto' = [VotiCorrenti EXCEPT ![Riga(m.arg.nomeCandidato)] = @ - 1]
  /\ found' = 0
  /\ Rispondi(m)

\* An unknown name, or "Invalid operation!": nothing changes, and found keeps
\* the answer to whoever voted before.
esprimi_voto_rifiuta(m) ==
  /\ m.arg \in Voti
  /\ Trovato(m.arg.nomeCandidato) =>
       /\ m.arg.tipoOp # "A"
       /\ m.arg.tipoOp = "S" => VotiCorrenti[Riga(m.arg.nomeCandidato)] <= 0
  /\ voto' = VotiCorrenti
  /\ found' = found
  /\ Rispondi(m)

Servi(m) == \/ classifica_giudici(m)
            \/ esprimi_voto_aggiunge(m) \/ esprimi_voto_toglie(m) \/ esprimi_voto_rifiuta(m)

-----------------------------------------------------------------------------
(* The client: a menu, no check of what the user types. *)

Spedisce(c) == spedite' = spedite \cup (richieste' \ richieste)

Chiama(c) ==
  /\ \E i \in Input : clnt_call(c, i)
  /\ Spedisce(c)
  /\ UNCHANGED <<serverVars, esiti>>

Esito(r) == [chi |-> Autore(r.req), arg |-> r.req.arg, ris |-> r.ris]

Leggi(c) ==
  /\ \E r \in risposte : Restituisci(c, r) /\ esiti' = esiti \cup {Esito(r)}
  /\ UNCHANGED <<serverVars, spedite>>

\* The call is retried or given up.
Attesa(c) ==
  /\ Ritrasmetti(c) \/ Scaduto(c)
  /\ Spedisce(c)
  /\ UNCHANGED <<serverVars, esiti>>

Esci(c) ==
  /\ clnt_destroy(c)
  /\ UNCHANGED <<serverVars, spedite, esiti>>

Next ==
  \/ \E m \in richieste : Servi(m)
  \/ \E c \in Client : Chiama(c) \/ Leggi(c) \/ Attesa(c) \/ Esci(c)

Spec == Init /\ [][Next]_vars

-----------------------------------------------------------------------------
(* Properties. *)

Giudici == {Righe[i].giudice : i \in 1 .. N} \ {"L"}
Candidati(g) == {i \in 1 .. N : Righe[i].giudice = g}
Totale(g) == SumFunctionOnSet(VotiCorrenti, Candidati(g))

\* Types of every variable; what a client reads was sent by the server.
TypeOK ==
  /\ fase \in [Client -> {"menu", "attesa", "fine"}]
  /\ \A c \in Client : xid[c] \in 0 .. MaxChiamate[c]
  /\ copie \in [Client -> 0 .. Tentativi]
  /\ arg \in [Client -> Input \cup {Nessuno}]
  /\ richieste \cup {r.req : r \in risposte} \subseteq spedite
  /\ spedite \subseteq RichiestaRpc(Input)
  /\ voto \in [1 .. N -> Int] /\ inizializzato \in BOOLEAN /\ found \in {0, -1}
  /\ \A e \in esiti : e.arg \in Classifica <=> DOMAIN e.ris = {"classifica"}

\* "Voto min e' 0" (xfactor_s.c): no sequence of votes, repeated or not, takes a
\* candidate below zero.
VotoMinimo ==
  \A i \in 1 .. N : Righe[i].candidato # "L" => VotiCorrenti[i] >= 0

Copie(op, i) ==
  {m \in spedite : m.arg = [nomeCandidato |-> Righe[i].candidato, tipoOp |-> op]}

\* Calls of client c, up to the x-th, that were told a vote for row i was taken.
Confermati(c, x, i) ==
  {e \in esiti : /\ e.chi[1] = c /\ e.chi[2] <= x
                 /\ e.arg = [nomeCandidato |-> Righe[i].candidato, tipoOp |-> "A"]
                 /\ e.ris = [found |-> 0]}

\* No vote is invented and no confirmed vote is lost: a candidate has at most a
\* vote for every datagram sent, and at least one for every vote confirmed to
\* its user, less one for every datagram that takes votes away.
VotiGiustificati ==
  \A i \in 1 .. N : Righe[i].candidato # "L" =>
    LET confermati == UNION {Confermati(c, MaxChiamate[c], i) : c \in Client} IN
      /\ VotiCorrenti[i] <= Righe[i].voto + Cardinality(Copie("A", i))
      /\ VotiCorrenti[i] + Cardinality(Copie("S", i))
           >= Righe[i].voto + Cardinality(confermati)

\* The ranking computed at any moment is in decreasing order and has one entry
\* for each judge, with the sum of the votes of that judge's candidates.
ClassificaCorretta ==
  LET voci == classificaGiudici IN
    /\ \A k \in 1 .. NUM_GIUDICI - 1 : voci[k].punti >= voci[k + 1].punti
    /\ \A g \in Giudici :
         /\ Cardinality({k \in 1 .. NUM_GIUDICI : voci[k].giudice = g}) = 1
         /\ \E k \in 1 .. NUM_GIUDICI : voci[k] = [giudice |-> g, punti |-> Totale(g)]

Punti(e, g) == LET k == CHOOSE k \in 1 .. NUM_GIUDICI : e.ris.classifica[k].giudice = g
               IN  e.ris.classifica[k].punti

\* A ranking shown to a user contains the votes that user was told were taken,
\* and is not behind a ranking shown before, but for votes taken away since: it
\* rests on clnt_call dropping the late answers of earlier calls.
ClassificheCoerenti ==
  \A f \in esiti, g \in Giudici : f.arg \in Classifica =>
    LET tolti == SumFunctionOnSet([i \in 1 .. N |-> Cardinality(Copie("S", i))], Candidati(g))
    IN
      /\ \A i \in Candidati(g) :
           Punti(f, g) + tolti
             >= Righe[i].voto + Cardinality(Confermati(f.chi[1], f.chi[2], i))
      /\ \A e \in esiti :
           e.arg \in Classifica /\ e.chi[1] = f.chi[1] /\ e.chi[2] < f.chi[2] =>
             Punti(f, g) + tolti >= Punti(e, g)

\* What the client prints is true: "Votazione effettuata con successo" for a
\* candidate of the table, "nome non trovato" for a name that is not there.
EsitoVeritiero ==
  \A e \in esiti : e.arg \in Voti =>
    (e.ris = [found |-> 0] <=> Trovato(e.arg.nomeCandidato))
=============================================================================
