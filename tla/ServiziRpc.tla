------------------------------- MODULE ServiziRpc ------------------------------
(***************************************************************************)
(* Esercitazione 7: three servers over RpcUdp, whose loop executes one     *)
(* request at a time and executes a second copy of a request again.        *)
(*   conta       contaServer.c: counts in a file, files of a directory;    *)
(*   operazioni  operazioni_proc.c: a sum or a product of two ints;        *)
(*   echo        echo_proc.c: the message back.                            *)
(***************************************************************************)
EXTENDS RpcUdp, Testi

CONSTANTS FileConta,   \* name -> text
          DirConta,    \* directory -> its entries: [nome, legge, reg, dim]s
          Chiamate,    \* server -> the requests users make
          MaxNomi,     \* names in an answer of dir_scan, 8 in conta.x
          MaxFd,       \* descriptors the server may still open
          MetaInt      \* an int is in -MetaInt .. MetaInt - 1

\* A list or a text is a sequence, an operand an integer.
ASSUME ServiziRpcAssumption ==
  /\ \A f \in DOMAIN FileConta : Lista(FileConta[f])
  /\ \A d \in DOMAIN DirConta : Lista(DirConta[d])
  /\ \A s \in DOMAIN Chiamate : \A a \in Chiamate[s] :
       /\ a.proc \in {"FILE_SCAN", "DIR_SCAN", "SOMMA", "MOLTIPLICAZIONE", "ECHO"}
       /\ a.proc \in {"SOMMA", "MOLTIPLICAZIONE"} => a.op1 \in Int /\ a.op2 \in Int
  /\ MaxNomi \in Nat /\ MaxFd \in Nat /\ MetaInt \in Nat \ {0}

VARIABLES servizioRpc, \* the server that runs, or "spento"
          aperti,      \* descriptors dir_scan has opened, none of them closed
          stampate     \* history: answers shown

serviziRpcVars == <<rpcVars, servizioRpc, aperti, stampate>>

RpcServiziInit == RpcInit /\ servizioRpc = "spento" /\ aperti = 0 /\ stampate = {}

\* main of the stubs: the service is registered.
registra_servizio ==
  /\ servizioRpc = "spento" /\ servizioRpc' \in DOMAIN Chiamate
  /\ UNCHANGED <<rpcVars, aperti, stampate>>

Errore == [errore |-> -1]

\* file_scan: one descriptor, opened and closed.
file_scan(nome) ==
  IF nome \notin DOMAIN FileConta \/ aperti >= MaxFd THEN Errore
  ELSE [errore |-> 0, conto |-> ContaTesto(FileConta[nome])]

\* One turn of the loop of dir_scan on entry e: a descriptor for it, and -1 if
\* there is none left or e may not be read (legge).  The loop ends when the
\* answer is full.
Voce(a, e, soglia) ==
  IF a.errore = -1 \/ Len(a.nomi) = MaxNomi THEN a
  ELSE IF a.fd >= MaxFd \/ ~e.legge THEN [a EXCEPT !.errore = -1]
  ELSE [a EXCEPT !.fd = @ + 1, !.nomi = IF e.reg /\ e.dim >= soglia THEN Append(@, e.nome) ELSE @]

\* Mutant: one name more than the answer has room for.
dir_scan_troppi(d, soglia) ==
  IF d \notin DOMAIN DirConta \/ aperti >= MaxFd THEN [errore |-> -1, fd |-> aperti, nomi |-> <<>>]
  ELSE LET a == FoldLeft(LAMBDA b, e : Voce(b, e, soglia),
                         [errore |-> 0, fd |-> aperti + 1, nomi |-> <<>>], DirConta[d])
       IN  IF Len(a.nomi) = MaxNomi THEN [a EXCEPT !.nomi = Append(@, Last(DirConta[d]).nome)] ELSE a

\* dir_scan, with the descriptors open at its end: opendir's and one for each
\* entry, "." and ".." among them.
dir_scan(d, soglia) ==
  IF d \notin DOMAIN DirConta \/ aperti >= MaxFd THEN [errore |-> -1, fd |-> aperti, nomi |-> <<>>]
  ELSE FoldLeft(LAMBDA a, e : Voce(a, e, soglia),
                [errore |-> 0, fd |-> aperti + 1, nomi |-> <<>>], DirConta[d])

\* An int of C, as the build makes it wrap.
int(n) == ((n + MetaInt) % (2 * MetaInt)) - MetaInt

somma(op) == int(op.op1 + op.op2)
moltiplicazione(op) == int(op.op1 * op.op2)

\* echo allocates a new message for each call and frees the last.
echo(msg) == msg

\* The answer to a request, as the client sees it.
Esegue(a) ==
  CASE a.proc = "FILE_SCAN" -> file_scan(a.nome)
    [] a.proc = "DIR_SCAN" -> LET d == dir_scan(a.nome, a.soglia)
                              IN  IF d.errore = -1 THEN Errore ELSE [errore |-> 0, nomi |-> d.nomi]
    [] a.proc = "SOMMA" -> [errore |-> 0, ris |-> somma(a)]
    [] a.proc = "MOLTIPLICAZIONE" -> [errore |-> 0, ris |-> moltiplicazione(a)]
    [] a.proc = "ECHO" -> [errore |-> 0, msg |-> echo(a.msg)]

\* The server takes a request.
svc_run(m) ==
  /\ servizioRpc # "spento"
  /\ svc_sendreply(m, Esegue(m.arg))
  /\ aperti' = IF m.arg.proc = "DIR_SCAN" THEN dir_scan(m.arg.nome, m.arg.soglia).fd ELSE aperti
  /\ UNCHANGED <<servizioRpc, stampate>>

\* A client calls, retransmits, prints the answer.  The client of operazioni
\* makes one call.  When a call fails, the client of conta says so and goes on,
\* the others exit.
chiama(c) ==
  /\ servizioRpc # "spento" /\ (servizioRpc = "operazioni" => xid[c] = 0)
  /\ \E a \in Chiamate[servizioRpc] : clnt_call(c, a)
  /\ UNCHANGED <<servizioRpc, aperti, stampate>>

Ripete(c) == Ritrasmetti(c) /\ UNCHANGED <<servizioRpc, aperti, stampate>>

stampa(c) ==
  \E r \in risposte :
    /\ Restituisci(c, r)
    /\ stampate' = stampate \cup {[arg |-> arg[c], ris |-> r.ris]}
    /\ UNCHANGED <<servizioRpc, aperti>>

fallisce(c) ==
  /\ IF servizioRpc = "conta"
     THEN /\ fase[c] = "attesa" /\ copie[c] = Tentativi
          /\ fase' = [fase EXCEPT ![c] = "menu"]
          /\ UNCHANGED <<xid, copie, arg, richieste, risposte>>
     ELSE Scaduto(c)
  /\ UNCHANGED <<servizioRpc, aperti, stampate>>

esce(c) == servizioRpc # "spento" /\ clnt_destroy(c) /\ UNCHANGED <<servizioRpc, aperti, stampate>>

RpcServiziNext ==
  \/ registra_servizio
  \/ \E m \in richieste : svc_run(m)
  \/ \E c \in Client : chiama(c) \/ Ripete(c) \/ stampa(c) \/ fallisce(c) \/ esce(c)

-----------------------------------------------------------------------------
\* The counts of a file by the positions of its characters.  That it is not
\* there is said of a file that is only when there are no descriptors, fd of
\* them being open.
ContoDovuto(nome, ris, fd) ==
  IF ris.errore = -1 THEN nome \in DOMAIN FileConta => fd >= MaxFd
  ELSE LET t == FileConta[nome]
       IN  ris.conto = [caratteri |-> Len(t),
                        linee |-> Cardinality({i \in DOMAIN t : t[i] = "n"}),
                        parole |-> Cardinality({ij \in Intervalli(t, Bianchi) : ij[1] < ij[2]})]

\* An entry of d may not be read.
Illeggibile(d) == \E i \in DOMAIN d : ~d[i].legge

\* The first names of files of the right size, in their order.
NomiDovuti(nome, soglia, ris, fd) ==
  IF ris.errore = -1
  THEN nome \in DOMAIN DirConta => fd + Len(DirConta[nome]) >= MaxFd \/ Illeggibile(DirConta[nome])
  ELSE LET d == DirConta[nome]
           Buone == {i \in DOMAIN d : d[i].reg /\ d[i].dim >= soglia}
           Posto(i) == Cardinality({j \in Buone : j <= i})
       IN  /\ Len(ris.nomi) = Min({MaxNomi, Cardinality(Buone)})
           /\ \A i \in Buone : Posto(i) <= MaxNomi => ris.nomi[Posto(i)] = d[i].nome

\* A number modulo the ints.
IntDovuto(n, ris) == ris \in -MetaInt .. MetaInt - 1 /\ (ris - n) % (2 * MetaInt) = 0

RispostaDovuta(a, ris, fd) ==
  CASE a.proc = "FILE_SCAN" -> ContoDovuto(a.nome, ris, fd)
    [] a.proc = "DIR_SCAN" -> NomiDovuti(a.nome, a.soglia, ris, fd)
    [] a.proc = "SOMMA" -> IntDovuto(a.op1 + a.op2, ris.ris)
    [] a.proc = "MOLTIPLICAZIONE" -> IntDovuto(a.op1 * a.op2, ris.ris)
    [] a.proc = "ECHO" -> ris.msg = a.msg

\* An answer that is shown is the answer to the question asked, whatever was
\* sent twice or came late.  "Non esiste" is shown of what is there only when
\* the descriptors that dir_scan never closes have come to their end, or of a
\* directory with an entry that may not be read.
RispostaRpcGiusta == \A s \in stampate : RispostaDovuta(s.arg, s.ris, aperti)
=============================================================================
