-------------------------------- MODULE Servizi -------------------------------
(***************************************************************************)
(* The servers behind Datagrammi, each a single process that takes a       *)
(* datagram, works on the files of its directory and answers:              *)
(*   linea       LineServer.java: a line of a file, by number;             *)
(*   operazione  OpDatagram_server.c: an operation on two integers;        *)
(*   parola      longest-word-server.c: the longest word of a file;        *)
(*   elimina     server_select.c, UDP part: a file without a word;         *)
(* and, of the older solutions,                                            *)
(*   datagram    serverDatagram.c: the operation again;                    *)
(*   togli       server.c, UDP part: a file without a word.                *)
(* Integers are two "bytes" of base B: enough for ntohl to matter.         *)
(***************************************************************************)
EXTENDS Datagrammi, Testi

CONSTANTS Dischi,    \* Dischi[s]: directories (name -> text) server s may find
          Richieste, \* Richieste[s]: what users ask of server s
          B,         \* number of values of a byte
          Assente,   \* no file of that name
          FdLiberi   \* descriptors server.c may still open

ASSUME FdAssumption == FdLiberi \in Nat \ {0}

\* Texts are lists and operands are integers; a file asked for is there or not,
\* and no text of the characters of a file stands for a missing one.
\* No file that server.c works on is so long that an int cannot count its words.
ASSUME ServiziAssumption ==
  /\ B \in Nat \ {0}
  /\ \A s \in DOMAIN Dischi : \A d \in Dischi[s] : \A f \in DOMAIN d :
       d[f] = Assente \/ (/\ Lista(d[f]) /\ Assente \notin Seq({d[f][i] : i \in DOMAIN d[f]})
                          /\ s = "togli" => Len(d[f]) + 1 < (B * B) \div 2)
  /\ DOMAIN Richieste = DOMAIN Dischi
  /\ \A s \in DOMAIN Richieste : \A q \in Richieste[s] :
       CASE s \in {"operazione", "datagram"} ->
              q \in [op : {"+", "-", "*", "/"}, op1 : 0 .. B * B - 1, op2 : 0 .. B * B - 1]
         [] s = "linea" -> q.linea \in Int /\ \A d \in Dischi[s] : q.nome \in DOMAIN d
         [] s = "parola" -> \A d \in Dischi[s] : q \in DOMAIN d
         [] s = "togli" -> \A d \in Dischi[s] : {q.nome, "tempFile"} \subseteq DOMAIN d
         [] OTHER -> TRUE

VARIABLES servizio,  \* the server that runs
          ordine,    \* byte order of the two hosts
          disco,     \* its directory: name -> text or Assente
          lasciati,  \* descriptors server.c has opened and will not close
          caduto,    \* the server has exited, or was ended by a trap
          iniziale,  \* history: the directory when the server started
          tolte      \* history: deletions carried out

serviziVars == <<udpVars, servizio, ordine, disco, lasciati, caduto, iniziale, tolte>>

Interi == 0 .. B * B - 1

Ordini == [{"client", "server"} -> {"big", "little"}]

\* ntohl and htonl on a host.
ntohl(host, n) == IF ordine[host] = "big" THEN n ELSE (n % B) * B + n \div B

\* The bytes that stand for n in the host's memory, as they go on the wire
\* (read there as a number), and back.
Byte(host, n) == IF ordine[host] = "big" THEN n ELSE (n % B) * B + n \div B

\* An int of C: the upper half of the values are the negative numbers.
Con(n) == IF n >= (B * B) \div 2 THEN n - B * B ELSE n
Tronca(z) == z % (B * B)

\* C's division truncates towards zero; by zero the servers answer 0.
Div(x, y) ==
  LET q == (IF x < 0 THEN -x ELSE x) \div (IF y < 0 THEN -y ELSE y)
  IN  IF y = 0 THEN 0 ELSE IF (x < 0) = (y < 0) THEN q ELSE -q

Opera(op, m, n) ==
  Tronca(CASE op = "+" -> m + n
           [] op = "-" -> m - n
           [] op = "*" -> Con(m) * Con(n)
           [] op = "/" -> IF n = 0 THEN 0 ELSE Div(Con(m), Con(n)))

ServiziInit ==
  /\ UdpInit
  /\ servizio = "spento" /\ ordine = [host \in {"client", "server"} |-> "big"]
  /\ disco = <<>> /\ iniziale = <<>> /\ tolte = {} /\ lasciati = 0 /\ caduto = FALSE

\* A server checks its port, opens and binds its socket.
main(s) ==
  /\ servizio = "spento"
  /\ servizio' = s
  /\ ordine' \in CASE s \in {"operazione", "datagram"} -> Ordini
                   [] s = "togli" -> {o \in Ordini : o["client"] = o["server"]}
                   [] OTHER -> {[host \in {"client", "server"} |-> "big"]}
  /\ disco' \in Dischi[s]
  /\ iniziale' = disco'
  /\ UNCHANGED <<udpVars, lasciati, caduto, tolte>>

\* A user asks; what the clients accept from the keyboard is in Richieste.
\* OpDatagram_client sends its integers as they are.
Chiede(c) ==
  /\ servizio \in {"linea", "operazione", "parola", "elimina"}
  /\ \E q \in Richieste[servizio] :
       sendto(c, IF servizio = "operazione" THEN [q EXCEPT !.op1 = Byte("client", @), !.op2 = Byte("client", @)]
                 ELSE q)
  /\ UNCHANGED <<servizio, ordine, disco, lasciati, caduto, iniziale, tolte>>

\* The operands on the wire, converted by htonl.
Operandi(q) == [q EXCEPT !.op1 = Byte("client", ntohl("client", @)), !.op2 = Byte("client", ntohl("client", @))]

clientDatagram(c) ==
  /\ servizio = "datagram"
  /\ \/ \E q \in Richieste[servizio] : sendto(c, Operandi(q))
     \/ recvfrom(c)
  /\ UNCHANGED <<servizio, ordine, disco, lasciati, caduto, iniziale, tolte>>

\* What datagram_client prints for the number that came: -1 stands for "Il
\* file e' scorretto o non esiste".
Stampa(ris) == IF Con(Byte("client", ris)) < 0 THEN -1 ELSE ntohl("client", Byte("client", ris))

datagram_client(c) ==
  /\ servizio = "togli"
  /\ \/ \E q \in Richieste[servizio] : sendto(c, q)
     \/ recvfrom(c)
  /\ UNCHANGED <<servizio, ordine, disco, lasciati, caduto, iniziale, tolte>>

\* LineServer: an unreadable question (a name with a blank, say) is dropped.
LineServer(d) ==
  /\ servizio = "linea"
  /\ \/ /\ d.chiede.malformata
        /\ Scarta(d)
     \/ /\ ~d.chiede.malformata
        /\ Risposta(d, IF d.chiede.linea <= 0 THEN NonTrovata
                       ELSE IF disco[d.chiede.nome] = Assente THEN <<"File non trovato">>
                       ELSE getLine(disco[d.chiede.nome], d.chiede.linea))
  /\ UNCHANGED <<disco, lasciati, tolte>>

\* The operands of a datagram, as the server makes them out.
Operando(n) == ntohl("server", Byte("server", n))

\* Of the least int by -1 the quotient is no int, and the division traps.
Trappola(q) == q.op = "/" /\ Operando(q.op1) = (B * B) \div 2 /\ Operando(q.op2) = B * B - 1

\* Then the process ends, and nobody is answered any more.
divisione_impossibile ==
  /\ servizio \in {"operazione", "datagram"} /\ \E d \in domande : Trappola(d.chiede)
  /\ ~caduto /\ caduto' = TRUE
  /\ UNCHANGED <<udpVars, servizio, ordine, disco, lasciati, iniziale, tolte>>

\* OpDatagram: the operands are converted, the result is not.
OpDatagram_server(d) ==
  /\ servizio = "operazione" /\ ~caduto /\ ~Trappola(d.chiede)
  /\ Risposta(d, Byte("server", Opera(d.chiede.op, Operando(d.chiede.op1), Operando(d.chiede.op2))))
  /\ UNCHANGED <<disco, lasciati, tolte>>

\* Mutant: the result is not converted here either.
serverDatagram_senza_htonl(d) ==
  /\ servizio = "datagram" /\ ~caduto /\ ~Trappola(d.chiede)
  /\ Risposta(d, Byte("server", Opera(d.chiede.op, Operando(d.chiede.op1), Operando(d.chiede.op2))))
  /\ UNCHANGED <<disco, lasciati, tolte>>

\* serverDatagram: the result as well.
serverDatagram(d) ==
  /\ servizio = "datagram" /\ ~caduto /\ ~Trappola(d.chiede)
  /\ LET ris == Opera(d.chiede.op, Operando(d.chiede.op1), Operando(d.chiede.op2))
     IN  Risposta(d, Byte("server", ntohl("server", ris)))
  /\ UNCHANGED <<disco, lasciati, tolte>>

longest_word_server(d) ==
  /\ servizio = "parola"
  /\ Risposta(d, IF disco[d.chiede] = Assente THEN -1 ELSE ParolaPiuLunga(disco[d.chiede]))
  /\ UNCHANGED <<disco, lasciati, tolte>>

\* server_select: the text without the word goes to <name>_temp, which takes
\* the place of the file, also when there was no file: then an empty one
\* appears, after the answer -1.
server_select(d) ==
  /\ servizio = "elimina"
  /\ LET nome == d.chiede.nome
         f == IF disco[nome] = Assente THEN [esce |-> <<>>, ris |-> -1]
              ELSE EliminaParola(disco[nome], d.chiede.parola)
     IN  /\ Risposta(d, f.ris)
         /\ disco' = [disco EXCEPT ![nome] = f.esce]
         /\ tolte' = tolte \cup {[nome |-> nome, parola |-> d.chiede.parola, ris |-> f.ris,
                                  volta |-> Cardinality(tolte)]}
  /\ UNCHANGED lasciati

\* What a deletion of server.c leaves: the text goes over whatever tempFile
\* held, which takes the name of the file; tempFile itself is removed and
\* there is nothing to rename.
Rinomina(nome, esce) ==
  LET temp == IF disco["tempFile"] = Assente THEN <<>> ELSE disco["tempFile"]
  IN  [disco EXCEPT ![nome] = esce \o SubSeq(temp, Len(esce) + 1, Len(temp)), !["tempFile"] = Assente]

\* server.c: the descriptor of the file is not closed, and with none left, or
\* one, that is the answer to every question.  The result is not converted.
server(d) ==
  LET nome == d.chiede.nome
      f == elimina_parola(disco[nome], d.chiede.parola)
  IN  /\ servizio = "togli" /\ ~caduto
      /\ IF disco[nome] # Assente /\ lasciati + 1 < FdLiberi
         THEN /\ Risposta(d, Byte("server", f.ris))
              /\ disco' = Rinomina(nome, f.esce)
              /\ tolte' = tolte \cup {[nome |-> nome, parola |-> d.chiede.parola, ris |-> f.ris,
                                       volta |-> Cardinality(tolte)]}
         ELSE /\ Risposta(d, Byte("server", Tronca(-1)))
              /\ UNCHANGED <<disco, tolte>>
      /\ lasciati' = IF disco[nome] # Assente /\ lasciati < FdLiberi THEN lasciati + 1 ELSE lasciati

\* A client of the stream part connects: accept finds no descriptor, exit(9).
accept_senza_fd ==
  /\ servizio = "togli" /\ lasciati = FdLiberi
  /\ ~caduto /\ caduto' = TRUE
  /\ UNCHANGED <<udpVars, servizio, ordine, disco, lasciati, iniziale, tolte>>

\* The answer is shown; only LineClient sets a timeout on its socket.
Riceve(c) ==
  /\ servizio \in {"linea", "operazione", "parola", "elimina"}
  /\ recvfrom(c) \/ (servizio = "linea" /\ SocketTimeout(c))
  /\ UNCHANGED <<servizio, ordine, disco, lasciati, caduto, iniziale, tolte>>

ServiziNext ==
  \/ \E s \in DOMAIN Dischi : main(s)
  \/ \E c \in Utente : Chiede(c) \/ Riceve(c) \/ clientDatagram(c) \/ datagram_client(c)
  \/ /\ \E d \in domande :
          \/ LineServer(d) \/ OpDatagram_server(d) \/ longest_word_server(d) \/ server_select(d)
          \/ serverDatagram(d) \/ server(d)
     /\ UNCHANGED <<servizio, ordine, caduto, iniziale>>
  \/ accept_senza_fd \/ divisione_impossibile

-----------------------------------------------------------------------------
(* Properties. *)

\* server.c says -1 only for a file that is not there or when its descriptors
\* are used up, one for each deletion; else the number of words deleted, as the
\* bytes of its host; and it exits only after those deletions.
TogliAtteso(q, ris) ==
  /\ Stampa(ris) = -1 =>
       iniziale[q.nome] = Assente \/ disco[q.nome] = Assente \/ Cardinality(tolte) >= FdLiberi - 1
  /\ Stampa(ris) # -1 =>
       \E t \in tolte : t.nome = q.nome /\ t.parola = q.parola /\ Stampa(ris) = Byte("server", t.ris)
  /\ caduto => Cardinality(tolte) = FdLiberi - 1

\* What a question is owed: the line, the length of the longest terminated
\* word (or -1), the result of the operation: with serverDatagram on any two
\* hosts, with OpDatagram only where both are big-endian, as neither side
\* converts what it sends.  (Both clients print ntohl of what comes: the number
\* on the wire.)
RispostaAttesa(q, ris) ==
  CASE servizio = "linea" -> disco[q.nome] # Assente => ris = Linea(disco[q.nome], q.linea)
    [] servizio = "operazione" ->
         (\A host \in DOMAIN ordine : ordine[host] = "big") => ris = Opera(q.op, q.op1, q.op2)
    [] servizio = "datagram" -> ris = Opera(q.op, q.op1, q.op2)
    [] servizio = "togli" -> TogliAtteso(q, ris)
    [] servizio = "parola" ->
         ris = IF disco[q] = Assente \/ Intervalli(disco[q], Separatori) = {} THEN -1
               ELSE Max({ij[2] - ij[1] : ij \in Intervalli(disco[q], Separatori)})
    [] OTHER -> TRUE

\* Whatever a user is shown is what the question it came for is owed by then:
\* LineServer, OpDatagram_server, serverDatagram, longest-word-server and the
\* UDP part of server.c read the whole file and compute what they should.
RispostaGiusta == \A e \in mostrate : RispostaAttesa(e.dom.chiede, e.ris)

\* However many deletions several clients ask for, the words left in a file
\* are those it had, in their order, without the words deleted, and who first
\* deletes a word is told its occurrences in that file, those who come later 0:
\* nobody's rewriting undoes another's.  For server_select a word ends with a
\* separator; for server.c also with the file.  There a tempFile found at the
\* start spoils the end of the first text written over it: of the words that
\* stay only the last may suffer.  (An empty word deletes separators only.)
ParoleRimaste ==
  \A nome \in DOMAIN disco :
    LET fatte == {t \in tolte : t.nome = nome}
        via == {t.parola : t \in fatte}
        S == IF servizio = "togli" THEN Bianchi ELSE Separatori
        Finito(testo) == IF servizio = "togli" THEN Append(testo, Spazio) ELSE testo
        restano == ParoleSenza(Finito(iniziale[nome]), S, via)
        sono == ParoleSenza(Finito(disco[nome]), S, {})
        sporco == servizio = "togli" /\ iniziale["tempFile"] # Assente
    IN  iniziale[nome] # Assente /\ fatte # {} =>
          IF sporco THEN nome # "tempFile" /\ restano # <<>> => IsPrefix(Front(restano), sono)
          ELSE /\ sono = restano
               /\ \A t \in fatte : t.parola # <<>> =>
                    t.ris = IF \E u \in fatte : u.parola = t.parola /\ u.volta < t.volta THEN 0
                            ELSE Volte(Finito(iniziale[nome]), S, t.parola)
=============================================================================
