----------------------------- MODULE SelectLoop -----------------------------
(***************************************************************************)
(* The main loop of the two select servers of Esercitazione 4: one TCP     *)
(* listening socket for files, one UDP socket for counting the files of a  *)
(* directory, a child for every accepted connection; and datagram_client,  *)
(* which both servers share.                                               *)
(*                                                                         *)
(* Descriptors are finite: accept fails when the server holds limiteFd     *)
(* connections.  fork may fail at any time (no memory, no process left).   *)
(***************************************************************************)
EXTENDS Figli, Sequences

CONSTANTS LimitiFd,    \* what limiteFd may be
          Backlog,     \* connections waiting to be accepted (listen(.., 5))
          ClientU,     \* the datagram clients
          Conteggi,    \* what conta_file may return: -1, or a count
          MaxConteggi  \* bound: questions a datagram client asks

ASSUME SelectAssumption ==
  /\ LimitiFd \subseteq Nat /\ Backlog \in Nat \ {0} /\ MaxConteggi \in Nat
  /\ Conteggi \subseteq Int

VARIABLES pc,       \* the server: in select, at the "tcp", "close" or "udp" step, dead
          pronti,   \* the sockets select found readable
          coda,     \* connections established and not yet accepted
          aperti,   \* connections the server process holds a descriptor of
          limiteFd, \* how many it may: its limit, less what it inherited
          faseU,    \* datagram client: at the menu, or in recvfrom
          chiesti,  \* questions asked so far by each datagram client
          posta,    \* datagrams to the server: [client, n]
          ritorno,  \* datagrams to the clients: [client, n, num, ris]
          letti     \* history: for each answer read, the count made and the number shown

udpVars  == <<faseU, chiesti, posta, ritorno, letti>>
loopVars == <<pc, pronti, coda, aperti, limiteFd>>

LoopInit ==
  /\ FigliInit
  /\ pc = "select" /\ pronti = {} /\ coda = <<>> /\ aperti = {}
  /\ limiteFd \in LimitiFd
  /\ faseU = [u \in ClientU |-> "menu"]
  /\ chiesti = [u \in ClientU |-> 0]
  /\ posta = {} /\ ritorno = {} /\ letti = {}

\* The server runs its own code: alive and not inside the signal handler.
Attivo(p) == pc = p /\ ~inGestore

\* The point reached after the "if (FD_ISSET(listenfd, ..))" block.
DopoTcp == IF "udp" \in pronti THEN "udp" ELSE "select"

\* select returns with the sockets that are readable now.  Interrupted by
\* SIGCHLD it returns EINTR and the loop calls it again: pc does not move.
select ==
  /\ Attivo("select")
  /\ pronti' = {s \in {"tcp", "udp"} : IF s = "tcp" THEN coda # <<>> ELSE posta # {}}
  /\ pronti' # {}
  /\ pc' = IF "tcp" \in pronti' THEN "tcp" ELSE "udp"
  /\ UNCHANGED <<coda, aperti, limiteFd, figliVars, udpVars>>

\* accept takes the oldest connection.
accept(k) ==
  /\ Attivo("tcp")
  /\ coda # <<>> /\ k = Head(coda)
  /\ Cardinality(aperti) < limiteFd
  /\ coda' = Tail(coda)
  /\ UNCHANGED <<pronti, limiteFd, udpVars>>

\* accept fails with EMFILE: perror and exit(9).
accept_fallita ==
  /\ Attivo("tcp")
  /\ Cardinality(aperti) >= limiteFd
  /\ pc' = "morto"
  /\ aperti' = {} /\ coda' = <<>>
  /\ UNCHANGED <<pronti, limiteFd, figliVars, udpVars>>

\* The UDP block: one request is read and answered with the number ris, the
\* count being num.
recvfrom_sendto(ris, num) ==
  /\ Attivo("udp")
  /\ \E q \in posta :
       /\ posta' = posta \ {q}
       /\ ritorno' = ritorno \cup {[client |-> q.client, n |-> q.n, num |-> num, ris |-> ris]}
  /\ pc' = "select"
  /\ UNCHANGED <<pronti, coda, aperti, limiteFd, figliVars, faseU, chiesti, letti>>

-----------------------------------------------------------------------------
(* datagram_client: asks, then waits in recvfrom without a timeout. *)

\* The network may lose the question: the client then waits for ever.
sendto(u) ==
  /\ faseU[u] = "menu" /\ chiesti[u] < MaxConteggi
  /\ faseU' = [faseU EXCEPT ![u] = "recvfrom"]
  /\ chiesti' = [chiesti EXCEPT ![u] = @ + 1]
  /\ posta' \in {posta, posta \cup {[client |-> u, n |-> chiesti[u] + 1]}}
  /\ UNCHANGED <<ritorno, letti>>

\* ntohl on a little-endian machine, the result printed as a signed int: the
\* four bytes swapped.
ntohl(n) ==
  LET byte(i) == (n \div 256^i) % 256
      segno   == IF byte(0) < 128 THEN byte(0) ELSE byte(0) - 256
  IN segno * 256^3 + byte(1) * 256^2 + byte(2) * 256 + byte(3)

\* A negative answer is reported as such; any other goes through ntohl.
recvfrom(u) ==
  /\ faseU[u] = "recvfrom"
  /\ \E r \in ritorno :
       /\ r.client = u
       /\ ritorno' = ritorno \ {r}
       /\ letti' = letti \cup {[num |-> r.num, visto |-> IF r.ris < 0 THEN r.ris ELSE ntohl(r.ris)]}
  /\ faseU' = [faseU EXCEPT ![u] = "menu"]
  /\ UNCHANGED <<chiesti, posta>>

\* The network loses an answer.
Perdi ==
  /\ \E r \in ritorno : ritorno' = ritorno \ {r}
  /\ UNCHANGED <<faseU, chiesti, posta, letti>>

ClienteU == (\E u \in ClientU : sendto(u) \/ recvfrom(u)) \/ Perdi

LoopTypeOK(K) ==
  /\ FigliTypeOK(K)
  /\ pc \in {"select", "tcp", "close", "udp", "morto"}
  /\ pronti \subseteq {"tcp", "udp"}
  /\ coda \in Seq(K) /\ aperti \subseteq K /\ limiteFd \in LimitiFd
  /\ faseU \in [ClientU -> {"menu", "recvfrom"}]
  /\ chiesti \in [ClientU -> 0 .. MaxConteggi]

\* "Nel direttorio %s ci sono %d file": the number a datagram client shows is
\* the count the server made (its "Risultato del conteggio").
ConteggioRestituito ==
  \A l \in letti : l.visto = l.num
=============================================================================
